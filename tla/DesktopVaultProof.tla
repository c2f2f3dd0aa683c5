------------------------- MODULE DesktopVaultProof -------------------------
(***************************************************************************)
(* Proofs about DesktopVault: the vault that a device has saved opens      *)
(* wherever commands are cut short; until one is, every kit finds the      *)
(* latest catalog with all its files; and after one was, what a kit finds  *)
(* on the first device is whole.                                           *)
(***************************************************************************)
EXTENDS DesktopVault, FiniteSetTheorems, TLAPS

(***************************************************************************)
(* Histories: one function follows the links, and when a catalog is added, *)
(* one function follows the links with it.                                 *)
(***************************************************************************)
IsHistory(links, f) ==
  f = [j \in 0..Len(links) |-> IF j = 0 THEN {} ELSE {j} \cup f[links[j].previous]]

IsOn(f, n) == f = [j \in 0..n |-> f[j]]
Along(links, f, n) ==
  f[0] = {} /\ \A j \in 1..n : f[j] = {j} \cup f[links[j].previous]
TheHistory(links, f) == IsHistory(links, f) /\ \A g : IsHistory(links, g) => g = f

LEMMA HistoryValues ==
  ASSUME NEW links, NEW f, NEW n \in Nat, n = Len(links), IsHistory(links, f)
  PROVE  DOMAIN f = 0..n /\ IsOn(f, n) /\ Along(links, f, n)
<1>1. f = [j \in 0..n |-> IF j = 0 THEN {} ELSE {j} \cup f[links[j].previous]]
  BY Zenon DEF IsHistory
<1>2. /\ DOMAIN f = 0..n /\ f = [j \in 0..n |-> f[j]]
      /\ \A j \in 0..n : f[j] = IF j = 0 THEN {} ELSE {j} \cup f[links[j].previous]
  BY <1>1
<1>3. 0 \in 0..n /\ \A j \in 1..n : j \in 0..n /\ j # 0
  OBVIOUS
<1> QED
  BY <1>2, <1>3, Zenon DEF IsOn, Along

LEMMA HistoryOfValues ==
  ASSUME NEW links, NEW f, NEW n \in Nat, n = Len(links), IsOn(f, n), Along(links, f, n)
  PROVE  IsHistory(links, f)
<1>0. \A j \in 0..n : j = 0 \/ j \in 1..n
  OBVIOUS
<1>1. \A j \in 0..n : f[j] = IF j = 0 THEN {} ELSE {j} \cup f[links[j].previous]
  BY <1>0, Zenon DEF Along
<1>2. f = [j \in 0..n |-> IF j = 0 THEN {} ELSE {j} \cup f[links[j].previous]]
  BY <1>1, Zenon DEF IsOn
<1> QED
  BY <1>2, Zenon DEF IsHistory

\* One more catalog, which links to an earlier one as all do.
OneLonger(longer, links, n) ==
  /\ Len(links) = n /\ Len(longer) = n + 1 /\ longer[n + 1].previous \in 0..n
  /\ \A j \in 1..n : /\ longer[j].previous = links[j].previous
                     /\ links[j].previous \in 0..j - 1

LEMMA LongerHistory ==
  ASSUME NEW links, NEW longer, NEW f, NEW n \in Nat,
         OneLonger(longer, links, n), TheHistory(links, f)
  PROVE  \E h : /\ TheHistory(longer, h)
                /\ \A j \in 0..n : h[j] = f[j]
                /\ h[n + 1] = {n + 1} \cup f[longer[n + 1].previous]
<1> DEFINE p == longer[n + 1].previous
<1> USE DEF OneLonger
<1>1. PICK h : h = [j \in 0..n + 1 |-> IF j = n + 1 THEN {n + 1} \cup f[p] ELSE f[j]]
  BY Zenon
<1>2. \A j \in 0..n : h[j] = f[j]
  BY <1>1
<1>3. h[n + 1] = {n + 1} \cup f[p]
  BY <1>1
<1>4. IsOn(h, n + 1)
  <2>1. h = [j \in 0..n + 1 |-> h[j]]
    BY <1>1, Zenon
  <2> QED
    BY <2>1 DEF IsOn
<1>5. f[0] = {} /\ \A j \in 1..n : f[j] = {j} \cup f[links[j].previous]
  <2>1. IsHistory(links, f)
    BY DEF TheHistory
  <2>2. n = Len(links)
    OBVIOUS
  <2>3. Along(links, f, n)
    BY <2>1, <2>2, HistoryValues, Zenon
  <2> QED
    BY <2>3 DEF Along
<1>6. \A j \in 1..n : links[j].previous \in 0..n
  OBVIOUS
<1>7. IsHistory(longer, h)
  <2>1. h[0] = {}
    BY <1>2, <1>5
  <2>2. \A j \in 1..n : h[j] = {j} \cup h[longer[j].previous]
    BY <1>2, <1>5, <1>6
  <2>3. h[n + 1] = {n + 1} \cup h[longer[n + 1].previous]
    BY <1>2, <1>3
  <2>4. \A j \in 1..n + 1 : h[j] = {j} \cup h[longer[j].previous]
    BY <2>2, <2>3
  <2>5. n + 1 \in Nat /\ n + 1 = Len(longer)
    OBVIOUS
  <2>6. Along(longer, h, n + 1)
    BY <2>1, <2>4 DEF Along
  <2> QED
    BY <1>4, <2>5, <2>6, HistoryOfValues, Zenon
<1>8. ASSUME NEW g, IsHistory(longer, g)
      PROVE  g = h
  <2>1. n + 1 \in Nat /\ n + 1 = Len(longer)
    OBVIOUS
  <2>9. IsOn(g, n + 1)
    BY <1>8, <2>1, HistoryValues, Zenon
  <2>10. g[0] = {} /\ \A j \in 1..n + 1 : g[j] = {j} \cup g[longer[j].previous]
    <3>1. Along(longer, g, n + 1)
      BY <1>8, <2>1, HistoryValues, Zenon
    <3> QED
      BY <3>1 DEF Along
  <2>2. PICK k : k = [j \in 0..n |-> g[j]]
    BY Zenon
  <2>3. \A j \in 0..n : k[j] = g[j]
    BY <2>2
  <2>4. IsOn(k, n)
    BY <2>2, Zenon DEF IsOn
  <2>5. k[0] = {} /\ \A j \in 1..n : k[j] = {j} \cup k[links[j].previous]
    <3>1. k[0] = {}
      BY <2>10, <2>3
    <3>3. \A j \in 1..n : j \in 0..n
      OBVIOUS
    <3>2. ASSUME NEW j \in 1..n
          PROVE  k[j] = {j} \cup k[links[j].previous]
      <4>1. links[j].previous \in 0..n /\ longer[j].previous = links[j].previous
        BY <1>6
      <4>2. g[j] = {j} \cup g[links[j].previous]
        BY <2>10, <4>1
      <4> QED
        BY <2>3, <4>1, <4>2, <3>3
    <3> QED
      BY <3>1, <3>2
  <2>6. IsHistory(links, k)
    <3>1. Along(links, k, n)
      BY <2>5 DEF Along
    <3>2. n = Len(links)
      OBVIOUS
    <3> QED
      BY <2>4, <3>1, <3>2, HistoryOfValues, Zenon
  <2>7. k = f
    BY <2>6 DEF TheHistory
  <2>8. g[n + 1] = h[n + 1]
    BY <1>3, <2>10, <2>3, <2>7
  <2>11. \A j \in 0..n + 1 : g[j] = h[j]
    BY <1>2, <2>3, <2>7, <2>8
  <2> QED
    BY <1>4, <2>9, <2>11, Zenon DEF IsOn
<1> QED
  BY <1>2, <1>3, <1>7, <1>8 DEF TheHistory


-----------------------------------------------------------------------------
(***************************************************************************)
(* The invariant.  Signed catalogs link to earlier ones.                   *)
(***************************************************************************)
Signed == 1..Len(catalogs)
SignedEntry == [file : 1..MaxFiles, until : Nat]
SignedCatalog == [version : Nat, previous : Nat, files : SUBSET SignedEntry]

SignedOnesOK ==
  /\ catalogs \in Seq(SignedCatalog) /\ Len(catalogs) <= MaxCatalogs
  /\ \A c \in Signed : catalogs[c].previous \in 0..c - 1

HistoriesOK ==
  /\ \E f : TheHistory(catalogs, f)
  /\ \A c \in Signed : Chain(c) \subseteq Signed

(***************************************************************************)
(* Objects that can be stored now: catalogs are signed before.             *)
(***************************************************************************)
Storable == {o \in Object : o[1] = "catalog" => o[2] \in Signed}

StoredOK ==
  /\ disk \cup net \cup old \subseteq Storable
  /\ state \in 0..Len(catalogs)
  /\ kit \cup copies \subseteq Signed /\ (kit = {} \/ \E c \in Signed : kit = {c})
  /\ {connected, made, secrets, replaced} \subseteq BOOLEAN
  /\ day \in 1..MaxDay /\ stops \in 0..MaxStops
  /\ made => connected

(***************************************************************************)
(* What a command has still to write, what it brings to the storage, and   *)
(* what a device needs that has saved a catalog.                           *)
(***************************************************************************)
Writes ==
  [do : {"put"}, what : Storable]
  \cup [do : {"restore"}, what : [objects : SUBSET Storable, sources : SUBSET Storable]]
  \cup [do : {"secrets"}, what : {0}]
  \cup [do : {"save", "kit"}, what : Signed]
  \cup [do : {"sweep"}, what : SUBSET Object]

Brings(w) == IF w.do = "put" THEN {w.what}
             ELSE IF w.do = "restore" THEN w.what.objects ELSE {}

Needs(c) == ChainObjects(c) \cup FileObjects(Live(c))

(***************************************************************************)
(* A catalog is saved only when the secrets are, and when all it needs is  *)
(* stored, unless the device was connected to another storage since.       *)
(***************************************************************************)
SavesOK ==
  \A i \in 1..Len(job) : job[i].do = "save" =>
    /\ secrets = TRUE \/ \E j \in 1..i - 1 : job[j].do = "secrets"
    /\ connected = made =>
         \A o \in Needs(job[i].what) :
           o \in Readable \/ \E j \in 1..i - 1 : o \in Brings(job[j])

(***************************************************************************)
(* A sweep comes last, and keeps what the saved catalog needs.             *)
(***************************************************************************)
SweepsOK ==
  \A i \in 1..Len(job) : job[i].do = "sweep" =>
    /\ i = Len(job)
    /\ \A j \in 1..Len(job) :
         job[j].do = "save" => Needs(job[j].what) \subseteq job[i].what
    /\ (\A j \in 1..Len(job) : job[j].do # "save") /\ state # 0 =>
         Needs(state) \subseteq job[i].what

Opens ==
  state # 0 /\ connected = made => secrets = TRUE /\ Needs(state) \subseteq Readable

IInv ==
  /\ SignedOnesOK /\ HistoriesOK /\ StoredOK /\ job \in Seq(Writes)
  /\ SavesOK /\ SweepsOK /\ Opens

-----------------------------------------------------------------------------
LEMMA HistoryIsThe ==
  ASSUME HistoriesOK
  PROVE  TheHistory(catalogs, History)
<1>1. History = CHOOSE f : IsHistory(catalogs, f)
  BY DEF History, IsHistory
<1> QED
  BY <1>1 DEF HistoriesOK, TheHistory

LEMMA ChainValues ==
  ASSUME SignedOnesOK, HistoriesOK
  PROVE  /\ Chain(0) = {}
         /\ \A c \in Signed :
              Chain(c) = {c} \cup Chain(catalogs[c].previous)
<1>1. IsHistory(catalogs, History)
  BY HistoryIsThe DEF TheHistory
<1>2. PICK n \in Nat : n = Len(catalogs)
  BY DEF SignedOnesOK
<1>3. Along(catalogs, History, n)
  BY <1>1, <1>2, HistoryValues, Zenon
<1>4. /\ History[0] = {}
      /\ \A j \in 1..Len(catalogs) :
           History[j] = {j} \cup History[catalogs[j].previous]
  BY <1>2, <1>3, Zenon DEF Along
<1> QED
  BY <1>4 DEF Chain, Signed

LEMMA SameHistories ==
  ASSUME HistoriesOK, catalogs' = catalogs
  PROVE  HistoriesOK' /\ \A c : Chain(c)' = Chain(c)
<1>1. History = CHOOSE f : IsHistory(catalogs, f)
  BY DEF History, IsHistory
<1>2. History' = CHOOSE f : IsHistory(catalogs', f)
  BY DEF History, IsHistory
<1>3. History' = History
  BY <1>1, <1>2
<1>4. \A c : Chain(c)' = Chain(c)
  BY <1>3 DEF Chain
<1> QED
  BY <1>4 DEF HistoriesOK, Signed

LEMMA LongerHistories ==
  ASSUME HistoriesOK, NEW n \in Nat, OneLonger(catalogs', catalogs, n)
  PROVE  /\ \E f : TheHistory(catalogs, f)'
         /\ \A c \in 0..n : Chain(c)' = Chain(c)
         /\ Chain(n + 1)'
              = {n + 1} \cup Chain(catalogs'[n + 1].previous)
<1>1. TheHistory(catalogs, History)
  BY HistoryIsThe
<1>2. PICK h : /\ TheHistory(catalogs', h)
               /\ \A j \in 0..n : h[j] = History[j]
               /\ h[n + 1] = {n + 1} \cup History[catalogs'[n + 1].previous]
  BY <1>1, LongerHistory
<1>3. History' = h
  <2>1. History' = CHOOSE f : IsHistory(catalogs', f)
    BY DEF History, IsHistory
  <2> QED
    BY <1>2, <2>1 DEF TheHistory
<1> QED
  BY <1>2, <1>3 DEF Chain

LEMMA ChainsGrow ==
  ASSUME SignedOnesOK, HistoriesOK, NEW n \in Nat, n = Len(catalogs),
         NEW r, r.previous \in 0..n, catalogs' = Append(catalogs, r)
  PROVE  /\ HistoriesOK'
         /\ \A c \in 0..n : Chain(c)' = Chain(c)
         /\ Chain(n + 1)' = {n + 1} \cup Chain(r.previous)
<1>1. /\ Len(catalogs') = n + 1 /\ catalogs'[n + 1] = r
      /\ \A c \in 1..n : catalogs'[c] = catalogs[c]
  BY DEF SignedOnesOK
<1>2. \A j \in 1..n : /\ catalogs'[j].previous = catalogs[j].previous
                      /\ catalogs[j].previous \in 0..j - 1
  BY <1>1 DEF SignedOnesOK, Signed
<1>3. OneLonger(catalogs', catalogs, n)
  BY <1>1, <1>2 DEF OneLonger
<1>4. /\ \E f : TheHistory(catalogs, f)'
      /\ \A c \in 0..n : Chain(c)' = Chain(c)
      /\ Chain(n + 1)'
           = {n + 1} \cup Chain(catalogs'[n + 1].previous)
  BY <1>3, LongerHistories
<1>5. \A c \in Signed' : Chain(c)' \subseteq Signed'
  <2>1. \A c \in 0..n : Chain(c) \subseteq 1..n
    BY ChainValues DEF HistoriesOK, Signed
  <2>2. Signed' = 1..n + 1
    BY <1>1 DEF Signed
  <2>3. \A c \in 1..n + 1 : Chain(c)' \subseteq 1..n + 1
    BY <1>1, <1>4, <2>1
  <2> QED
    BY <2>2, <2>3
<1> QED
  BY <1>1, <1>4, <1>5 DEF HistoriesOK


-----------------------------------------------------------------------------
LEMMA WriteFields ==
  ASSUME NEW w \in Writes
  PROVE  /\ w.do = "put" => w.what \in Storable
         /\ w.do = "restore" => /\ w.what.objects \subseteq Storable
                                /\ w.what.sources \subseteq Storable
         /\ w.do \in {"save", "kit"} => w.what \in Signed
         /\ w.do = "sweep" => w.what \subseteq Object
         /\ w.do \in {"put", "restore", "secrets", "save", "kit", "sweep"}
BY DEF Writes

LEMMA AWrite ==
  ASSUME NEW x
  PROVE  /\ x \in Storable => Write("put", x) \in Writes
         /\ x \in Signed => /\ Write("save", x) \in Writes
                            /\ Write("kit", x) \in Writes
         /\ x \in SUBSET Object => Write("sweep", x) \in Writes
         /\ Write("secrets", 0) \in Writes
BY DEF Writes, Write

LEMMA ARestore ==
  ASSUME NEW objects \in SUBSET Storable, NEW sources \in SUBSET Storable
  PROVE  Write("restore", [objects |-> objects, sources |-> sources]) \in Writes
BY DEF Writes, Write

LEMMA TheRest ==
  ASSUME NEW set, NEW s \in Seq(set), s # <<>>
  PROVE  /\ Tail(s) \in Seq(set) /\ Len(Tail(s)) = Len(s) - 1
         /\ \A i \in 1..Len(s) - 1 : Tail(s)[i] = s[i + 1]
         /\ Head(s) = s[1] /\ s[1] \in set /\ Len(s) \in Nat \ {0}
OBVIOUS

LEMMA SameNeeds ==
  ASSUME HistoriesOK, catalogs' = catalogs, day' = day
  PROVE  \A c : Needs(c)' = Needs(c)
<1>1. \A c : Chain(c)' = Chain(c)
  BY SameHistories
<1>2. \A c : ChainObjects(c)' = ChainObjects(c)
  BY <1>1 DEF ChainObjects, CatalogObject
<1>3. \A c : Live(c)' = Live(c)
  BY DEF Live, Files, Kept
<1> QED
  BY <1>2, <1>3 DEF Needs, FileObjects, Manifest, Chunk

LEMMA SameWrites ==
  ASSUME catalogs' = catalogs
  PROVE  Storable' = Storable /\ Writes' = Writes /\ Signed' = Signed
<1>1. Signed' = Signed
  BY DEF Signed
<1>2. Object' = Object
  BY DEF Object
<1>3. Storable' = Storable
  BY <1>1, <1>2 DEF Storable
<1> QED
  BY <1>1, <1>2, <1>3 DEF Writes

(***************************************************************************)
(* The first of the writes of a command is made.                           *)
(***************************************************************************)
LEMMA OneWrite ==
  ASSUME IInv, job # <<>>, job' = Tail(job),
         catalogs' = catalogs, day' = day, connected' = connected, made' = made,
         NEW w, w = job[1],
         \A o \in Readable \cup Brings(w) : o \in Readable',
         secrets = TRUE \/ w.do = "secrets" => secrets' = TRUE,
         state' = IF w.do = "save" THEN w.what ELSE state
  PROVE  job' \in Seq(Writes') /\ SavesOK' /\ SweepsOK'
<1> DEFINE n == Len(job)
<1>1. /\ Writes' = Writes /\ job \in Seq(Writes) /\ HistoriesOK
      /\ SavesOK /\ SweepsOK
  BY SameWrites DEF IInv
<1>2. /\ job' \in Seq(Writes) /\ Len(job') = n - 1 /\ n \in Nat \ {0}
      /\ \A i \in 1..n - 1 : job'[i] = job[i + 1]
  BY <1>1, TheRest
<1>3. \A c : Needs(c)' = Needs(c)
  BY <1>1, SameNeeds
<1>4. \A x : Brings(x)' = Brings(x)
  BY DEF Brings
<1>5. SavesOK'
  <2>1. ASSUME NEW i \in 1..n - 1, job'[i].do = "save"
        PROVE  /\ secrets' = TRUE \/ \E j \in 1..i - 1 : job'[j].do = "secrets"
               /\ connected = made =>
                    \A o \in Needs(job'[i].what) :
                      o \in Readable' \/ \E j \in 1..i - 1 : o \in Brings(job'[j])
    <3>1. i + 1 \in 1..n /\ job[i + 1].do = "save" /\ job'[i] = job[i + 1]
      BY <1>2, <2>1
    <3>2. /\ secrets = TRUE \/ \E j \in 1..(i + 1) - 1 : job[j].do = "secrets"
          /\ connected = made =>
               \A o \in Needs(job[i + 1].what) :
                 o \in Readable \/ \E j \in 1..(i + 1) - 1 : o \in Brings(job[j])
      BY <1>1, <3>1 DEF SavesOK
    <3>3. \A j \in 1..(i + 1) - 1 : j = 1 \/ (j - 1 \in 1..i - 1 /\ job'[j - 1] = job[j])
      BY <1>2
    <3>4. secrets' = TRUE \/ \E j \in 1..i - 1 : job'[j].do = "secrets"
      BY <3>2, <3>3
    <3>5. ASSUME connected = made, NEW o \in Needs(job'[i].what)
          PROVE  o \in Readable' \/ \E j \in 1..i - 1 : o \in Brings(job'[j])
      <4>1. o \in Readable \/ \E j \in 1..(i + 1) - 1 : o \in Brings(job[j])
        BY <3>1, <3>2, <3>5
      <4> QED
        BY <3>3, <4>1
    <3> QED
      BY <3>4, <3>5
  <2> QED
    BY <1>2, <1>3, <1>4, <2>1 DEF SavesOK
<1>6. SweepsOK'
  <2>1. ASSUME NEW i \in 1..n - 1, job'[i].do = "sweep"
        PROVE  /\ i = n - 1
               /\ \A j \in 1..n - 1 :
                    job'[j].do = "save" => Needs(job'[j].what) \subseteq job'[i].what
               /\ (\A j \in 1..n - 1 : job'[j].do # "save") /\ state' # 0 =>
                    Needs(state') \subseteq job'[i].what
    <3>1. i + 1 \in 1..n /\ job[i + 1].do = "sweep" /\ job'[i] = job[i + 1]
      BY <1>2, <2>1
    <3>2. /\ i + 1 = n
          /\ \A j \in 1..n :
               job[j].do = "save" => Needs(job[j].what) \subseteq job[i + 1].what
          /\ (\A j \in 1..n : job[j].do # "save") /\ state # 0 =>
               Needs(state) \subseteq job[i + 1].what
      BY <1>1, <3>1 DEF SweepsOK
    <3>3. \A j \in 1..n - 1 : job'[j] = job[j + 1] /\ j + 1 \in 1..n
      BY <1>2
    <3>4. \A j \in 1..n : j = 1 \/ (j - 1 \in 1..n - 1 /\ job'[j - 1] = job[j])
      BY <1>2
    <3>5. ASSUME \A j \in 1..n - 1 : job'[j].do # "save", state' # 0
          PROVE  Needs(state') \subseteq job'[i].what
      <4>1. CASE w.do = "save"
        <5>1. 1 \in 1..n
          BY <1>2
        <5> QED
          BY <3>1, <3>2, <4>1, <5>1
      <4>2. CASE w.do # "save"
        BY <3>1, <3>2, <3>4, <3>5, <4>2
      <4> QED
        BY <4>1, <4>2
    <3>6. i = n - 1
      <4>1. i + 1 = n
        BY <3>2, Zenon
      <4>2. n \in Nat /\ i \in Nat
        BY <1>2
      <4> HIDE DEF n
      <4> QED
        BY <4>1, <4>2
    <3>7. \A j \in 1..n - 1 :
            job'[j].do = "save" => Needs(job'[j].what) \subseteq job'[i].what
      <4>1. ASSUME NEW j \in 1..n - 1, job'[j].do = "save"
            PROVE  Needs(job'[j].what) \subseteq job'[i].what
        <5>1. job'[j] = job[j + 1] /\ j + 1 \in 1..n
          BY <3>3
        <5> QED
          BY <3>1, <3>2, <4>1, <5>1
      <4> QED
        BY <4>1
    <3> QED
      BY <3>5, <3>6, <3>7
  <2> QED
    BY <1>2, <1>3, <2>1 DEF SweepsOK
<1> QED
  BY <1>1, <1>2, <1>5, <1>6


(***************************************************************************)
(* What no write changes.                                                  *)
(***************************************************************************)
Fixed == UNCHANGED <<catalogs, old, connected, made, copies, day, stops, replaced>>

LEMMA FixedKeeps ==
  ASSUME IInv, Fixed
  PROVE  /\ SignedOnesOK' /\ HistoriesOK'
         /\ Storable' = Storable /\ Writes' = Writes /\ Signed' = Signed
         /\ \A c : Needs(c)' = Needs(c)
         /\ catalogs' = catalogs /\ old' = old /\ connected' = connected /\ made' = made
         /\ copies' = copies /\ day' = day /\ stops' = stops /\ replaced' = replaced
<1>1. /\ catalogs' = catalogs /\ old' = old /\ connected' = connected /\ made' = made
      /\ copies' = copies /\ day' = day /\ stops' = stops /\ replaced' = replaced
  BY DEF Fixed
<1>2. HistoriesOK /\ SignedOnesOK
  BY DEF IInv
<1>3. HistoriesOK'
  BY <1>1, <1>2, SameHistories
<1>4. SignedOnesOK'
  BY <1>1, <1>2 DEF SignedOnesOK, SignedCatalog, SignedEntry, Signed
<1> QED
  BY <1>1, <1>2, <1>3, <1>4, SameWrites, SameNeeds

LEMMA Storing ==
  ASSUME NEW objects, Store(objects), connected' = connected
  PROVE  /\ Readable' = Readable \cup objects
         /\ disk' \cup net' = disk \cup net \cup objects
         /\ disk \subseteq disk' /\ net \subseteq net'
BY DEF Store, Readable

LEMMA OneWriteKeeps ==
  ASSUME IInv, Fixed, job # <<>>, job' = Tail(job), NEW w, w = job[1],
         disk' \cup net' \subseteq Storable,
         \A o \in Readable \cup Brings(w) : o \in Readable',
         secrets' \in BOOLEAN, secrets = TRUE \/ w.do = "secrets" => secrets' = TRUE,
         state' = IF w.do = "save" THEN w.what ELSE state,
         kit' = IF w.do = "kit" THEN {w.what} ELSE kit
  PROVE  IInv'
<1>1. /\ SignedOnesOK' /\ HistoriesOK'
      /\ Storable' = Storable /\ Signed' = Signed
      /\ \A c : Needs(c)' = Needs(c)
  BY FixedKeeps
<1>2. /\ catalogs' = catalogs /\ old' = old /\ connected' = connected /\ made' = made
      /\ copies' = copies /\ day' = day /\ stops' = stops /\ replaced' = replaced
  BY FixedKeeps
<1>3. job' \in Seq(Writes') /\ SavesOK' /\ SweepsOK'
  BY <1>2, OneWrite
<1>4. job \in Seq(Writes) /\ StoredOK /\ Opens /\ SavesOK /\ SignedOnesOK
  BY DEF IInv
<1>5. w \in Writes /\ Len(job) \in Nat \ {0}
  BY <1>4, TheRest
<1>6. w.do \in {"save", "kit"} => w.what \in 1..Len(catalogs)
  BY <1>5, WriteFields DEF Signed
<1>7. StoredOK'
  <2>1. disk' \cup net' \cup old' \subseteq Storable'
    BY <1>1, <1>2, <1>4 DEF StoredOK
  <2>2. state' \in 0..Len(catalogs')
    <3>1. state \in 0..Len(catalogs) /\ Len(catalogs) \in Nat
      BY <1>4 DEF StoredOK, SignedOnesOK
    <3> QED
      BY <1>2, <1>6, <3>1
  <2>3. /\ kit' \cup copies' \subseteq Signed'
        /\ kit' = {} \/ \E c \in Signed' : kit' = {c}
    BY <1>1, <1>2, <1>4, <1>6 DEF StoredOK, Signed
  <2>4. /\ {connected', made', secrets', replaced'} \subseteq BOOLEAN
        /\ day' \in 1..MaxDay /\ stops' \in 0..MaxStops
        /\ made' => connected'
    BY <1>2, <1>4 DEF StoredOK
  <2> QED
    BY <2>1, <2>2, <2>3, <2>4 DEF StoredOK
<1>8. Opens'
  <2>1. SUFFICES ASSUME state' # 0, connected = made
                 PROVE  secrets' = TRUE /\ Needs(state') \subseteq Readable'
    BY <1>1, <1>2 DEF Opens
  <2>2. CASE w.do = "save"
    <3>1. 1 \in 1..Len(job) /\ \A j : j \notin 1..1 - 1
      BY <1>5
    <3>2. /\ secrets = TRUE
          /\ \A o \in Needs(w.what) : o \in Readable
      BY <1>4, <2>1, <2>2, <3>1 DEF SavesOK
    <3> QED
      BY <2>2, <3>2
  <2>3. CASE w.do # "save"
    BY <1>4, <2>1, <2>3 DEF Opens
  <2> QED
    BY <2>2, <2>3
<1> QED
  BY <1>1, <1>3, <1>7, <1>8 DEF IInv

LEMMA FirstWrite ==
  ASSUME IInv, ~Idle
  PROVE  /\ job # <<>> /\ Step = job[1] /\ job[1] \in Writes
         /\ job \in Seq(Writes) /\ Len(job) \in Nat \ {0}
         /\ Done <=> job' = Tail(job)
<1>1. job \in Seq(Writes) /\ job # <<>>
  BY DEF IInv, Idle
<1> QED
  BY <1>1, TheRest DEF Step, Done

LEMMA PutKeeps ==
  ASSUME IInv, Put, Fixed
  PROVE  IInv'
<1>1. ~Idle
  BY DEF Put
<1>2. PICK w : w = job[1] /\ w \in Writes
  BY <1>1, FirstWrite
<1>3. /\ w.do = "put" /\ Store({w.what}) /\ job' = Tail(job) /\ job # <<>>
      /\ secrets' = secrets /\ state' = state /\ kit' = kit
  BY <1>1, <1>2, FirstWrite DEF Put
<1>4. w.what \in Storable /\ connected' = connected
  BY <1>2, <1>3, WriteFields, FixedKeeps
<1>5. /\ Readable' = Readable \cup {w.what}
      /\ disk' \cup net' = disk \cup net \cup {w.what}
  BY <1>3, <1>4, Storing
<1>6. StoredOK
  BY DEF IInv
<1>7. disk' \cup net' \subseteq Storable /\ secrets' \in BOOLEAN
  BY <1>3, <1>4, <1>5, <1>6 DEF StoredOK
<1>8. Readable \cup Brings(w) \subseteq Readable'
  BY <1>3, <1>5 DEF Brings
<1> QED
  BY <1>2, <1>3, <1>7, <1>8, OneWriteKeeps

LEMMA SaysKeeps ==
  ASSUME IInv, SaveSecrets \/ SaveState \/ RefreshKit, Fixed
  PROVE  IInv'
<1>1. ~Idle
  BY DEF SaveSecrets, SaveState, RefreshKit
<1>2. PICK w : w = job[1] /\ w \in Writes
  BY <1>1, FirstWrite
<1>3. /\ job' = Tail(job) /\ job # <<>> /\ disk' = disk /\ net' = net
      /\ w.do \in {"secrets", "save", "kit"}
      /\ secrets' = IF w.do = "secrets" THEN TRUE ELSE secrets
      /\ state' = IF w.do = "save" THEN w.what ELSE state
      /\ kit' = IF w.do = "kit" THEN {w.what} ELSE kit
  BY <1>1, <1>2, FirstWrite
  DEF SaveSecrets, SaveState, RefreshKit
<1>4. StoredOK
  BY DEF IInv
<1>5. disk' \cup net' \subseteq Storable /\ secrets' \in BOOLEAN
  BY <1>3, <1>4 DEF StoredOK
<1>6. Readable \cup Brings(w) \subseteq Readable'
  BY <1>3, FixedKeeps DEF Brings, Readable
<1>7. secrets = TRUE \/ w.do = "secrets" => secrets' = TRUE
  BY <1>3
<1> QED
  BY <1>2, <1>3, <1>5, <1>6, <1>7, OneWriteKeeps


LEMMA SweepKeeps ==
  ASSUME IInv, Sweep, Fixed
  PROVE  IInv'
<1>1. ~Idle
  BY DEF Sweep
<1>2. PICK w : w = job[1] /\ w \in Writes
  BY <1>1, FirstWrite
<1>3. /\ w.do = "sweep" /\ job # <<>> /\ job \in Seq(Writes)
      /\ net' = net /\ secrets' = secrets /\ state' = state /\ kit' = kit
      /\ \/ job' = Tail(job) /\ disk' = disk
         \/ job' = job /\ \E o \in disk \ w.what : disk' = disk \ {o}
  BY <1>1, <1>2, FirstWrite DEF Sweep
<1>4. StoredOK /\ SavesOK /\ SweepsOK /\ Opens
  BY DEF IInv
<1>5. disk' \cup net' \subseteq Storable /\ secrets' \in BOOLEAN /\ secrets' = secrets
  BY <1>3, <1>4 DEF StoredOK
<1>6. CASE job' = Tail(job) /\ disk' = disk
  <2>1. Readable \cup Brings(w) \subseteq Readable'
    BY <1>3, <1>6, FixedKeeps DEF Brings, Readable
  <2> QED
    BY <1>2, <1>3, <1>5, <1>6, <2>1, OneWriteKeeps
<1>7. CASE job' = job /\ \E o \in disk \ w.what : disk' = disk \ {o}
  <2>1. PICK o \in disk \ w.what : disk' = disk \ {o}
    BY <1>7
  <2>2. /\ SignedOnesOK' /\ HistoriesOK'
        /\ Storable' = Storable /\ Writes' = Writes /\ Signed' = Signed
        /\ \A c : Needs(c)' = Needs(c)
    BY FixedKeeps
  <2>3. /\ catalogs' = catalogs /\ old' = old /\ connected' = connected /\ made' = made
        /\ copies' = copies /\ day' = day /\ stops' = stops /\ replaced' = replaced
    BY FixedKeeps
  <2>4. Len(job) = 1
    <3>1. 1 \in 1..Len(job)
      BY <1>1, FirstWrite
    <3> QED
      BY <1>2, <1>3, <1>4, <3>1 DEF SweepsOK
  <2>5. \A i \in 1..Len(job) : job[i] = w
    BY <1>2, <2>4
  <2>6. SavesOK'
    BY <1>3, <1>7, <2>5 DEF SavesOK
  <2>7. SweepsOK'
    BY <1>3, <1>4, <1>7, <2>2 DEF SweepsOK
  <2>8. state # 0 => Needs(state) \subseteq w.what
    <3>1. 1 \in 1..Len(job) /\ \A j \in 1..Len(job) : job[j].do # "save"
      BY <1>3, <2>4, <2>5
    <3> QED
      BY <1>2, <1>3, <1>4, <3>1 DEF SweepsOK
  <2>9. Opens'
    BY <1>3, <1>4, <2>1, <2>2, <2>3, <2>8 DEF Opens, Readable
  <2>10. StoredOK'
    BY <1>3, <1>4, <1>5, <2>2, <2>3 DEF StoredOK
  <2> QED
    BY <1>3, <1>7, <2>2, <2>6, <2>7, <2>9, <2>10 DEF IInv
<1> QED
  BY <1>3, <1>6, <1>7

LEMMA NextIsOne ==
  ASSUME NEW objects
  PROVE  /\ NextOf(objects) \subseteq objects
         /\ \A o \in NextOf(objects) :
              o[1] = "catalog" \/ \A p \in objects : p[1] # "catalog"
BY DEF NextOf

LEMMA RestoreKeeps ==
  ASSUME IInv, Restore, Fixed
  PROVE  IInv'
<1>1. ~Idle
  BY DEF Restore
<1>2. PICK w : w = job[1] /\ w \in Writes
  BY <1>1, FirstWrite
<1>3. /\ w.do = "restore" /\ job # <<>> /\ job \in Seq(Writes)
      /\ secrets' = secrets /\ state' = state /\ kit' = kit
      /\ \E o \in NextOf(w.what.objects) :
           LET rest == w.what.objects \ {o} IN
           IF o \in w.what.sources
           THEN /\ Store({o})
                /\ IF rest = {} THEN job' = Tail(job)
                   ELSE job' = [job EXCEPT ![1] =
                          Write("restore", [objects |-> rest, sources |-> w.what.sources])]
           ELSE job' = <<>> /\ UNCHANGED <<disk, net>>
  BY <1>1, <1>2, FirstWrite DEF Restore
<1>4. PICK o \in NextOf(w.what.objects) :
           LET rest == w.what.objects \ {o} IN
           IF o \in w.what.sources
           THEN /\ Store({o})
                /\ IF rest = {} THEN job' = Tail(job)
                   ELSE job' = [job EXCEPT ![1] =
                          Write("restore", [objects |-> rest, sources |-> w.what.sources])]
           ELSE job' = <<>> /\ UNCHANGED <<disk, net>>
  BY <1>3, Zenon
<1> DEFINE rest == w.what.objects \ {o}
<1>5. /\ o \in w.what.objects /\ o \in Storable
      /\ rest \subseteq Storable /\ w.what.sources \subseteq Storable
  BY <1>2, <1>3, NextIsOne, WriteFields
<1>6. StoredOK /\ SavesOK /\ SweepsOK /\ Opens
  BY DEF IInv
<1>7. /\ SignedOnesOK' /\ HistoriesOK'
      /\ Storable' = Storable /\ Writes' = Writes /\ Signed' = Signed
      /\ \A c : Needs(c)' = Needs(c)
  BY FixedKeeps
<1>8. /\ catalogs' = catalogs /\ old' = old /\ connected' = connected /\ made' = made
      /\ copies' = copies /\ day' = day /\ stops' = stops /\ replaced' = replaced
  BY FixedKeeps
<1>9. CASE o \notin w.what.sources
  <2>1. job' = <<>> /\ disk' = disk /\ net' = net
    BY <1>4, <1>9
  <2>2. job' \in Seq(Writes') /\ SavesOK' /\ SweepsOK'
    BY <2>1 DEF SavesOK, SweepsOK
  <2>3. StoredOK' /\ Opens'
    BY <1>3, <1>6, <1>7, <1>8, <2>1 DEF StoredOK, Opens, Readable
  <2> QED
    BY <1>7, <2>2, <2>3 DEF IInv
<1>10. CASE o \in w.what.sources
  <2>1. Store({o})
    BY <1>4, <1>10
  <2>2. /\ Readable' = Readable \cup {o}
        /\ disk' \cup net' = disk \cup net \cup {o}
    BY <1>8, <2>1, Storing
  <2>3. disk' \cup net' \subseteq Storable /\ secrets' \in BOOLEAN
    BY <1>3, <1>5, <1>6, <2>2 DEF StoredOK
  <2>4. CASE rest = {}
    <3>1. job' = Tail(job) /\ Brings(w) = {o}
      BY <1>3, <1>4, <1>5, <1>10, <2>4 DEF Brings
    <3> QED
      BY <1>2, <1>3, <2>2, <2>3, <3>1, OneWriteKeeps
  <2>5. CASE rest # {}
    <3>1. PICK v : v = Write("restore", [objects |-> rest, sources |-> w.what.sources])
      OBVIOUS
    <3>2. job' = [job EXCEPT ![1] = v]
      BY <1>4, <1>10, <2>5, <3>1
    <3>3. v \in Writes /\ v.do = "restore" /\ Brings(v) = rest /\ Brings(w) = rest \cup {o}
      BY <1>3, <1>5, <3>1, ARestore DEF Write, Brings
    <3>4. Len(job) \in Nat \ {0}
      BY <1>1, FirstWrite
    <3>5. /\ job' \in Seq(Writes) /\ Len(job') = Len(job) /\ job'[1] = v
          /\ \A i \in 1..Len(job) : i # 1 => job'[i] = job[i]
      BY <1>3, <3>2, <3>3, <3>4
    <3>6. /\ \A i \in 1..Len(job) : job'[i].do = job[i].do
          /\ \A i \in 1..Len(job) : job[i].do \in {"save", "sweep"} =>
               job'[i].what = job[i].what
      BY <1>2, <1>3, <3>3, <3>5
    <3>7. \A i \in 1..Len(job) : Brings(job[i]) \subseteq Brings(job'[i]) \cup {o}
      BY <1>2, <3>3, <3>5
    <3>8. SavesOK'
      <4>1. ASSUME NEW i \in 1..Len(job), job'[i].do = "save"
            PROVE  /\ secrets = TRUE \/ \E j \in 1..i - 1 : job'[j].do = "secrets"
                   /\ connected = made =>
                        \A p \in Needs(job'[i].what) :
                          \/ p \in Readable'
                          \/ \E j \in 1..i - 1 : p \in Brings(job'[j])
        <5>1. job[i].do = "save" /\ job'[i].what = job[i].what
          BY <3>6, <4>1
        <5>2. /\ secrets = TRUE \/ \E j \in 1..i - 1 : job[j].do = "secrets"
              /\ connected = made =>
                   \A p \in Needs(job[i].what) :
                     p \in Readable \/ \E j \in 1..i - 1 : p \in Brings(job[j])
          BY <1>6, <5>1 DEF SavesOK
        <5>3. \A j \in 1..i - 1 : j \in 1..Len(job)
          BY <3>4
        <5> QED
          BY <2>2, <3>6, <3>7, <5>1, <5>2, <5>3
      <4>2. \A x : Brings(x)' = Brings(x)
        BY DEF Brings
      <4> QED
        BY <1>3, <1>7, <1>8, <3>5, <4>1, <4>2 DEF SavesOK
    <3>9. SweepsOK'
      BY <1>3, <1>6, <1>7, <3>5, <3>6 DEF SweepsOK
    <3>10. StoredOK' /\ Opens'
      BY <1>3, <1>6, <1>7, <1>8, <2>2, <2>3 DEF StoredOK, Opens
    <3> QED
      BY <1>7, <3>5, <3>8, <3>9, <3>10 DEF IInv
  <2> QED
    BY <2>4, <2>5
<1> QED
  BY <1>9, <1>10


-----------------------------------------------------------------------------
(***************************************************************************)
(* A command begins: the one catalog that it saves, and what it sweeps.    *)
(***************************************************************************)
LEMMA NewJob ==
  ASSUME NEW k \in 1..Len(job'), \A i \in 1..Len(job') : job'[i].do = "save" <=> i = k,
         NEW c, c = job'[k].what,
         secrets' = TRUE \/ \E j \in 1..k - 1 : job'[j].do = "secrets",
         connected' = made' =>
           \A o \in Needs(c)' :
             o \in Readable' \/ \E j \in 1..k - 1 : o \in Brings(job'[j]),
         \A i \in 1..Len(job') :
           job'[i].do = "sweep" => i = Len(job') /\ Needs(c)' \subseteq job'[i].what
  PROVE  SavesOK' /\ SweepsOK'
<1>1. \A x : Brings(x)' = Brings(x)
  BY DEF Brings
<1>2. SavesOK'
  BY <1>1 DEF SavesOK
<1>3. SweepsOK'
  BY DEF SweepsOK
<1> QED
  BY <1>2, <1>3

(***************************************************************************)
(* A catalog is signed.                                                    *)
(***************************************************************************)
Untouched ==
  UNCHANGED <<disk, net, old, connected, secrets, state, kit, copies, day, stops,
              replaced>>

LEMMA GrownNeeds ==
  ASSUME SignedOnesOK, HistoriesOK, NEW n \in Nat, n = Len(catalogs), day' = day,
         NEW r, r.previous \in 0..n, catalogs' = Append(catalogs, r)
  PROVE  /\ \A c \in 1..n : Needs(c)' = Needs(c)
         /\ Needs(n + 1)' = {CatalogObject(n + 1)}
              \cup ChainObjects(r.previous)
              \cup FileObjects({v \in r.files : Kept(v)})
<1>1. /\ \A c \in 0..n : Chain(c)' = Chain(c)
      /\ Chain(n + 1)' = {n + 1} \cup Chain(r.previous)
  BY ChainsGrow
<1>2. /\ catalogs'[n + 1] = r /\ \A c \in 1..n : catalogs'[c] = catalogs[c]
  BY DEF SignedOnesOK
<1>3. \A v : Kept(v)' = Kept(v)
  BY DEF Kept
<1>4. /\ \A c \in 1..n : Live(c)' = Live(c)
      /\ Live(n + 1)' = {v \in r.files : Kept(v)}
  BY <1>2, <1>3 DEF Live, Files
<1>5. /\ \A c \in 1..n : ChainObjects(c)' = ChainObjects(c)
      /\ ChainObjects(n + 1)'
           = {CatalogObject(n + 1)} \cup ChainObjects(r.previous)
  <2>1. \A c \in 1..n : c \in 0..n
    OBVIOUS
  <2> QED
    BY <1>1, <2>1 DEF ChainObjects, CatalogObject
<1>6. \A files : FileObjects(files)' = FileObjects(files)
  BY DEF FileObjects, Manifest, Chunk
<1> QED
  BY <1>4, <1>5, <1>6 DEF Needs, FileObjects, Manifest, Chunk

LEMMA Signing ==
  ASSUME IInv, NEW n \in Nat, n = Len(catalogs), n < MaxCatalogs,
         NEW r \in SignedCatalog, r.previous \in 0..n, catalogs' = Append(catalogs, r),
         Untouched, made' = made \/ (state = 0 /\ made' = connected)
  PROVE  /\ SignedOnesOK' /\ HistoriesOK' /\ StoredOK' /\ Opens'
         /\ Storable \subseteq Storable' /\ n + 1 \in Signed'
         /\ CatalogObject(n + 1) \in Storable'
<1>1. SignedOnesOK /\ HistoriesOK /\ StoredOK /\ Opens
  BY DEF IInv
<1>2. /\ Len(catalogs') = n + 1 /\ catalogs'[n + 1] = r
      /\ \A c \in 1..n : catalogs'[c] = catalogs[c]
  BY <1>1 DEF SignedOnesOK
<1>3. HistoriesOK'
  BY <1>1, ChainsGrow
<1>4. SignedOnesOK'
  <2>1. catalogs' \in Seq(SignedCatalog)
    BY <1>1 DEF SignedOnesOK
  <2>2. Len(catalogs') <= MaxCatalogs
    BY <1>2, BoundAssumption
  <2>3. \A c \in Signed' : catalogs'[c].previous \in 0..c - 1
    <3>1. \A c \in 1..n : catalogs[c].previous \in 0..c - 1
      BY <1>1 DEF SignedOnesOK, Signed
    <3>2. \A c \in 1..n + 1 : c = n + 1 \/ c \in 1..n
      OBVIOUS
    <3> QED
      BY <1>2, <3>1, <3>2 DEF Signed
  <2>4. SignedCatalog' = SignedCatalog
    BY DEF SignedCatalog, SignedEntry
  <2> QED
    BY <2>1, <2>2, <2>3, <2>4 DEF SignedOnesOK
<1>5. Signed' = 1..n + 1 /\ Signed = 1..n /\ Signed \subseteq Signed'
  BY <1>2 DEF Signed
<1>6. Object' = Object
  BY DEF Object
<1>7. Storable \subseteq Storable'
  BY <1>5, <1>6 DEF Storable
<1>8. CatalogObject(n + 1) \in Storable'
  <2>1. n + 1 \in 1..MaxCatalogs + MaxFiles
    BY BoundAssumption
  <2> QED
    BY <1>5, <1>6, <2>1 DEF Storable, Object, CatalogObject
<1>9. StoredOK'
  <2>1. disk' \cup net' \cup old' \subseteq Storable'
    BY <1>1, <1>7 DEF StoredOK, Untouched
  <2>2. state' \in 0..Len(catalogs')
    BY <1>1, <1>2 DEF StoredOK, Untouched
  <2>3. /\ kit' \cup copies' \subseteq Signed'
        /\ kit' = {} \/ \E c \in Signed' : kit' = {c}
    BY <1>1, <1>5 DEF StoredOK, Untouched
  <2>4. /\ {connected', made', secrets', replaced'} \subseteq BOOLEAN
        /\ day' \in 1..MaxDay /\ stops' \in 0..MaxStops
        /\ made' => connected'
    BY <1>1 DEF StoredOK, Untouched
  <2> QED
    BY <2>1, <2>2, <2>3, <2>4 DEF StoredOK
<1>10. Opens'
  <2>1. state # 0 => state \in 1..n /\ made' = made
    BY <1>1 DEF StoredOK
  <2>2. \A c \in 1..n : Needs(c)' = Needs(c)
    BY <1>1, GrownNeeds DEF Untouched
  <2>3. Readable' = Readable /\ state' = state /\ secrets' = secrets
        /\ connected' = connected
    BY DEF Readable, Untouched
  <2> QED
    BY <1>1, <2>1, <2>2, <2>3 DEF Opens
<1> QED
  BY <1>3, <1>4, <1>5, <1>7, <1>8, <1>9, <1>10


(***************************************************************************)
(* Publishing what comes after the saved catalog.                          *)
(***************************************************************************)
LEMMA EntriesOf ==
  ASSUME IInv
  PROVE  \A c \in 1..Len(catalogs) : /\ Files(c) \subseteq SignedEntry
                                     /\ catalogs[c].version \in Nat
<1>1. catalogs \in Seq(SignedCatalog)
  BY DEF IInv, SignedOnesOK
<1>2. \A c \in 1..Len(catalogs) : catalogs[c] \in SignedCatalog
  BY <1>1
<1>3. \A r \in SignedCatalog : r.files \subseteq SignedEntry /\ r.version \in Nat
  BY DEF SignedCatalog
<1> QED
  BY <1>2, <1>3 DEF Files

LEMMA Publishing ==
  ASSUME IInv, CanSign, CanOpen,
         NEW files \in SUBSET SignedEntry,
         catalogs' = Append(catalogs, Successor(files)),
         Untouched, made' = made,
         NEW n \in Nat, n = Len(catalogs)
  PROVE  /\ SignedOnesOK' /\ HistoriesOK' /\ StoredOK' /\ Opens'
         /\ Storable \subseteq Storable' /\ n + 1 \in Signed'
         /\ CatalogObject(n + 1) \in Storable'
         /\ state \in 1..n /\ secrets' = TRUE
         /\ Needs(n + 1)' = {CatalogObject(n + 1)}
              \cup ChainObjects(state)
              \cup FileObjects({v \in files : Kept(v)})
         /\ connected' = made' => Needs(state) \subseteq Readable'
<1>1. SignedOnesOK /\ HistoriesOK /\ StoredOK /\ Opens
  BY DEF IInv
<1>2. state \in 1..n /\ n < MaxCatalogs /\ secrets = TRUE
  BY <1>1 DEF CanSign, CanOpen, StoredOK
<1>3. PICK r : r = Successor(files)
  OBVIOUS
<1>4. catalogs[state].version + 1 \in Nat
  BY <1>2, EntriesOf
<1>5. /\ r \in SignedCatalog /\ r.previous = state /\ r.files = files
      /\ catalogs' = Append(catalogs, r)
  BY <1>2, <1>3, <1>4 DEF Successor, Version, SignedCatalog
<1>6. r.previous \in 0..n
  BY <1>2, <1>5
<1>7. /\ SignedOnesOK' /\ HistoriesOK' /\ StoredOK' /\ Opens'
      /\ Storable \subseteq Storable' /\ n + 1 \in Signed'
      /\ CatalogObject(n + 1) \in Storable'
  BY <1>2, <1>5, <1>6, Signing
<1>8. Needs(n + 1)' = {CatalogObject(n + 1)}
        \cup ChainObjects(r.previous)
        \cup FileObjects({v \in r.files : Kept(v)})
  BY <1>1, <1>5, <1>6, GrownNeeds DEF Untouched
<1>9. secrets' = TRUE /\ connected' = connected /\ Readable' = Readable
  BY <1>2 DEF Untouched, Readable
<1>10. connected' = made' => Needs(state) \subseteq Readable'
  BY <1>1, <1>2, <1>9 DEF Opens
<1> QED
  BY <1>2, <1>5, <1>7, <1>8, <1>9, <1>10

LEMMA ObjectsOfFiles ==
  ASSUME NEW f \in 1..MaxFiles
  PROVE  /\ Manifest(f) \in Storable' /\ Chunk(f) \in Storable'
         /\ Manifest(f) \in Storable /\ Chunk(f) \in Storable
<1>1. f \in 1..MaxCatalogs + MaxFiles
  BY BoundAssumption
<1> QED
  BY <1>1 DEF Storable, Object, Manifest, Chunk

LEMMA NewFileIsOne ==
  ASSUME IInv, NewFile <= MaxFiles
  PROVE  NewFile \in 1..MaxFiles
<1> DEFINE used == UNION {{v.file : v \in Files(c)} : c \in DOMAIN catalogs}
<1>1. NewFile = Cardinality(used) + 1
  BY DEF NewFile, Cardinality
<1>2. catalogs \in Seq(SignedCatalog) /\ DOMAIN catalogs = 1..Len(catalogs)
  BY DEF IInv, SignedOnesOK
<1>3. used \subseteq 1..MaxFiles
  BY <1>2, EntriesOf DEF SignedEntry
<1>4. MaxFiles \in Nat
  BY BoundAssumption
<1>5. IsFiniteSet(1..MaxFiles)
  BY <1>4, FS_Interval
<1>6. Cardinality(used) \in Nat
  BY <1>3, <1>5, FS_Subset, FS_CardinalityType
<1> HIDE DEF used
<1> QED
  BY <1>1, <1>4, <1>6


LEMMA AddKeeps ==
  ASSUME IInv, Add
  PROVE  IInv'
<1> DEFINE f == NewFile
           new == [file |-> f, until |-> 0]
           files == Files(state) \cup {new}
<1>1. /\ CanSign /\ CanOpen /\ f \in 1..MaxFiles
      /\ catalogs' = Append(catalogs, Successor(files))
      /\ job' = <<Write("put", Chunk(f)),
                  Write("put", Manifest(f))>> \o Publish
      /\ Untouched /\ made' = made
  BY NewFileIsOne DEF Add, Run, Untouched
<1> HIDE DEF f
<1>2. PICK n \in Nat : n = Len(catalogs)
  BY DEF IInv, SignedOnesOK
<1>3. state \in 1..n
  BY <1>1, <1>2 DEF IInv, StoredOK, CanOpen
<1>4. files \in SUBSET SignedEntry
  <2>1. new \in SignedEntry
    BY <1>1 DEF SignedEntry
  <2> QED
    BY <1>2, <1>3, <2>1, EntriesOf
<1>5. /\ SignedOnesOK' /\ HistoriesOK' /\ StoredOK' /\ Opens'
      /\ n + 1 \in Signed'
      /\ CatalogObject(n + 1) \in Storable'
      /\ secrets' = TRUE
      /\ Needs(n + 1)' = {CatalogObject(n + 1)}
           \cup ChainObjects(state)
           \cup FileObjects({v \in files : Kept(v)})
      /\ connected' = made' => Needs(state) \subseteq Readable'
  BY <1>1, <1>2, <1>4, Publishing
<1>6. Publish = <<Write("put", CatalogObject(n + 1)),
                          Write("save", n + 1), Write("kit", n + 1)>>
  BY <1>2 DEF Publish, Upcoming
<1>7. /\ Write("put", Chunk(f)) \in Writes'
      /\ Write("put", Manifest(f)) \in Writes'
      /\ Write("put", CatalogObject(n + 1)) \in Writes'
      /\ Write("save", n + 1) \in Writes'
      /\ Write("kit", n + 1) \in Writes'
  BY <1>1, <1>5, ObjectsOfFiles DEF Writes, Write
<1>8. /\ Len(job') = 5 /\ job' \in Seq(Writes')
      /\ job'[1] = Write("put", Chunk(f))
      /\ job'[2] = Write("put", Manifest(f))
      /\ job'[3] = Write("put", CatalogObject(n + 1))
      /\ job'[4] = Write("save", n + 1)
      /\ job'[5] = Write("kit", n + 1)
  <2>1. PICK a, b, c, d, e :
          /\ a = Write("put", Chunk(f))
          /\ b = Write("put", Manifest(f))
          /\ c = Write("put", CatalogObject(n + 1))
          /\ d = Write("save", n + 1)
          /\ e = Write("kit", n + 1)
    OBVIOUS
  <2>2. job' = <<a, b>> \o <<c, d, e>>
    BY <1>1, <1>6, <2>1
  <2>3. \A x \in {a, b, c, d, e} : x \in Writes'
    BY <1>7, <2>1
  <2> QED
    BY <2>1, <2>2, <2>3
<1>9. \A i \in 1..5 : i = 1 \/ i = 2 \/ i = 3 \/ i = 4 \/ i = 5
  OBVIOUS
<1>10. /\ job'[4].do = "save" /\ job'[4].what = n + 1
       /\ \A i \in 1..5 : (job'[i].do = "save" <=> i = 4) /\ job'[i].do # "sweep"
  BY <1>8, <1>9 DEF Write
<1>11. /\ Chunk(f) \in Brings(job'[1])
       /\ Manifest(f) \in Brings(job'[2])
       /\ CatalogObject(n + 1) \in Brings(job'[3])
  BY <1>8 DEF Brings, Write
<1>12. ASSUME connected' = made', NEW o \in Needs(n + 1)'
       PROVE  o \in Readable' \/ \E j \in 1..4 - 1 : o \in Brings(job'[j])
  <2>1. \/ o = CatalogObject(n + 1) \/ o = Manifest(f)
        \/ o = Chunk(f) \/ o \in Needs(state)
    BY <1>5, <1>12 DEF Needs, FileObjects, Live
  <2> QED
    BY <1>5, <1>11, <1>12, <2>1
<1>13. SavesOK' /\ SweepsOK'
  <2>1. 4 \in 1..Len(job')
    BY <1>8
  <2>2. n + 1 = job'[4].what
    BY <1>10
  <2> QED
    BY <1>5, <1>8, <1>10, <1>12, <2>1, <2>2, NewJob
<1> QED
  BY <1>5, <1>8, <1>13 DEF IInv


LEMMA NeedsAreObjects ==
  ASSUME IInv, NEW n \in Nat, n = Len(catalogs), NEW c \in 1..n
  PROVE  Needs(c) \subseteq Object
<1>1. /\ Chain(c) \subseteq 1..n /\ n <= MaxCatalogs
  BY DEF IInv, HistoriesOK, SignedOnesOK, Signed
<1>2. \A v \in Files(c) : v.file \in 1..MaxFiles
  BY EntriesOf DEF SignedEntry
<1>3. \A k \in 1..n : CatalogObject(k) \in Object
  BY <1>1, BoundAssumption
  DEF Object, CatalogObject
<1>4. \A f \in 1..MaxFiles :
        Manifest(f) \in Object /\ Chunk(f) \in Object
  BY ObjectsOfFiles DEF Storable
<1>5. ChainObjects(c) \subseteq Object
  BY <1>1, <1>3 DEF ChainObjects
<1>6. FileObjects(Live(c)) \subseteq Object
  BY <1>2, <1>4 DEF FileObjects, Live
<1> QED
  BY <1>5, <1>6 DEF Needs

\* Nothing but the job changes, and what the user may copy or wait for.
LEMMA RestKeeps ==
  ASSUME SignedOnesOK, HistoriesOK, StoredOK, Opens, catalogs' = catalogs, Untouched,
         made' = made \/ (state = 0 /\ made' = connected)
  PROVE  /\ SignedOnesOK' /\ HistoriesOK' /\ StoredOK' /\ Opens'
         /\ Storable' = Storable /\ Writes' = Writes
         /\ \A c : Needs(c)' = Needs(c)
<1>1. /\ day' = day /\ disk' = disk /\ net' = net /\ old' = old
      /\ connected' = connected /\ secrets' = secrets /\ state' = state
      /\ kit' = kit /\ copies' = copies /\ stops' = stops /\ replaced' = replaced
  BY DEF Untouched
<1>2. HistoriesOK' /\ \A c : Needs(c)' = Needs(c)
  BY <1>1, SameHistories, SameNeeds
<1>3. SignedOnesOK'
  BY DEF SignedOnesOK, SignedCatalog, SignedEntry, Signed
<1>4. Storable' = Storable /\ Writes' = Writes /\ Signed' = Signed
  BY SameWrites
<1>5. StoredOK'
  BY <1>1, <1>4 DEF StoredOK
<1>6. Opens'
  BY <1>1, <1>2 DEF Opens, Readable
<1> QED
  BY <1>2, <1>3, <1>4, <1>5, <1>6


LEMMA PublishIs ==
  ASSUME NEW n \in Nat, n = Len(catalogs), n + 1 \in Signed',
         CatalogObject(n + 1) \in Storable'
  PROVE  \E c, d, e :
           /\ Publish = <<c, d, e>>
           /\ {c, d, e} \subseteq Writes'
           /\ c.do = "put" /\ Brings(c) = {CatalogObject(n + 1)}
           /\ d.do = "save" /\ d.what = n + 1
           /\ e.do = "kit" /\ e.what = n + 1
<1>1. PICK c, d, e : /\ c = Write("put", CatalogObject(n + 1))
                     /\ d = Write("save", n + 1)
                     /\ e = Write("kit", n + 1)
  OBVIOUS
<1>2. Publish = <<c, d, e>>
  BY <1>1 DEF Publish, Upcoming
<1>3. {c, d, e} \subseteq Writes'
  BY <1>1 DEF Writes, Write
<1>4. /\ c.do = "put" /\ Brings(c) = {CatalogObject(n + 1)}
      /\ d.do = "save" /\ d.what = n + 1
      /\ e.do = "kit" /\ e.what = n + 1
  BY <1>1 DEF Write, Brings
<1> QED
  BY <1>2, <1>3, <1>4

LEMMA DeleteKeeps ==
  ASSUME IInv, Delete
  PROVE  IInv'
<1>1. PICK v \in Files(state) :
        /\ v.until = 0
        /\ Run((Files(state) \ {v})
                         \cup {[v EXCEPT !.until = day + Retention]},
                       Publish)
  BY DEF Delete
<1>2. PICK u : u = [v EXCEPT !.until = day + Retention]
  OBVIOUS
<1> DEFINE files == (Files(state) \ {v}) \cup {u}
<1>3. /\ CanSign /\ CanOpen
      /\ catalogs' = Append(catalogs, Successor(files))
      /\ job' = Publish
      /\ Untouched /\ made' = made
  BY <1>1, <1>2 DEF Delete, Run, Untouched
<1>4. PICK n \in Nat : n = Len(catalogs)
  BY DEF IInv, SignedOnesOK
<1>5. state \in 1..n
  BY <1>3, <1>4 DEF IInv, StoredOK, CanOpen
<1>6. v \in SignedEntry /\ Files(state) \subseteq SignedEntry
  BY <1>1, <1>4, <1>5, EntriesOf
<1>7. u \in SignedEntry /\ u.file = v.file
  <2>1. day + Retention \in Nat
    BY BoundAssumption DEF IInv, StoredOK
  <2> QED
    BY <1>2, <1>6, <2>1 DEF SignedEntry
<1>8. files \in SUBSET SignedEntry
  BY <1>6, <1>7
<1>9. /\ SignedOnesOK' /\ HistoriesOK' /\ StoredOK' /\ Opens'
      /\ n + 1 \in Signed'
      /\ CatalogObject(n + 1) \in Storable'
      /\ secrets' = TRUE
      /\ Needs(n + 1)' = {CatalogObject(n + 1)}
           \cup ChainObjects(state)
           \cup FileObjects({x \in files : Kept(x)})
      /\ connected' = made' => Needs(state) \subseteq Readable'
  BY <1>3, <1>4, <1>8, Publishing
<1>10. PICK c, d, e :
         /\ Publish = <<c, d, e>>
         /\ {c, d, e} \subseteq Writes'
         /\ c.do = "put" /\ Brings(c) = {CatalogObject(n + 1)}
         /\ d.do = "save" /\ d.what = n + 1
         /\ e.do = "kit" /\ e.what = n + 1
  BY <1>4, <1>9, PublishIs
<1>11. /\ Len(job') = 3 /\ job' \in Seq(Writes')
       /\ job'[1] = c /\ job'[2] = d /\ job'[3] = e
  BY <1>3, <1>10
<1>12. Needs(n + 1)' \subseteq {CatalogObject(n + 1)} \cup Needs(state)
  <2>1. \A x \in files : Kept(x) =>
          \E y \in Live(state) : y.file = x.file
    BY <1>1, <1>7 DEF Live, Kept
  <2>2. FileObjects({x \in files : Kept(x)})
          \subseteq FileObjects(Live(state))
    BY <2>1, Zenon DEF FileObjects, Manifest, Chunk
  <2> QED
    BY <1>9, <2>2 DEF Needs
<1>13. SavesOK' /\ SweepsOK'
  <2>1. 2 \in 1..Len(job') /\ n + 1 = job'[2].what /\ 1 \in 1..2 - 1
    BY <1>10, <1>11
  <2>2. \A i \in 1..3 : i = 1 \/ i = 2 \/ i = 3
    OBVIOUS
  <2>3. \A i \in 1..Len(job') : (job'[i].do = "save" <=> i = 2) /\ job'[i].do # "sweep"
    BY <1>10, <1>11, <2>2
  <2>4. connected' = made' =>
          \A o \in Needs(n + 1)' :
            o \in Readable' \/ \E j \in 1..2 - 1 : o \in Brings(job'[j])
    BY <1>9, <1>10, <1>11, <1>12, <2>1
  <2> QED
    BY <1>9, <2>1, <2>3, <2>4, NewJob
<1> QED
  BY <1>9, <1>11, <1>13 DEF IInv

LEMMA CollectExpiredKeeps ==
  ASSUME IInv, CollectExpired
  PROVE  IInv'
<1> DEFINE files == Live(state)
<1>1. PICK w : w = Write("sweep", {CatalogObject(Upcoming)}
                                             \cup Retained(state))
  OBVIOUS
<1>2. /\ CanSign /\ CanOpen
      /\ catalogs' = Append(catalogs, Successor(files))
      /\ job' = Append(Publish, w)
      /\ Untouched /\ made' = made
  BY <1>1 DEF CollectExpired, CanCollect, Run, Untouched
<1>3. PICK n \in Nat : n = Len(catalogs)
  BY DEF IInv, SignedOnesOK
<1>4. state \in 1..n
  BY <1>2, <1>3 DEF IInv, StoredOK, CanOpen
<1>5. files \in SUBSET SignedEntry
  BY <1>3, <1>4, EntriesOf DEF Live
<1>6. /\ SignedOnesOK' /\ HistoriesOK' /\ StoredOK' /\ Opens'
      /\ n + 1 \in Signed' /\ Storable \subseteq Storable'
      /\ CatalogObject(n + 1) \in Storable'
      /\ secrets' = TRUE
      /\ Needs(n + 1)' = {CatalogObject(n + 1)}
           \cup ChainObjects(state)
           \cup FileObjects({x \in files : Kept(x)})
      /\ connected' = made' => Needs(state) \subseteq Readable'
  BY <1>2, <1>3, <1>5, Publishing
<1>7. PICK c, d, e :
        /\ Publish = <<c, d, e>>
        /\ {c, d, e} \subseteq Writes'
        /\ c.do = "put" /\ Brings(c) = {CatalogObject(n + 1)}
        /\ d.do = "save" /\ d.what = n + 1
        /\ e.do = "kit" /\ e.what = n + 1
  BY <1>3, <1>6, PublishIs
<1>8. {x \in files : Kept(x)} = files
  BY DEF Live
<1>9. /\ w.do = "sweep" /\ w.what = {CatalogObject(n + 1)} \cup Needs(state)
      /\ Needs(n + 1)' = w.what
  BY <1>1, <1>3, <1>6, <1>8
  DEF Write, Upcoming, Retained, Needs
<1>10. w \in Writes'
  <2>1. CatalogObject(n + 1) \in Object /\ Object' = Object
    BY <1>6 DEF Storable, Object
  <2>2. Needs(state) \subseteq Object
    BY <1>3, <1>4, NeedsAreObjects
  <2>3. w.what \in SUBSET Object
    BY <1>9, <2>1, <2>2
  <2>4. w = Write("sweep", w.what)
    BY <1>1 DEF Write
  <2> QED
    BY <2>1, <2>3, <2>4 DEF Writes, Write
<1>11. /\ Len(job') = 4 /\ job' \in Seq(Writes')
       /\ job'[1] = c /\ job'[2] = d /\ job'[3] = e /\ job'[4] = w
  <2>1. job' = Append(<<c, d, e>>, w)
    BY <1>2, <1>7
  <2>2. \A x \in {c, d, e, w} : x \in Writes'
    BY <1>7, <1>10
  <2> QED
    BY <2>1, <2>2
<1>12. SavesOK' /\ SweepsOK'
  <2>1. 2 \in 1..Len(job') /\ n + 1 = job'[2].what /\ 1 \in 1..2 - 1
    BY <1>7, <1>11
  <2>2. \A i \in 1..4 : i = 1 \/ i = 2 \/ i = 3 \/ i = 4
    OBVIOUS
  <2>3. \A i \in 1..Len(job') : /\ job'[i].do = "save" <=> i = 2
                                /\ job'[i].do = "sweep" => i = 4
    BY <1>7, <1>9, <1>11, <2>2
  <2>4. connected' = made' =>
          \A o \in Needs(n + 1)' :
            o \in Readable' \/ \E j \in 1..2 - 1 : o \in Brings(job'[j])
    BY <1>6, <1>7, <1>9, <1>11, <2>1
  <2>5. \A i \in 1..Len(job') :
          job'[i].do = "sweep" => i = Len(job') /\ Needs(n + 1)' \subseteq job'[i].what
    BY <1>9, <1>11, <2>3
  <2> QED
    BY <1>6, <2>1, <2>3, <2>4, <2>5, NewJob
<1> QED
  BY <1>6, <1>11, <1>12 DEF IInv

LEMMA CollectOrphansKeeps ==
  ASSUME IInv, CollectOrphans
  PROVE  IInv'
<1>1. PICK w : w = Write("sweep", Retained(state))
  OBVIOUS
<1>2. /\ job' = <<w>> /\ catalogs' = catalogs /\ Untouched /\ made' = made
  BY <1>1 DEF CollectOrphans, Untouched
<1>3. SignedOnesOK /\ HistoriesOK /\ StoredOK /\ Opens
  BY DEF IInv
<1>4. PICK n \in Nat : n = Len(catalogs)
  BY DEF IInv, SignedOnesOK
<1>5. state \in 1..n
  BY <1>4 DEF IInv, StoredOK, CanOpen, CanCollect,
              CollectOrphans
<1>6. w.do = "sweep" /\ w.what = Needs(state)
  BY <1>1 DEF Write, Retained, Needs
<1>7. /\ SignedOnesOK' /\ HistoriesOK' /\ StoredOK' /\ Opens'
      /\ Writes' = Writes /\ \A c : Needs(c)' = Needs(c)
  BY <1>2, <1>3, RestKeeps DEF Untouched
<1>8. w \in Writes'
  <2>1. w.what \in SUBSET Object /\ w = Write("sweep", w.what)
    BY <1>1, <1>4, <1>5, <1>6, NeedsAreObjects DEF Write
  <2> QED
    BY <1>7, <2>1, AWrite
<1>9. Len(job') = 1 /\ job'[1] = w /\ job' \in Seq(Writes') /\ \A i \in 1..1 : i = 1
  BY <1>2, <1>8
<1>10. SavesOK'
  BY <1>6, <1>9 DEF SavesOK
<1>11. SweepsOK'
  <2>1. state' = state
    BY <1>2 DEF Untouched
  <2> QED
    BY <1>6, <1>7, <1>9, <2>1 DEF SweepsOK
<1> QED
  BY <1>7, <1>9, <1>10, <1>11 DEF IInv


LEMMA WantedIsStorable ==
  ASSUME IInv, NEW n \in Nat, n = Len(catalogs), NEW c \in 1..n
  PROVE  Wanted(c) \subseteq Storable /\ Needs(c) \subseteq Wanted(c)
<1>1. Chain(c) \subseteq 1..n /\ n <= MaxCatalogs
  BY DEF IInv, HistoriesOK, SignedOnesOK, Signed
<1>2. \A v \in Files(c) : v.file \in 1..MaxFiles
  BY EntriesOf DEF SignedEntry
<1>3. \A k \in 1..n : CatalogObject(k) \in Storable
  BY <1>1, BoundAssumption
  DEF Storable, Object, CatalogObject, Signed
<1>4. ChainObjects(c) \subseteq Storable
  BY <1>1, <1>3 DEF ChainObjects
<1>5. FileObjects(Files(c)) \subseteq Storable
  BY <1>2, ObjectsOfFiles DEF FileObjects
<1>6. FileObjects(Live(c)) \subseteq FileObjects(Files(c))
  BY DEF FileObjects, Live
<1> QED
  BY <1>4, <1>5, <1>6 DEF Needs, Wanted


LEMMA CreateKeeps ==
  ASSUME IInv, Create
  PROVE  IInv'
<1>1. PICK r : r = [version |-> 1, previous |-> 0, files |-> {}]
  OBVIOUS
<1>2. /\ catalogs = <<>> /\ catalogs' = <<r>> /\ state = 0 /\ made' = connected
      /\ job' = <<Write("secrets", 0)>> \o Publish
      /\ Len(catalogs) < MaxCatalogs /\ Untouched
  BY <1>1 DEF Create, CanSign, Fresh, Untouched
<1>3. Len(catalogs) = 0 /\ catalogs' = Append(catalogs, r)
  BY <1>2
<1>4. r \in SignedCatalog /\ r.previous = 0 /\ r.files = {}
  BY <1>1 DEF SignedCatalog
<1>5. PICK n \in Nat : n = 0
  OBVIOUS
<1>6. n = Len(catalogs) /\ n < MaxCatalogs /\ r.previous \in 0..n
  BY <1>2, <1>3, <1>4, <1>5
<1>7. /\ SignedOnesOK' /\ HistoriesOK' /\ StoredOK' /\ Opens'
      /\ n + 1 \in Signed'
      /\ CatalogObject(n + 1) \in Storable'
  BY <1>2, <1>3, <1>4, <1>6, Signing
<1>8. Needs(n + 1)' = {CatalogObject(n + 1)}
        \cup ChainObjects(r.previous)
        \cup FileObjects({v \in r.files : Kept(v)})
  BY <1>2, <1>3, <1>6, GrownNeeds DEF Untouched, IInv
<1>9. Needs(n + 1)' = {CatalogObject(n + 1)}
  <2>1. ChainObjects(0) = {}
    BY ChainValues DEF ChainObjects, IInv
  <2> QED
    BY <1>4, <1>8, <2>1 DEF FileObjects
<1>10. PICK c, d, e :
         /\ Publish = <<c, d, e>>
         /\ {c, d, e} \subseteq Writes'
         /\ c.do = "put" /\ Brings(c) = {CatalogObject(n + 1)}
         /\ d.do = "save" /\ d.what = n + 1
         /\ e.do = "kit" /\ e.what = n + 1
  BY <1>6, <1>7, PublishIs
<1>11. PICK a : a = Write("secrets", 0)
  OBVIOUS
<1>12. a \in Writes' /\ a.do = "secrets"
  BY <1>11 DEF Writes, Write
<1>13. /\ Len(job') = 4 /\ job' \in Seq(Writes')
       /\ job'[1] = a /\ job'[2] = c /\ job'[3] = d /\ job'[4] = e
  <2>1. job' = <<a>> \o <<c, d, e>>
    BY <1>2, <1>10, <1>11
  <2>2. \A x \in {a, c, d, e} : x \in Writes'
    BY <1>10, <1>12
  <2> QED
    BY <2>1, <2>2
<1>14. SavesOK' /\ SweepsOK'
  <2>1. 3 \in 1..Len(job') /\ n + 1 = job'[3].what /\ 1 \in 1..3 - 1 /\ 2 \in 1..3 - 1
    BY <1>10, <1>13
  <2>2. \A i \in 1..4 : i = 1 \/ i = 2 \/ i = 3 \/ i = 4
    OBVIOUS
  <2>3. \A i \in 1..Len(job') : (job'[i].do = "save" <=> i = 3) /\ job'[i].do # "sweep"
    BY <1>10, <1>12, <1>13, <2>2
  <2>4. \A o \in Needs(n + 1)' : \E j \in 1..3 - 1 : o \in Brings(job'[j])
    BY <1>9, <1>10, <1>13, <2>1
  <2>5. \E j \in 1..3 - 1 : job'[j].do = "secrets"
    BY <1>12, <1>13, <2>1
  <2> QED
    BY <2>1, <2>3, <2>4, <2>5, NewJob
<1> QED
  BY <1>7, <1>13, <1>14 DEF IInv

LEMMA ImportKeeps ==
  ASSUME IInv, NEW checkpoint \in copies, NEW sources \in Sources,
         NEW c \in Discovered(checkpoint, sources),
         Import(checkpoint, sources, c)
  PROVE  IInv'
<1>1. PICK w, a, b, d, e :
        /\ w = Write("restore", [objects |-> Wanted(c), sources |-> sources])
        /\ a = Write("secrets", 0) /\ b = Write("kit", checkpoint)
        /\ d = Write("save", c) /\ e = Write("kit", c)
  OBVIOUS
<1>2. /\ job' = <<w, a, b, d, e>> /\ catalogs' = catalogs /\ Untouched
      /\ state = 0 /\ made' = connected
  BY <1>1 DEF Import, Fresh, Untouched
<1>3. SignedOnesOK /\ HistoriesOK /\ StoredOK /\ Opens
  BY DEF IInv
<1>4. PICK n \in Nat : n = Len(catalogs)
  BY DEF IInv, SignedOnesOK
<1>5. c \in 1..n /\ c \in Signed /\ checkpoint \in Signed
  <2>1. DOMAIN catalogs = 1..n
    BY <1>3, <1>4 DEF SignedOnesOK
  <2> QED
    BY <1>3, <1>4, <2>1 DEF Discovered, Stored, StoredOK, Signed
<1>6. /\ SignedOnesOK' /\ HistoriesOK' /\ StoredOK' /\ Opens'
      /\ Writes' = Writes /\ \A x : Needs(x)' = Needs(x)
  BY <1>2, <1>3, RestKeeps
<1>7. sources \subseteq Storable
  BY <1>3 DEF Sources, StoredOK
<1>8. Wanted(c) \subseteq Storable /\ Needs(c) \subseteq Wanted(c)
  BY <1>4, <1>5, WantedIsStorable
<1>9. {w, a, b, d, e} \subseteq Writes'
  BY <1>1, <1>5, <1>6, <1>7, <1>8, ARestore, AWrite
<1>10. /\ w.do = "restore" /\ Brings(w) = Wanted(c)
       /\ a.do = "secrets" /\ b.do = "kit" /\ d.do = "save" /\ d.what = c /\ e.do = "kit"
  BY <1>1 DEF Write, Brings
<1>11. /\ Len(job') = 5 /\ job' \in Seq(Writes')
       /\ job'[1] = w /\ job'[2] = a /\ job'[3] = b /\ job'[4] = d /\ job'[5] = e
  <2>1. \A x \in {w, a, b, d, e} : x \in Writes'
    BY <1>9
  <2> QED
    BY <1>2, <2>1
<1>12. SavesOK' /\ SweepsOK'
  <2>1. 4 \in 1..Len(job') /\ c = job'[4].what /\ 1 \in 1..4 - 1 /\ 2 \in 1..4 - 1
    BY <1>10, <1>11
  <2>2. \A i \in 1..5 : i = 1 \/ i = 2 \/ i = 3 \/ i = 4 \/ i = 5
    OBVIOUS
  <2>3. \A i \in 1..Len(job') : (job'[i].do = "save" <=> i = 4) /\ job'[i].do # "sweep"
    BY <1>10, <1>11, <2>2
  <2>4. \A o \in Needs(c)' : \E j \in 1..4 - 1 : o \in Brings(job'[j])
    BY <1>6, <1>8, <1>10, <1>11, <2>1
  <2>5. \E j \in 1..4 - 1 : job'[j].do = "secrets"
    BY <1>10, <1>11, <2>1
  <2> QED
    BY <2>1, <2>3, <2>4, <2>5, NewJob
<1> QED
  BY <1>6, <1>11, <1>12 DEF IInv

-----------------------------------------------------------------------------
(***************************************************************************)
(* What happens between commands, or ends one.                             *)
(***************************************************************************)
LEMMA NothingToWrite ==
  ASSUME job' = <<>>
  PROVE  job' \in Seq(Writes') /\ SavesOK' /\ SweepsOK'
BY DEF SavesOK, SweepsOK

LEMMA OthersKeep ==
  ASSUME IInv,
         \/ CopyKit \/ Connect \/ Stop
         \/ Replace \/ Tomorrow
  PROVE  IInv'
<1>1. SignedOnesOK /\ HistoriesOK /\ StoredOK /\ Opens
  BY DEF IInv
<1>2. catalogs' = catalogs /\ job' = <<>>
  BY DEF CopyKit, Connect, Stop, Replace,
         Tomorrow, Idle
<1>3. job' \in Seq(Writes') /\ SavesOK' /\ SweepsOK'
  BY <1>2, NothingToWrite
<1>4. /\ HistoriesOK' /\ \A c : Chain(c)' = Chain(c)
      /\ Storable' = Storable /\ Writes' = Writes /\ Signed' = Signed
  BY <1>1, <1>2, SameHistories, SameWrites
<1>5. SignedOnesOK'
  BY <1>1, <1>2 DEF SignedOnesOK, SignedCatalog, SignedEntry, Signed
<1>6. CASE CopyKit
  <2>1. /\ UNCHANGED <<disk, net, old, connected, made, secrets, state, kit,
                       day, stops, replaced>>
        /\ copies' = copies \cup kit
    BY <1>6 DEF CopyKit
  <2>2. StoredOK'
    BY <1>1, <1>2, <1>4, <2>1 DEF StoredOK
  <2>3. \A c : Needs(c)' = Needs(c)
    BY <1>1, <1>2, <2>1, SameNeeds
  <2>4. Opens'
    BY <1>1, <2>1, <2>3 DEF Opens, Readable
  <2> QED
    BY <1>3, <1>4, <1>5, <2>2, <2>4 DEF IInv
<1>7. CASE Connect
  <2>1. /\ UNCHANGED <<disk, net, old, made, secrets, state, kit, copies,
                       day, stops, replaced>>
        /\ connected' = TRUE /\ ~connected
    BY <1>7 DEF Connect
  <2>2. StoredOK' /\ ~made'
    BY <1>1, <1>2, <1>4, <2>1 DEF StoredOK
  <2>3. Opens'
    BY <2>1, <2>2 DEF Opens
  <2> QED
    BY <1>3, <1>4, <1>5, <2>2, <2>3 DEF IInv
<1>8. CASE Stop
  <2>1. /\ UNCHANGED <<disk, net, old, connected, made, secrets, state, kit, copies,
                       day, replaced>>
        /\ stops' = stops + 1 /\ stops < MaxStops
    BY <1>8 DEF Stop
  <2>2. stops' \in 0..MaxStops
    BY <1>1, <2>1, BoundAssumption DEF StoredOK
  <2>3. StoredOK'
    BY <1>1, <1>2, <1>4, <2>1, <2>2 DEF StoredOK
  <2>4. \A c : Needs(c)' = Needs(c)
    BY <1>1, <1>2, <2>1, SameNeeds
  <2>5. Opens'
    BY <1>1, <2>1, <2>4 DEF Opens, Readable
  <2> QED
    BY <1>3, <1>4, <1>5, <2>3, <2>5 DEF IInv
<1>9. CASE Replace
  <2>1. /\ UNCHANGED <<net, day, stops>>
        /\ replaced' = TRUE /\ old' = disk /\ copies' = copies \cup kit
        /\ disk' = {} /\ connected' = FALSE /\ made' = FALSE
        /\ secrets' = FALSE /\ state' = 0 /\ kit' = {}
    BY <1>9 DEF Replace
  <2>2. Len(catalogs) \in Nat
    BY <1>1 DEF SignedOnesOK
  <2>3. StoredOK'
    <3>1. disk' \cup net' \cup old' \subseteq Storable'
      BY <1>1, <1>4, <2>1 DEF StoredOK
    <3>2. state' \in 0..Len(catalogs') /\ kit' = {} /\ kit' \cup copies' \subseteq Signed'
      BY <1>1, <1>2, <1>4, <2>1, <2>2 DEF StoredOK
    <3>3. /\ {connected', made', secrets', replaced'} \subseteq BOOLEAN
          /\ day' \in 1..MaxDay /\ stops' \in 0..MaxStops
          /\ made' => connected'
      BY <1>1, <2>1 DEF StoredOK
    <3> QED
      BY <3>1, <3>2, <3>3 DEF StoredOK
  <2>4. Opens'
    BY <2>1 DEF Opens
  <2> QED
    BY <1>3, <1>4, <1>5, <2>3, <2>4 DEF IInv
<1>10. CASE Tomorrow
  <2>1. /\ UNCHANGED <<disk, net, old, connected, made, secrets, state, kit, copies,
                       stops, replaced>>
        /\ day' = day + 1 /\ day < MaxDay
    BY <1>10 DEF Tomorrow
  <2>2. day' \in 1..MaxDay
    BY <1>1, <2>1, BoundAssumption DEF StoredOK
  <2>3. StoredOK'
    BY <1>1, <1>2, <1>4, <2>1, <2>2 DEF StoredOK
  <2>4. state # 0 => Needs(state)' \subseteq Needs(state)
    <3>1. SUFFICES ASSUME state # 0
                   PROVE  Needs(state)' \subseteq Needs(state)
      OBVIOUS
    <3>2. PICK n \in Nat : n = Len(catalogs)
      BY <1>1 DEF SignedOnesOK
    <3>3. state \in 1..n
      BY <1>1, <3>1, <3>2 DEF StoredOK
    <3>4. \A v \in Files(state) : v.until \in Nat
      BY <3>2, <3>3, EntriesOf DEF SignedEntry
    <3>5. Files(state)' = Files(state)
      BY <1>2, <2>1 DEF Files
    <3>6. day \in Nat
      BY <1>1 DEF StoredOK
    <3>7. Live(state)' \subseteq Live(state)
      <4>1. ASSUME NEW v \in Files(state), Kept(v)'
            PROVE  Kept(v)
        <5>1. v.until \in Nat /\ (v.until = 0 \/ v.until >= day + 1)
          BY <2>1, <3>4, <4>1 DEF Kept
        <5> QED
          BY <3>6, <5>1 DEF Kept
      <4>2. Live(state)' = {v \in Files(state)' : Kept(v)'}
        BY DEF Live
      <4> QED
        BY <3>5, <4>1, <4>2 DEF Live
    <3>8. ChainObjects(state)' = ChainObjects(state)
      BY <1>4, <2>1 DEF ChainObjects, CatalogObject
    <3> QED
      BY <3>7, <3>8 DEF Needs, FileObjects, Manifest, Chunk
  <2>5. Opens'
    BY <1>1, <2>1, <2>4 DEF Opens, Readable
  <2> QED
    BY <1>3, <1>4, <1>5, <2>3, <2>5 DEF IInv
<1> QED
  BY <1>6, <1>7, <1>8, <1>9, <1>10


LEMMA Initially ==
  ASSUME Init
  PROVE  IInv
<1>1. /\ catalogs = <<>> /\ job = <<>> /\ state = 0 /\ Len(catalogs) = 0
      /\ disk = {} /\ net = {} /\ old = {} /\ kit = {} /\ copies = {}
      /\ connected = FALSE /\ made = FALSE /\ secrets = FALSE /\ replaced = FALSE
      /\ day = 1 /\ stops = 0
  BY DEF Init
<1>2. Signed = {}
  BY <1>1 DEF Signed
<1>3. SignedOnesOK
  BY <1>1, <1>2, BoundAssumption DEF SignedOnesOK
<1>4. HistoriesOK
  <2>1. PICK f : f = [j \in 0..0 |-> {}]
    OBVIOUS
  <2>2. f = [j \in 0..Len(catalogs) |-> IF j = 0 THEN {} ELSE {j} \cup f[catalogs[j].previous]]
    BY <1>1, <2>1
  <2>3. IsHistory(catalogs, f)
    BY <2>2, Zenon DEF IsHistory
  <2>4. ASSUME NEW g, IsHistory(catalogs, g)
        PROVE  g = f
    <3>1. IsOn(g, 0) /\ g[0] = {}
      <4>1. PICK n \in Nat : n = 0 /\ n = Len(catalogs)
        BY <1>1
      <4>2. IsOn(g, n) /\ Along(catalogs, g, n)
        BY <2>4, <4>1, HistoryValues, Zenon
      <4> QED
        BY <4>1, <4>2, Zenon DEF Along
    <3>2. g = [j \in 0..0 |-> g[j]]
      BY <3>1 DEF IsOn
    <3>3. \A j \in 0..0 : g[j] = {}
      BY <3>1
    <3> QED
      BY <2>1, <3>2, <3>3, Zenon
  <2> QED
    BY <1>2, <2>3, <2>4 DEF HistoriesOK, TheHistory
<1>5. StoredOK
  <2>1. day \in 1..MaxDay /\ stops \in 0..MaxStops
    BY <1>1, BoundAssumption
  <2>2. disk \cup net \cup old = {} /\ kit \cup copies = {}
    BY <1>1
  <2>3. state \in 0..Len(catalogs)
    BY <1>1
  <2>4. {connected, made, secrets, replaced} \subseteq BOOLEAN
    BY <1>1
  <2> QED
    BY <1>1, <2>1, <2>2, <2>3, <2>4 DEF StoredOK
<1>6. job \in Seq(Writes) /\ SavesOK /\ SweepsOK
  BY <1>1 DEF SavesOK, SweepsOK
<1>7. Opens
  BY <1>1 DEF Opens
<1> QED
  BY <1>3, <1>4, <1>5, <1>6, <1>7 DEF IInv

LEMMA Resting ==
  ASSUME IInv, UNCHANGED vars
  PROVE  IInv'
<1>1. /\ Untouched /\ catalogs' = catalogs /\ job' = job /\ made' = made
  BY DEF vars, Untouched
<1>2. /\ SignedOnesOK /\ HistoriesOK /\ StoredOK /\ Opens /\ job \in Seq(Writes)
      /\ SavesOK /\ SweepsOK
  BY DEF IInv
<1>3. /\ SignedOnesOK' /\ HistoriesOK' /\ StoredOK' /\ Opens'
      /\ Writes' = Writes /\ \A c : Needs(c)' = Needs(c)
  BY <1>1, <1>2, RestKeeps
<1>4. \A x : Brings(x)' = Brings(x)
  BY DEF Brings
<1>5. /\ Readable' = Readable /\ secrets' = secrets /\ state' = state
      /\ connected' = connected
  BY <1>1 DEF Untouched, Readable
<1>6. SavesOK' /\ SweepsOK'
  BY <1>1, <1>2, <1>3, <1>4, <1>5 DEF SavesOK, SweepsOK
<1> QED
  BY <1>1, <1>2, <1>3, <1>6 DEF IInv

LEMMA Moves ==
  ASSUME IInv, Next
  PROVE  IInv'
<1>1. CASE Work
  <2>1. Fixed
    BY <1>1 DEF Work, Fixed
  <2> QED
    BY <1>1, <2>1, PutKeeps, RestoreKeeps, SaysKeeps, SweepKeeps DEF Work
<1>2. CASE \E checkpoint \in copies, sources \in Sources :
             \E c \in Discovered(checkpoint, sources) :
               Import(checkpoint, sources, c)
  BY <1>2, ImportKeeps
<1>3. CASE \/ Create \/ Add \/ Delete
           \/ CollectExpired \/ CollectOrphans
  BY <1>3, CreateKeeps, AddKeeps, DeleteKeeps, CollectExpiredKeeps, CollectOrphansKeeps
<1>4. CASE \/ CopyKit \/ Connect \/ Stop
           \/ Replace \/ Tomorrow
  BY <1>4, OthersKeep
<1> QED
  BY <1>1, <1>2, <1>3, <1>4 DEF Next

LEMMA Typed ==
  ASSUME IInv
  PROVE  TypeOK
<1>1. PICK n \in Nat : n = Len(catalogs)
  BY DEF IInv, SignedOnesOK
<1>2. Catalog = 1..n
  BY <1>1 DEF Catalog
<1>3. \A c \in 1..n : /\ catalogs[c].previous \in 0..c - 1
                      /\ \A v \in Files(c) : v.file \in 1..MaxFiles
  BY <1>1, EntriesOf DEF SignedEntry, IInv, SignedOnesOK, Signed
<1>4. /\ disk \cup net \cup old \subseteq Object
      /\ state \in 0..Len(catalogs) /\ kit \cup copies \subseteq 1..n
      /\ {connected, made, secrets, replaced} \subseteq BOOLEAN
      /\ day \in 1..MaxDay /\ stops \in 0..MaxStops
  BY <1>1 DEF IInv, StoredOK, Storable, Signed
<1>5. Cardinality(kit) <= 1
  <2>1. kit = {} \/ \E c \in Signed : kit = {c}
    BY DEF IInv, StoredOK
  <2>2. CASE kit = {}
    BY <2>2, FS_EmptySet
  <2>3. ASSUME NEW c, kit = {c}
        PROVE  Cardinality(kit) = 1
    BY <2>3, FS_Singleton
  <2> QED
    BY <2>1, <2>2, <2>3
<1> QED
  BY <1>2, <1>3, <1>4, <1>5 DEF TypeOK, Cardinality

LEMMA Reads ==
  ASSUME IInv
  PROVE  VaultReadable
<1>1. SUFFICES ASSUME state # 0, connected = made
               PROVE  /\ secrets
                      /\ ChainObjects(state) \subseteq Readable
                      /\ \A v \in Live(state) : Restores(v)
  BY DEF VaultReadable
<1>2. secrets = TRUE /\ Needs(state) \subseteq Readable
  BY <1>1 DEF IInv, Opens
<1>3. ChainObjects(state) \subseteq Readable
  BY <1>2 DEF Needs
<1>4. ASSUME NEW v \in Live(state)
      PROVE  Restores(v)
  <2>1. Manifest(v.file) \in Needs(state) /\ Chunk(v.file) \in Needs(state)
    BY <1>4 DEF Needs, FileObjects
  <2> QED
    BY <1>2, <2>1 DEF Restores
<1> QED
  BY <1>2, <1>3, <1>4


LEMMA WantedObjects ==
  ASSUME IInv
  PROVE  /\ Len(catalogs) \in Nat /\ Signed = 1..Len(catalogs)
         /\ \A c \in Signed : CatalogObject(c) \in Storable
<1>1. PICK n \in Nat : n = Len(catalogs) /\ n <= MaxCatalogs
  BY DEF IInv, SignedOnesOK
<1>2. \A k \in 1..n : CatalogObject(k) \in Storable
  BY <1>1, BoundAssumption
  DEF Storable, Object, CatalogObject, Signed
<1> QED
  BY <1>1, <1>2 DEF Signed


-----------------------------------------------------------------------------
(***************************************************************************)
(* Until a command is cut short, the catalogs form one line, of which only *)
(* the last may still have to be stored.                                   *)
(***************************************************************************)
Tip == Len(catalogs)
TipFiles == FileObjects(Files(Tip))
Puts(w) == IF w.do = "put" THEN {w.what} ELSE {}

\* What is stored, and what the first writes of the command store.
Has(i, o) == o \in Everything \/ \E j \in 1..i - 1 : o \in Puts(job[j])

OneLine ==
  \A c \in Signed : /\ catalogs[c].version = c /\ catalogs[c].previous = c - 1
                    /\ Chain(c) = 1..c

SavesTheTip ==
  /\ \A i \in 1..Len(job) : job[i].do = "save" => job[i].what = Tip
  /\ state # 0 /\ (\A i \in 1..Len(job) : job[i].do # "save") => state = Tip

CatalogsStored ==
  \A c \in Signed : IF c = Tip THEN Has(Len(job) + 1, CatalogObject(c))
                               ELSE CatalogObject(c) \in Everything

\* The files of the latest catalog that is stored.
FilesStored ==
  /\ Tip # 0 /\ CatalogObject(Tip) \in Everything => TipFiles \subseteq Everything
  /\ Tip > 1 /\ CatalogObject(Tip) \notin Everything =>
       FileObjects(Files(Tip - 1)) \subseteq Everything
  /\ \A i \in 1..Len(job) : job[i].do = "put" /\ job[i].what[1] = "catalog" =>
       \A o \in TipFiles : Has(i, o)

SweepsSpare ==
  \A i \in 1..Len(job) : job[i].do = "sweep" =>
    /\ \A c \in Signed : CatalogObject(c) \in job[i].what
    /\ TipFiles \subseteq job[i].what

KitsStored ==
  /\ \A c \in kit \cup copies : CatalogObject(c) \in Everything
  /\ \A i \in 1..Len(job) :
       job[i].do = "kit" => Has(i, CatalogObject(job[i].what))

AllCatalogs == {CatalogObject(c) : c \in Signed}
Without(objects) == \A c \in Signed : CatalogObject(c) \notin objects
AllOrNone(objects) == AllCatalogs \subseteq objects \/ Without(objects)

\* The first device writes to one storage only.
OneStorage ==
  ~replaced =>
    /\ old = {} /\ (state = 0 => copies = {})
    /\ IF made THEN Without(disk) ELSE Without(net)
    /\ job # <<>> => connected = made

\* The next one finds all the catalogs or none, and copies all.
Restoring == job # <<>> /\ job[1].do = "restore"
Copies ==
  /\ \A i \in 1..Len(job) : job[i].do = "restore" => i = 1
  /\ Restoring =>
       /\ \A i \in 1..Len(job) : job[i].do \notin {"put", "sweep"}
       /\ AllCatalogs \subseteq job[1].what.sources
       /\ AllCatalogs \subseteq Readable \cup job[1].what.objects
       /\ state = 0
  /\ state = 0 /\ (\E i \in 1..Len(job) : job[i].do = "put") => Tip = 1
  /\ replaced /\ state = 0 =>
       /\ AllOrNone(old)
       /\ AllOrNone(net) \/ (connected /\ Restoring)

Straight ==
  /\ OneLine /\ SavesTheTip /\ CatalogsStored /\ FilesStored /\ SweepsSpare
  /\ KitsStored /\ OneStorage /\ Copies

-----------------------------------------------------------------------------
LEMMA TipIs ==
  ASSUME IInv
  PROVE  /\ Tip \in Nat /\ Signed = 1..Tip /\ Len(job) \in Nat
         /\ \A c \in Signed : CatalogObject(c) \in Storable
BY WantedObjects DEF IInv, SignedOnesOK, Tip, Signed

LEMMA SameLine ==
  ASSUME HistoriesOK, catalogs' = catalogs
  PROVE  /\ Tip' = Tip /\ Signed' = Signed /\ AllCatalogs' = AllCatalogs
         /\ TipFiles' = TipFiles
         /\ \A c : /\ Files(c)' = Files(c)
                   /\ CatalogObject(c)' = CatalogObject(c)
                   /\ Chain(c)' = Chain(c)
         /\ \A files : FileObjects(files)' = FileObjects(files)
         /\ OneLine => OneLine'
<1>1. \A c : Chain(c)' = Chain(c)
  BY SameHistories
<1>2. Tip' = Tip /\ Signed' = Signed
  BY DEF Tip, Signed
<1>3. \A c : /\ Files(c)' = Files(c)
             /\ CatalogObject(c)' = CatalogObject(c)
  BY DEF Files, CatalogObject
<1>4. \A files : FileObjects(files)' = FileObjects(files)
  BY DEF FileObjects, Manifest, Chunk
<1>5. TipFiles' = TipFiles
  BY <1>2, <1>3 DEF TipFiles, FileObjects, Manifest, Chunk
<1>6. AllCatalogs' = AllCatalogs
  BY <1>2, <1>3 DEF AllCatalogs
<1>7. OneLine => OneLine'
  BY <1>1, <1>2 DEF OneLine
<1> QED
  BY <1>1, <1>2, <1>3, <1>4, <1>5, <1>6, <1>7

LEMMA Nearer ==
  ASSUME IInv, job # <<>>, job' = Tail(job),
         Everything \cup Puts(job[1]) \subseteq Everything',
         NEW i \in 1..Len(job), NEW o, Has(i + 1, o)
  PROVE  Has(i, o)'
<1>1. /\ Len(job) \in Nat \ {0} /\ \A j \in 1..Len(job) - 1 : job'[j] = job[j + 1]
  BY TheRest DEF IInv
<1>2. CASE o \in Everything
  BY <1>2 DEF Has
<1>3. ASSUME NEW j \in 1..(i + 1) - 1, o \in Puts(job[j])
      PROVE  Has(i, o)'
  <2>1. CASE j = 1
    BY <1>3, <2>1 DEF Has
  <2>2. CASE j # 1
    <3>1. j - 1 \in 1..i - 1 /\ job'[j - 1] = job[j]
      BY <1>1, <2>2
    <3>2. o \in Puts(job'[j - 1])
      BY <1>3, <3>1
    <3> QED
      BY <3>1, <3>2 DEF Has, Puts
  <2> QED
    BY <2>1, <2>2
<1> QED
  BY <1>2, <1>3 DEF Has

\* What a step of a command leaves true of the objects.
LEMMA StraightObjects ==
  ASSUME IInv, Straight, Fixed, job # <<>>, job' = Tail(job), NEW w, w = job[1],
         Everything \cup Puts(w) \subseteq Everything',
         CatalogObject(Tip) \in Everything' =>
           CatalogObject(Tip) \in Everything \cup Puts(w),
         state' = IF w.do = "save" THEN w.what ELSE state,
         kit' = IF w.do = "kit" THEN {w.what} ELSE kit
  PROVE  /\ OneLine' /\ SavesTheTip' /\ CatalogsStored' /\ FilesStored'
         /\ SweepsSpare' /\ KitsStored'
<1>0. PICK n : n = Len(job)
  OBVIOUS
<1>1. /\ n \in Nat \ {0} /\ w \in Writes /\ Len(job') = n - 1
      /\ \A i \in 1..n - 1 : job'[i] = job[i + 1] /\ i + 1 \in 1..n
  BY <1>0, TheRest DEF IInv
<1>2. catalogs' = catalogs /\ HistoriesOK /\ copies' = copies
  BY FixedKeeps DEF IInv
<1>3. /\ Tip' = Tip /\ Signed' = Signed /\ TipFiles' = TipFiles
      /\ \A c : /\ Files(c)' = Files(c)
                /\ CatalogObject(c)' = CatalogObject(c)
      /\ \A files : FileObjects(files)' = FileObjects(files)
      /\ OneLine => OneLine'
  BY <1>2, SameLine
<1>4. \A i \in 1..n : \A o : Has(i + 1, o) => Has(i, o)'
  BY <1>0, <1>2, Nearer
<1>5. SavesTheTip'
  <2>1. /\ \A i \in 1..n : job[i].do = "save" => job[i].what = Tip
        /\ state # 0 /\ (\A i \in 1..n : job[i].do # "save") => state = Tip
    BY <1>0 DEF Straight, SavesTheTip
  <2>2. \A i \in 1..n - 1 : job'[i].do = "save" => job'[i].what = Tip
    BY <1>1, <2>1
  <2>3. ASSUME state' # 0, \A i \in 1..n - 1 : job'[i].do # "save"
        PROVE  state' = Tip
    <3>1. 1 \in 1..n
      BY <1>1
    <3>2. CASE w.do = "save"
      BY <2>1, <3>1, <3>2
    <3>3. CASE w.do # "save"
      <4>1. \A i \in 1..n : i = 1 \/ (i - 1 \in 1..n - 1 /\ job'[i - 1] = job[i])
        BY <1>1
      <4>2. \A i \in 1..n : job[i].do # "save"
        BY <2>3, <3>3, <4>1
      <4> QED
        BY <2>1, <2>3, <3>3, <4>2
    <3> QED
      BY <3>2, <3>3
  <2> QED
    BY <1>1, <1>3, <2>2, <2>3 DEF SavesTheTip
<1>6. CatalogsStored'
  <2>1. n \in 1..n /\ (n - 1) + 1 = n
    BY <1>1
  <2>2. \A c \in Signed : IF c = Tip THEN Has(n + 1, CatalogObject(c))
                                     ELSE CatalogObject(c) \in Everything
    BY <1>0 DEF Straight, CatalogsStored
  <2>3. \A c \in Signed : IF c = Tip THEN Has(n, CatalogObject(c))'
                                     ELSE CatalogObject(c) \in Everything'
    <3>1. \A c \in Signed : Has(n + 1, CatalogObject(c)) =>
                              Has(n, CatalogObject(c))'
      <4>1. ASSUME NEW c \in Signed, Has(n + 1, CatalogObject(c))
            PROVE  Has(n, CatalogObject(c))'
        <5>1. PICK o : o = CatalogObject(c)
          OBVIOUS
        <5>2. Has(n + 1, o)
          BY <4>1, <5>1
        <5>3. Has(n, o)'
          BY <1>4, <2>1, <5>2
        <5> QED
          BY <1>3, <5>1, <5>3 DEF Has
      <4> QED
        BY <4>1
    <3> QED
      BY <1>3, <2>2, <3>1
  <2>4. Len(job') + 1 = n
    BY <1>1, <2>1
  <2> QED
    BY <1>3, <2>3, <2>4 DEF CatalogsStored, Has
<1>7. FilesStored'
  <2>1. /\ Tip # 0 /\ CatalogObject(Tip) \in Everything => TipFiles \subseteq Everything
        /\ Tip > 1 /\ CatalogObject(Tip) \notin Everything =>
             FileObjects(Files(Tip - 1)) \subseteq Everything
        /\ \A i \in 1..n : job[i].do = "put" /\ job[i].what[1] = "catalog" =>
             \A o \in TipFiles : Has(i, o)
    BY <1>0 DEF Straight, FilesStored
  <2>2. \A i \in 1..n - 1 : job'[i].do = "put" /\ job'[i].what[1] = "catalog" =>
             \A o \in TipFiles : Has(i, o)'
    <3>1. \A i \in 1..n - 1 : i \in 1..n
      BY <1>1
    <3> QED
      BY <1>1, <1>4, <2>1, <3>1
  <2>3. ASSUME Tip # 0, CatalogObject(Tip) \in Everything'
        PROVE  TipFiles \subseteq Everything'
    <3>1. CASE CatalogObject(Tip) \in Everything
      BY <2>1, <2>3, <3>1
    <3>2. CASE CatalogObject(Tip) \notin Everything
      <4>1. w.do = "put" /\ w.what = CatalogObject(Tip)
        BY <2>3, <3>2 DEF Puts
      <4>2. w.what[1] = "catalog" /\ 1 \in 1..n /\ \A j : j \notin 1..1 - 1
        BY <1>1, <4>1 DEF CatalogObject
      <4>3. \A o \in TipFiles : Has(1, o)
        BY <2>1, <4>1, <4>2
      <4> QED
        BY <4>2, <4>3 DEF Has
    <3> QED
      BY <3>1, <3>2
  <2> QED
    BY <1>1, <1>3, <2>1, <2>2, <2>3 DEF FilesStored
<1>8. SweepsSpare'
  BY <1>1, <1>3, <1>0 DEF Straight, SweepsSpare
<1>9. KitsStored'
  <2>1. /\ \A c \in kit \cup copies : CatalogObject(c) \in Everything
        /\ \A i \in 1..n :
             job[i].do = "kit" => Has(i, CatalogObject(job[i].what))
    BY <1>0 DEF Straight, KitsStored
  <2>2. \A c \in kit' \cup copies' : CatalogObject(c) \in Everything'
    <3>1. 1 \in 1..n /\ \A j : j \notin 1..1 - 1
      BY <1>1
    <3>2. w.do = "kit" => CatalogObject(w.what) \in Everything
      BY <2>1, <3>1 DEF Has
    <3> QED
      BY <1>2, <2>1, <3>2
  <2>3. ASSUME NEW i \in 1..n - 1, job'[i].do = "kit"
        PROVE  Has(i, CatalogObject(job[i].what))'
    <3>1. PICK o : o = CatalogObject(job[i + 1].what)
      OBVIOUS
    <3>2. Has(i + 1, o) /\ i \in 1..n
      BY <1>1, <2>1, <2>3, <3>1
    <3>3. Has(i, o)'
      BY <1>4, <3>2
    <3>4. o = CatalogObject(job[i].what)'
      BY <1>1, <3>1 DEF CatalogObject
    <3> QED
      BY <3>3, <3>4 DEF Has
  <2> QED
    BY <1>1, <1>3, <2>2, <2>3 DEF KitsStored
<1> QED
  BY <1>3, <1>5, <1>6, <1>7, <1>8, <1>9 DEF Straight


\* What a step of a command leaves true of the storages.
LEMMA StraightStorages ==
  ASSUME IInv, Straight, Fixed, job # <<>>, job' = Tail(job), NEW w, w = job[1],
         NEW objects, Store(objects),
         w.do = "restore" => AllCatalogs \subseteq Readable',
         w.do \notin {"put", "restore"} => objects = {},
         state' = IF w.do = "save" THEN w.what ELSE state
  PROVE  OneStorage' /\ Copies'
<1>0. PICK n : n = Len(job)
  OBVIOUS
<1>1. /\ n \in Nat \ {0} /\ w \in Writes /\ Len(job') = n - 1
      /\ \A i \in 1..n - 1 : job'[i] = job[i + 1] /\ i + 1 \in 1..n
      /\ 1 \in 1..n
  BY <1>0, TheRest DEF IInv
<1>2. /\ catalogs' = catalogs /\ HistoriesOK /\ copies' = copies /\ old' = old
      /\ connected' = connected /\ made' = made /\ replaced' = replaced
  BY FixedKeeps DEF IInv
<1>3. /\ Tip' = Tip /\ Signed' = Signed /\ AllCatalogs' = AllCatalogs
      /\ \A c : CatalogObject(c)' = CatalogObject(c)
  BY <1>2, SameLine
<1>4. state' = 0 => state = 0
  <2>1. Len(catalogs) \in Nat /\ (w.do = "save" => w.what \in 1..Len(catalogs))
    BY <1>1, WriteFields DEF IInv, SignedOnesOK, Signed
  <2> QED
    BY <2>1
<1>5. OneStorage'
  <2>1. /\ connected = TRUE => net' = net \cup objects /\ disk' = disk
        /\ connected = FALSE => disk' = disk \cup objects /\ net' = net
        /\ made \in BOOLEAN /\ connected \in BOOLEAN
    BY DEF Store, IInv, StoredOK
  <2>2. ~replaced => /\ old = {} /\ (state = 0 => copies = {})
                     /\ IF made THEN Without(disk) ELSE Without(net)
                     /\ connected = made
    BY DEF Straight, OneStorage
  <2>3. ~replaced => IF made THEN Without(disk') ELSE Without(net')
    BY <2>1, <2>2
  <2> QED
    BY <1>2, <1>3, <1>4, <2>2, <2>3 DEF OneStorage, Without
<1>6. Copies'
  <2>1. /\ \A i \in 1..n : job[i].do = "restore" => i = 1
        /\ state = 0 /\ (\E i \in 1..n : job[i].do = "put") => Tip = 1
        /\ replaced /\ state = 0 =>
             AllOrNone(old) /\ (AllOrNone(net) \/ (connected /\ w.do = "restore"))
    BY <1>0 DEF Straight, Copies, Restoring
  <2>2. \A i \in 1..n - 1 : job'[i].do # "restore"
    <3>1. \A i \in 1..n - 1 : i + 1 # 1
      OBVIOUS
    <3> QED
      BY <1>1, <2>1, <3>1
  <2>3. ~Restoring'
    <3>1. job' # <<>> => 1 \in 1..n - 1
      <4>1. job' \in Seq(Writes)
        BY TheRest DEF IInv
      <4> QED
        BY <1>1, <4>1
    <3> QED
      BY <2>2, <3>1 DEF Restoring
  <2>4. state = 0 /\ (\E i \in 1..n - 1 : job'[i].do = "put") => Tip = 1
    BY <1>1, <2>1
  <2>5. ASSUME replaced, state = 0
        PROVE  AllOrNone(net')
    <3>1. CASE w.do = "restore"
      <4>1. CASE connected = TRUE
        BY <1>2, <3>1, <4>1 DEF AllOrNone, Readable
      <4>2. CASE connected = FALSE
        BY <2>1, <2>5, <4>2 DEF Store
      <4> QED
        BY <4>1, <4>2 DEF IInv, StoredOK
    <3>2. CASE w.do = "put"
      <4>1. Tip = 1
        BY <1>1, <2>1, <2>5, <3>2
      <4>2. Signed = {1}
        BY <4>1 DEF Signed, Tip
      <4> QED
        BY <4>2 DEF AllOrNone, AllCatalogs, Without
    <3>3. CASE w.do \notin {"put", "restore"}
      <4>1. net' = net
        BY <3>3 DEF Store
      <4> QED
        BY <2>1, <2>5, <3>3, <4>1
    <3> QED
      BY <3>1, <3>2, <3>3
  <2>6. replaced' /\ state' = 0 => AllOrNone(old)' /\ AllOrNone(net)'
    BY <1>2, <1>3, <1>4, <2>1, <2>5 DEF AllOrNone, Without
  <2> QED
    BY <1>1, <1>3, <1>4, <2>2, <2>3, <2>4, <2>6 DEF Copies
<1> QED
  BY <1>5, <1>6

LEMMA StraightPut ==
  ASSUME IInv, Straight, Put, Fixed
  PROVE  Straight'
<1>1. ~Idle
  BY DEF Put
<1>2. PICK w : w = job[1] /\ w \in Writes
  BY <1>1, FirstWrite
<1>3. /\ w.do = "put" /\ Store({w.what}) /\ job' = Tail(job) /\ job # <<>>
      /\ state' = state /\ kit' = kit
  BY <1>1, <1>2, FirstWrite DEF Put
<1>4. connected' = connected /\ old' = old
  BY FixedKeeps
<1>5. disk' \cup net' = disk \cup net \cup {w.what}
  BY <1>3, <1>4, Storing
<1>6. Everything' = Everything \cup Puts(w)
  BY <1>3, <1>4, <1>5 DEF Everything, Everything, Puts
<1>7. /\ OneLine' /\ SavesTheTip' /\ CatalogsStored' /\ FilesStored'
      /\ SweepsSpare' /\ KitsStored'
  BY <1>2, <1>3, <1>6, StraightObjects
<1>8. OneStorage' /\ Copies'
  BY <1>2, <1>3, StraightStorages
<1> QED
  BY <1>7, <1>8 DEF Straight

LEMMA StraightSays ==
  ASSUME IInv, Straight, Fixed,
         SaveSecrets \/ SaveState \/ RefreshKit
  PROVE  Straight'
<1>1. ~Idle
  BY DEF SaveSecrets, SaveState, RefreshKit
<1>2. PICK w : w = job[1] /\ w \in Writes
  BY <1>1, FirstWrite
<1>3. /\ job' = Tail(job) /\ job # <<>> /\ disk' = disk /\ net' = net
      /\ w.do \in {"secrets", "save", "kit"}
      /\ state' = IF w.do = "save" THEN w.what ELSE state
      /\ kit' = IF w.do = "kit" THEN {w.what} ELSE kit
  BY <1>1, <1>2, FirstWrite
  DEF SaveSecrets, SaveState, RefreshKit
<1>4. Everything' = Everything /\ Puts(w) = {}
  BY <1>3, FixedKeeps DEF Everything, Everything, Puts
<1>5. Store({})
  BY <1>3 DEF Store
<1>6. /\ OneLine' /\ SavesTheTip' /\ CatalogsStored' /\ FilesStored'
      /\ SweepsSpare' /\ KitsStored'
  BY <1>2, <1>3, <1>4, StraightObjects
<1>7. OneStorage' /\ Copies'
  BY <1>2, <1>3, <1>5, StraightStorages
<1> QED
  BY <1>6, <1>7 DEF Straight


LEMMA StraightSweep ==
  ASSUME IInv, Straight, Sweep, Fixed
  PROVE  Straight'
<1>1. ~Idle
  BY DEF Sweep
<1>2. PICK w : w = job[1] /\ w \in Writes
  BY <1>1, FirstWrite
<1>3. /\ w.do = "sweep" /\ job # <<>> /\ job \in Seq(Writes)
      /\ net' = net /\ state' = state /\ kit' = kit
      /\ \/ job' = Tail(job) /\ disk' = disk
         \/ job' = job /\ \E o \in disk \ w.what : disk' = disk \ {o}
  BY <1>1, <1>2, FirstWrite DEF Sweep
<1>4. /\ old' = old /\ connected' = connected /\ made' = made /\ catalogs' = catalogs
      /\ copies' = copies /\ replaced' = replaced /\ HistoriesOK
  BY FixedKeeps DEF IInv
<1>5. CASE job' = Tail(job) /\ disk' = disk
  <2>1. Everything' = Everything /\ Puts(w) = {} /\ Store({})
    BY <1>3, <1>4, <1>5 DEF Everything, Everything, Puts, Store
  <2>2. /\ OneLine' /\ SavesTheTip' /\ CatalogsStored' /\ FilesStored'
        /\ SweepsSpare' /\ KitsStored'
    BY <1>2, <1>3, <1>5, <2>1, StraightObjects
  <2>3. OneStorage' /\ Copies'
    BY <1>2, <1>3, <1>5, <2>1, StraightStorages
  <2> QED
    BY <2>2, <2>3 DEF Straight
<1>6. CASE job' = job /\ \E o \in disk \ w.what : disk' = disk \ {o}
  <2>1. PICK o \in disk \ w.what : disk' = disk \ {o}
    BY <1>6
  <2>2. Len(job) = 1
    <3>1. 1 \in 1..Len(job)
      BY <1>1, FirstWrite
    <3> QED
      BY <1>2, <1>3, <3>1 DEF IInv, SweepsOK
  <2>3. 1 \in 1..1 /\ \A i \in 1..1 : i = 1 /\ job[i] = w
    BY <1>2
  <2>4. /\ Tip' = Tip /\ Signed' = Signed /\ TipFiles' = TipFiles
        /\ \A c : /\ Files(c)' = Files(c)
                  /\ CatalogObject(c)' = CatalogObject(c)
        /\ AllCatalogs' = AllCatalogs
        /\ OneLine => OneLine'
    BY <1>4, SameLine
  <2>5. /\ \A c \in Signed : CatalogObject(c) \in w.what
        /\ TipFiles \subseteq w.what
    BY <1>3, <2>2, <2>3 DEF Straight, SweepsSpare
  <2>6. Everything \ {o} \subseteq Everything' /\ Everything' \subseteq Everything
    BY <1>3, <1>4, <2>1 DEF Everything, Everything
  <2>7. \A p \in w.what : p \in Everything => p \in Everything'
    BY <2>1, <2>6
  <2>8. /\ \A c \in Signed : CatalogObject(c) \in Everything'
        /\ Tip # 0 => TipFiles \subseteq Everything'
        /\ Tip \in Nat /\ Signed = 1..Tip
    <3>1. \A p : Has(Len(job) + 1, p) => p \in Everything
      <4>1. \A j \in 1..(1 + 1) - 1 : j = 1
        OBVIOUS
      <4> QED
        BY <1>2, <1>3, <2>2, <4>1 DEF Has, Puts
    <3>2. \A c \in Signed : CatalogObject(c) \in Everything
      BY <3>1 DEF Straight, CatalogsStored
    <3>3. Tip \in Nat /\ Signed = 1..Tip
      BY TipIs
    <3>4. Tip # 0 => TipFiles \subseteq Everything
      BY <3>2, <3>3 DEF Straight, FilesStored
    <3> QED
      BY <2>5, <2>7, <3>2, <3>3, <3>4
  <2>9. SavesTheTip' /\ SweepsSpare'
    BY <1>3, <1>6, <2>4 DEF Straight, SavesTheTip, SweepsSpare
  <2>10. CatalogsStored'
    BY <2>4, <2>8 DEF CatalogsStored, Has
  <2>11. FilesStored'
    <3>1. Tip # 0 => CatalogObject(Tip) \in Everything'
      BY <2>8
    <3>2. \A i \in 1..1 : job'[i].do # "put"
      BY <1>3, <1>6, <2>3
    <3>3. Tip > 1 => Tip # 0
      BY <2>8
    <3> QED
      BY <1>6, <2>2, <2>4, <2>8, <3>1, <3>2, <3>3 DEF FilesStored
  <2>12. KitsStored'
    <3>1. \A c \in kit \cup copies : c \in Signed
      BY DEF IInv, StoredOK
    <3>2. \A i \in 1..1 : job'[i].do # "kit"
      BY <1>3, <1>6, <2>3
    <3> QED
      BY <1>3, <1>4, <1>6, <2>2, <2>4, <2>8, <3>1, <3>2 DEF KitsStored
  <2>13. OneStorage'
    BY <1>3, <1>4, <1>6, <2>1, <2>4 DEF Straight, OneStorage, Without
  <2>14. Copies'
    <3>1. Restoring = FALSE
      BY <1>2, <1>3 DEF Restoring
    <3>2. Restoring' = FALSE
      BY <1>2, <1>3, <1>6 DEF Restoring
    <3>3. \A i \in 1..Len(job) : job[i].do # "restore" /\ job[i].do # "put"
      BY <1>3, <2>2, <2>3
    <3>4. replaced /\ state = 0 => AllOrNone(old) /\ AllOrNone(net)
      BY <3>1 DEF Straight, Copies
    <3>5. replaced' /\ state' = 0 => AllOrNone(old)' /\ AllOrNone(net)'
      BY <1>3, <1>4, <2>4, <3>4 DEF AllOrNone, Without
    <3> QED
      BY <1>6, <3>2, <3>3, <3>5 DEF Copies
  <2> QED
    BY <2>4, <2>9, <2>10, <2>11, <2>12, <2>13, <2>14 DEF Straight
<1> QED
  BY <1>3, <1>5, <1>6

\* The job is dropped, or its first write brings less than it did, and the
\* storage has the rest.
LEMMA StraightRestore ==
  ASSUME IInv, Straight, Restore, Fixed
  PROVE  Straight'
<1>1. ~Idle
  BY DEF Restore
<1>2. PICK w : w = job[1] /\ w \in Writes
  BY <1>1, FirstWrite
<1>3. /\ w.do = "restore" /\ job # <<>> /\ job \in Seq(Writes)
      /\ state' = state /\ kit' = kit
      /\ \E o \in NextOf(w.what.objects) :
           LET rest == w.what.objects \ {o} IN
           IF o \in w.what.sources
           THEN /\ Store({o})
                /\ IF rest = {} THEN job' = Tail(job)
                   ELSE job' = [job EXCEPT ![1] =
                          Write("restore", [objects |-> rest, sources |-> w.what.sources])]
           ELSE job' = <<>> /\ UNCHANGED <<disk, net>>
  BY <1>1, <1>2, FirstWrite DEF Restore
<1>4. PICK o \in NextOf(w.what.objects) :
           LET rest == w.what.objects \ {o} IN
           IF o \in w.what.sources
           THEN /\ Store({o})
                /\ IF rest = {} THEN job' = Tail(job)
                   ELSE job' = [job EXCEPT ![1] =
                          Write("restore", [objects |-> rest, sources |-> w.what.sources])]
           ELSE job' = <<>> /\ UNCHANGED <<disk, net>>
  BY <1>3, Zenon
<1> DEFINE rest == w.what.objects \ {o}
<1>5. /\ o \in w.what.objects
      /\ o[1] = "catalog" \/ \A p \in w.what.objects : p[1] # "catalog"
      /\ Len(job) \in Nat \ {0}
  BY <1>1, <1>4, NextIsOne, FirstWrite
<1>6. /\ old' = old /\ connected' = connected /\ made' = made /\ catalogs' = catalogs
      /\ copies' = copies /\ replaced' = replaced /\ HistoriesOK
  BY FixedKeeps DEF IInv
<1>7. /\ Tip' = Tip /\ Signed' = Signed /\ TipFiles' = TipFiles
      /\ \A c : /\ Files(c)' = Files(c)
                /\ CatalogObject(c)' = CatalogObject(c)
      /\ \A files : FileObjects(files)' = FileObjects(files)
      /\ AllCatalogs' = AllCatalogs
      /\ OneLine => OneLine'
  BY <1>6, SameLine
<1>8. /\ \A i \in 1..Len(job) : job[i].do = "restore" => i = 1
      /\ \A i \in 1..Len(job) : job[i].do \notin {"put", "sweep"}
      /\ AllCatalogs \subseteq w.what.sources
      /\ AllCatalogs \subseteq Readable \cup w.what.objects
      /\ state = 0
      /\ replaced => AllOrNone(old) /\ (AllOrNone(net) \/ connected)
  BY <1>2, <1>3 DEF Straight, Copies, Restoring
<1>9. /\ \A c \in Signed : CatalogObject(c) \in Everything
      /\ Tip \in Nat /\ Signed = 1..Tip
      /\ Tip # 0 => TipFiles \subseteq Everything
      /\ \A i \in 1..Len(job) : \A p : Has(i, p) => p \in Everything
  <2>1. \A i \in 1..Len(job) + 1 : \A p : Has(i, p) => p \in Everything
    <3>1. \A i \in 1..Len(job) + 1 : \A j \in 1..i - 1 : j \in 1..Len(job)
      BY <1>5
    <3>2. \A j \in 1..Len(job) : Puts(job[j]) = {}
      BY <1>8 DEF Puts
    <3> QED
      BY <3>1, <3>2 DEF Has
  <2>2. Len(job) + 1 \in 1..Len(job) + 1 /\ \A i \in 1..Len(job) : i \in 1..Len(job) + 1
    BY <1>5
  <2>3. \A c \in Signed : CatalogObject(c) \in Everything
    BY <2>1, <2>2 DEF Straight, CatalogsStored
  <2>4. Tip \in Nat /\ Signed = 1..Tip
    BY TipIs
  <2>5. Tip # 0 => TipFiles \subseteq Everything
    BY <2>3, <2>4 DEF Straight, FilesStored
  <2> QED
    BY <2>1, <2>2, <2>3, <2>4, <2>5
<1>10. CASE o \notin w.what.sources
  <2>1. job' = <<>> /\ disk' = disk /\ net' = net
    BY <1>4, <1>10
  <2>2. Everything' = Everything
    BY <1>6, <2>1 DEF Everything, Everything
  <2>3. SavesTheTip' /\ SweepsSpare'
    BY <1>3, <1>8, <2>1 DEF SavesTheTip, SweepsSpare
  <2>4. CatalogsStored' /\ FilesStored' /\ KitsStored'
    <3>1. \A c \in kit \cup copies : CatalogObject(c) \in Everything
      BY DEF Straight, KitsStored
    <3>2. Tip > 1 => Tip # 0 /\ Tip \in Signed
      BY <1>9
    <3>3. CatalogsStored'
      BY <1>7, <1>9, <2>2 DEF CatalogsStored, Has
    <3>4. FilesStored'
      BY <1>7, <1>9, <2>1, <2>2, <3>2 DEF FilesStored
    <3>5. KitsStored'
      BY <1>3, <1>6, <1>7, <2>1, <2>2, <3>1 DEF KitsStored
    <3> QED
      BY <3>3, <3>4, <3>5
  <2>5. OneStorage'
    BY <1>3, <1>6, <1>7, <2>1 DEF Straight, OneStorage, Without
  <2>6. Copies'
    <3>1. o \notin AllCatalogs
      BY <1>8, <1>10
    <3>2. \A c \in AllCatalogs : c[1] = "catalog"
      BY DEF AllCatalogs, CatalogObject
    <3>3. o[1] # "catalog"
      <4>1. o \in Storable
        BY <1>2, <1>3, <1>5, WriteFields
      <4> QED
        BY <3>1, <4>1 DEF Storable, Object, AllCatalogs, CatalogObject
    <3>4. AllCatalogs \subseteq Readable
      BY <1>5, <1>8, <3>2, <3>3
    <3>5. replaced => AllOrNone(old) /\ AllOrNone(net)
      BY <1>8, <3>4 DEF AllOrNone, Readable
    <3>6. replaced' => AllOrNone(old)' /\ AllOrNone(net)'
      BY <1>6, <1>7, <2>1, <3>5 DEF AllOrNone, Without
    <3> QED
      BY <2>1, <3>6 DEF Copies, Restoring
  <2> QED
    BY <1>7, <2>3, <2>4, <2>5, <2>6 DEF Straight
<1>11. CASE o \in w.what.sources
  <2>1. Store({o})
    BY <1>4, <1>11
  <2>2. /\ Readable' = Readable \cup {o}
        /\ disk' \cup net' = disk \cup net \cup {o}
    BY <1>6, <2>1, Storing
  <2>3. Everything' = Everything \cup {o}
    BY <1>6, <2>2 DEF Everything, Everything
  <2>4. CASE rest = {}
    <3>1. job' = Tail(job) /\ AllCatalogs \subseteq Readable'
      BY <1>4, <1>5, <1>8, <1>11, <2>2, <2>4
    <3>2. Puts(w) = {}
      BY <1>3 DEF Puts
    <3>3. CatalogObject(Tip) \in Everything' =>
            CatalogObject(Tip) \in Everything \cup Puts(w)
      <4>1. CASE Tip = 0
        <5>1. CatalogObject(Tip) \notin Storable
          BY <1>9, <4>1 DEF Storable, CatalogObject
        <5>2. o \in Storable
          BY <1>2, <1>3, <1>5, WriteFields
        <5> QED
          BY <2>3, <5>1, <5>2
      <4>2. CASE Tip # 0
        BY <1>9, <4>2
      <4> QED
        BY <4>1, <4>2
    <3>4. /\ OneLine' /\ SavesTheTip' /\ CatalogsStored' /\ FilesStored'
          /\ SweepsSpare' /\ KitsStored'
      BY <1>2, <1>3, <2>3, <3>1, <3>2, <3>3, StraightObjects
    <3>5. OneStorage' /\ Copies'
      BY <1>2, <1>3, <2>1, <3>1, StraightStorages
    <3> QED
      BY <3>4, <3>5 DEF Straight
  <2>5. CASE rest # {}
    <3>1. PICK v : v = Write("restore", [objects |-> rest, sources |-> w.what.sources])
      OBVIOUS
    <3>2. job' = [job EXCEPT ![1] = v]
      BY <1>4, <1>11, <2>5, <3>1
    <3>3. /\ v.do = "restore" /\ v.what.objects = rest /\ v.what.sources = w.what.sources
      BY <3>1 DEF Write
    <3>4. /\ Len(job') = Len(job) /\ job'[1] = v /\ job' # <<>> /\ 1 \in 1..Len(job)
          /\ \A i \in 1..Len(job) : i # 1 => job'[i] = job[i]
      BY <1>3, <1>5, <3>2
    <3>5. /\ \A i \in 1..Len(job) : job'[i].do = job[i].do
          /\ \A i \in 1..Len(job) : job[i].do # "restore" => job'[i] = job[i]
      BY <1>2, <1>3, <3>3, <3>4
    <3>6. SavesTheTip' /\ SweepsSpare'
      BY <1>3, <1>7, <3>4, <3>5 DEF Straight, SavesTheTip, SweepsSpare
    <3>7. CatalogsStored'
      BY <1>7, <1>9, <2>3 DEF CatalogsStored, Has
    <3>8. FilesStored'
      <4>1. \A i \in 1..Len(job) : job'[i].do # "put"
        BY <1>8, <3>5
      <4>2. Tip > 1 => Tip # 0 /\ Tip \in Signed
        BY <1>9
      <4>3. Tip # 0 => TipFiles \subseteq Everything'
        BY <1>9, <2>3
      <4>4. Tip > 1 => CatalogObject(Tip) \in Everything'
        BY <1>9, <2>3, <4>2
      <4> QED
        BY <1>7, <3>4, <4>1, <4>3, <4>4 DEF FilesStored
    <3>9. KitsStored'
      <4>1. /\ \A c \in kit \cup copies : CatalogObject(c) \in Everything
            /\ \A i \in 1..Len(job) :
                 job[i].do = "kit" => Has(i, CatalogObject(job[i].what))
        BY DEF Straight, KitsStored
      <4>2. \A i \in 1..Len(job) :
              job[i].do = "kit" => CatalogObject(job[i].what) \in Everything
        BY <1>9, <4>1
      <4>3. \A i \in 1..Len(job) :
              job'[i].do = "kit" => CatalogObject(job'[i].what) \in Everything'
        BY <2>3, <3>5, <4>2
      <4>4. \A c \in kit' \cup copies' : CatalogObject(c) \in Everything'
        BY <1>3, <1>6, <2>3, <4>1
      <4> QED
        BY <1>7, <3>4, <4>3, <4>4 DEF KitsStored, Has, CatalogObject
    <3>10. OneStorage'
      <4>1. /\ connected = TRUE => net' = net \cup {o} /\ disk' = disk
            /\ connected = FALSE => disk' = disk \cup {o} /\ net' = net
            /\ made \in BOOLEAN /\ connected \in BOOLEAN
        BY <2>1 DEF Store, IInv, StoredOK
      <4>2. ~replaced => /\ old = {} /\ (state = 0 => copies = {})
                         /\ IF made THEN Without(disk) ELSE Without(net)
                         /\ connected = made
        BY <1>3 DEF Straight, OneStorage
      <4>3. ~replaced => IF made THEN Without(disk') ELSE Without(net')
        BY <4>1, <4>2
      <4> QED
        BY <1>3, <1>6, <1>7, <4>2, <4>3 DEF OneStorage, Without
    <3>11. Copies'
      <4>1. Restoring'
        BY <3>3, <3>4 DEF Restoring
      <4>2. AllCatalogs \subseteq Readable' \cup rest
        BY <1>8, <2>2
      <4>3. replaced => AllOrNone(old) /\ (AllOrNone(net') \/ connected)
        <5>1. CASE connected = TRUE
          BY <1>8, <5>1
        <5>2. CASE connected = FALSE
          BY <1>8, <2>1, <5>2 DEF Store
        <5> QED
          BY <5>1, <5>2 DEF IInv, StoredOK
      <4>4. replaced' => AllOrNone(old)' /\ (AllOrNone(net)' \/ connected')
        BY <1>6, <1>7, <4>3 DEF AllOrNone, Without
      <4>5. \A i \in 1..Len(job) : /\ job'[i].do \notin {"put", "sweep"}
                                   /\ job'[i].do = "restore" => i = 1
        BY <1>8, <3>5
      <4>6. AllCatalogs \subseteq job'[1].what.sources
        BY <1>8, <3>3, <3>4
      <4>7. AllCatalogs \subseteq Readable' \cup job'[1].what.objects
        BY <3>3, <3>4, <4>2
      <4> QED
        BY <1>3, <1>7, <1>8, <3>4, <4>1, <4>4, <4>5, <4>6, <4>7 DEF Copies
    <3> QED
      BY <1>7, <3>6, <3>7, <3>8, <3>9, <3>10, <3>11 DEF Straight
  <2> QED
    BY <2>4, <2>5
<1> QED
  BY <1>10, <1>11


\* Between commands nothing is on its way.
LEMMA StraightWhenIdle ==
  ASSUME IInv, Straight, job = <<>>
  PROVE  /\ \A c \in Signed : CatalogObject(c) \in Everything
         /\ Tip # 0 => TipFiles \subseteq Everything
         /\ state # 0 => state = Tip
         /\ AllCatalogs \subseteq Everything
         /\ replaced /\ state = 0 => AllOrNone(old) /\ AllOrNone(net)
         /\ ~replaced /\ CanOpen => connected = made
<1>1. Tip \in Nat /\ Signed = 1..Tip
  BY TipIs
<1>2. Len(job) = 0 /\ \A i : i \notin 1..0
  OBVIOUS
<1>3. \A o : Has(0 + 1, o) => o \in Everything
  BY DEF Has
<1>4. \A c \in Signed : CatalogObject(c) \in Everything
  BY <1>2, <1>3 DEF Straight, CatalogsStored
<1>5. Tip # 0 => TipFiles \subseteq Everything
  BY <1>1, <1>4 DEF Straight, FilesStored
<1>6. state # 0 => state = Tip
  BY <1>2 DEF Straight, SavesTheTip
<1>7. AllCatalogs \subseteq Everything
  BY <1>4 DEF AllCatalogs
<1>8. replaced /\ state = 0 => AllOrNone(old) /\ AllOrNone(net)
  BY DEF Straight, Copies, Restoring
<1>9. ASSUME ~replaced, CanOpen
      PROVE  connected = made
  <2>1. /\ state \in Signed /\ CatalogObject(state) \in Readable
    BY <1>1, <1>6, <1>9 DEF CanOpen, IInv, StoredOK
  <2>2. /\ IF made THEN Without(disk) ELSE Without(net)
        /\ made => connected
        /\ made \in BOOLEAN /\ connected \in BOOLEAN
    BY <1>9 DEF Straight, OneStorage, IInv, StoredOK
  <2>3. CASE connected = TRUE /\ made = FALSE
    BY <2>1, <2>2, <2>3 DEF Without, Readable
  <2>4. CASE made = TRUE
    <3>1. connected = TRUE
      BY <2>2, <2>4
    <3> QED
      BY <2>4, <3>1
  <2>5. CASE made = FALSE
    BY <2>2, <2>3, <2>5
  <2> QED
    BY <2>2, <2>4, <2>5
<1> QED
  BY <1>4, <1>5, <1>6, <1>7, <1>8, <1>9

\* A command signs a catalog: what it must then write, and in which order.
Publishes(n, files) ==
  /\ \A i \in 1..Len(job) : /\ job[i].do # "restore"
                            /\ job[i].do \in {"save", "kit"} => job[i].what = n
                            /\ job[i].do = "kit" => Has(i, CatalogObject(n))
                            /\ job[i].do = "put" /\ job[i].what[1] = "catalog" =>
                                 \A o \in FileObjects(files) : Has(i, o)
                            /\ job[i].do = "sweep" =>
                                 /\ \A c \in 1..n : CatalogObject(c) \in job[i].what
                                 /\ FileObjects(files) \subseteq job[i].what
  /\ \E i \in 1..Len(job) : job[i].do = "save"
  /\ Has(Len(job) + 1, CatalogObject(n))
  /\ job # <<>>

LEMMA StraightSigning ==
  ASSUME IInv, IInv', Straight, job = <<>>,
         NEW n \in Nat, n = Len(catalogs), NEW r, catalogs' = Append(catalogs, r),
         r.version = n + 1, r.previous = n, Untouched,
         \/ state = n /\ n # 0 /\ made' = made /\ CanOpen
         \/ state = 0 /\ n = 0 /\ made' = connected,
         Publishes(n + 1, r.files)'
  PROVE  Straight'
<1>1. /\ Len(catalogs') = n + 1 /\ catalogs'[n + 1] = r
      /\ \A c \in 1..n : catalogs'[c] = catalogs[c]
      /\ Tip = n /\ Tip' = n + 1 /\ Signed = 1..n /\ Signed' = 1..n + 1
      /\ \A c \in 1..n + 1 : c \in 1..n \/ c = n + 1
      /\ n \in 0..n
  BY DEF IInv, SignedOnesOK, Tip, Signed
<1>2. /\ \A c : CatalogObject(c)' = CatalogObject(c)
      /\ \A files : FileObjects(files)' = FileObjects(files)
      /\ \A c \in 1..n : Files(c)' = Files(c)
      /\ Files(n + 1)' = r.files
  BY <1>1 DEF CatalogObject, FileObjects, Manifest,
              Chunk, Files
<1>3. /\ Everything' = Everything /\ TipFiles' = FileObjects(r.files)
      /\ state' = state /\ kit' = kit /\ copies' = copies /\ disk' = disk /\ net' = net
      /\ old' = old /\ connected' = connected /\ replaced' = replaced
  BY <1>1, <1>2 DEF Everything, Everything, Untouched, TipFiles,
                    Readable, FileObjects, Manifest, Chunk
<1>4. /\ \A c \in 1..n : CatalogObject(c) \in Everything
      /\ n # 0 => TipFiles \subseteq Everything
      /\ ~replaced /\ CanOpen => connected = made
  BY <1>1, StraightWhenIdle
<1>5. OneLine'
  <2>1. \A c \in 1..n : catalogs[c].version = c /\ catalogs[c].previous = c - 1
                        /\ Chain(c) = 1..c
    BY <1>1 DEF Straight, OneLine
  <2>2. SignedOnesOK /\ HistoriesOK /\ r.previous \in 0..n
    BY <1>1 DEF IInv
  <2>3. /\ \A c \in 0..n : Chain(c)' = Chain(c)
        /\ Chain(n + 1)' = {n + 1} \cup Chain(n)
    BY <2>2, ChainsGrow
  <2>4. Chain(n) = 1..n
    <3>1. CASE n = 0
      BY <2>2, <3>1, ChainValues
    <3>2. CASE n # 0
      BY <2>1, <3>2
    <3> QED
      BY <3>1, <3>2
  <2>5. Chain(n + 1)' = 1..n + 1
    <3>1. 1..n + 1 = {n + 1} \cup 1..n
      OBVIOUS
    <3>2. Chain(n + 1)' = {n + 1} \cup Chain(n)
      BY <2>3, Zenon
    <3> QED
      BY <2>4, <3>1, <3>2, Zenon
  <2>6. \A c \in 1..n : c \in 0..n
    OBVIOUS
  <2>7. ASSUME NEW c \in 1..n + 1
        PROVE  /\ catalogs'[c].version = c /\ catalogs'[c].previous = c - 1
               /\ Chain(c)' = 1..c
    <3>1. CASE c \in 1..n
      BY <1>1, <2>1, <2>3, <2>6, <3>1
    <3>2. CASE c = n + 1
      BY <1>1, <2>5, <3>2
    <3> QED
      BY <1>1, <3>1, <3>2
  <2> QED
    BY <1>1, <2>7 DEF OneLine
<1>6. SavesTheTip'
  BY <1>1 DEF Publishes, SavesTheTip
<1>7. CatalogsStored'
  <2>1. \A c \in 1..n : c # n + 1
    OBVIOUS
  <2>2. Has(Len(job) + 1, CatalogObject(n + 1))'
    BY DEF Publishes
  <2> QED
    BY <1>1, <1>2, <1>3, <1>4, <2>1, <2>2 DEF CatalogsStored
<1>8. FilesStored'
  <2>1. CatalogObject(n + 1) \notin Everything
    <3>1. \A o \in Storable : o # CatalogObject(n + 1)
      BY <1>1 DEF Storable, CatalogObject
    <3> QED
      BY <3>1 DEF IInv, StoredOK, Everything, Everything
  <2>2. n + 1 > 1 => n \in 1..n /\ n # 0 /\ (n + 1) - 1 = n
    OBVIOUS
  <2>3. n + 1 > 1 => FileObjects(Files((n + 1) - 1))' \subseteq Everything'
    BY <1>1, <1>2, <1>3, <1>4, <2>2 DEF TipFiles
  <2>4. \A i \in 1..Len(job') : job'[i].do = "put" /\ job'[i].what[1] = "catalog" =>
             \A o \in TipFiles' : Has(i, o)'
    BY <1>2, <1>3 DEF Publishes
  <2> QED
    BY <1>1, <1>2, <1>3, <2>1, <2>3, <2>4 DEF FilesStored
<1>9. SweepsSpare'
  BY <1>1, <1>2, <1>3 DEF Publishes, SweepsSpare
<1>10. KitsStored'
  <2>1. \A c \in kit \cup copies : CatalogObject(c) \in Everything
    BY DEF Straight, KitsStored
  <2>2. \A i \in 1..Len(job') : job'[i].do = "kit" =>
          job'[i].what = n + 1 /\ Has(i, CatalogObject(n + 1))'
    BY DEF Publishes
  <2> QED
    BY <1>2, <1>3, <2>1, <2>2 DEF KitsStored
<1>11. OneStorage'
  <2>1. ~replaced => /\ old = {} /\ (state = 0 => copies = {})
                     /\ IF made THEN Without(disk) ELSE Without(net)
    BY DEF Straight, OneStorage
  <2>2. ASSUME NEW objects, objects \subseteq Storable, Without(objects)
        PROVE  Without(objects)'
    BY <1>1, <1>2, <2>2 DEF Without, Storable, CatalogObject
  <2>3. disk \subseteq Storable /\ net \subseteq Storable
    BY DEF IInv, StoredOK
  <2>4. n = 0 => Without(disk) /\ Without(net)
    BY <1>1 DEF Without
  <2>5. ~replaced => IF made' THEN Without(disk) ELSE Without(net)
    BY <2>1, <2>4
  <2>6. ~replaced => IF made' THEN Without(disk)' ELSE Without(net)'
    BY <1>3, <2>2, <2>3, <2>5 DEF Without
  <2>7. ~replaced => connected' = made'
    BY <1>3, <1>4
  <2> QED
    BY <1>3, <2>1, <2>6, <2>7 DEF OneStorage
<1>12. Copies'
  <2>1. \A i \in 1..Len(job') : job'[i].do # "restore"
    BY DEF Publishes
  <2>2. ~Restoring'
    <3>1. job' # <<>> => 1 \in 1..Len(job')
      <4>1. job' \in Seq(Writes')
        BY DEF IInv
      <4> QED
        BY <4>1
    <3> QED
      BY <2>1, <3>1 DEF Restoring
  <2>3. state = 0 => n = 0
    OBVIOUS
  <2>4. n = 0 => AllOrNone(old)' /\ AllOrNone(net)'
    <3>1. n = 0 => Signed' = {1}
      BY <1>1
    <3> QED
      BY <3>1 DEF AllOrNone, AllCatalogs, Without
  <2> QED
    BY <1>1, <1>3, <2>1, <2>2, <2>3, <2>4 DEF Copies
<1> QED
  BY <1>5, <1>6, <1>7, <1>8, <1>9, <1>10, <1>11, <1>12 DEF Straight


LEMMA LastVersion ==
  ASSUME IInv, Straight, NEW n \in Nat, n = Len(catalogs), n # 0
  PROVE  catalogs[n].version = n
<1>1. n \in Signed
  BY DEF Signed
<1> QED
  BY <1>1 DEF Straight, OneLine


LEMMA StraightCommands ==
  ASSUME IInv, IInv', Straight,
         \/ Create \/ Add \/ Delete \/ CollectExpired
  PROVE  Straight'
<1>1. PICK n \in Nat : n = Len(catalogs) /\ n = Tip
  BY DEF IInv, SignedOnesOK, Tip
<1>2. PICK c, d, e : /\ c = Write("put", CatalogObject(n + 1))
                     /\ d = Write("save", n + 1)
                     /\ e = Write("kit", n + 1)
  OBVIOUS
<1>3. Publish = <<c, d, e>>
  BY <1>1, <1>2 DEF Publish, Upcoming
<1>4. /\ c.do = "put" /\ c.what = CatalogObject(n + 1)
      /\ Puts(c) = {CatalogObject(n + 1)}
      /\ d.do = "save" /\ d.what = n + 1 /\ e.do = "kit" /\ e.what = n + 1
  BY <1>2 DEF Write, Puts
<1>5. job = <<>>
  BY DEF Create, Add, Delete, CollectExpired,
         CanSign, Idle
<1>6. /\ \A k \in 1..n : CatalogObject(k) \in Everything
      /\ n # 0 => TipFiles \subseteq Everything
      /\ state # 0 => state = n
      /\ Tip = n
  BY <1>1, <1>5, StraightWhenIdle, TipIs
<1>7. \A o : CatalogObject(o)' = CatalogObject(o)
  BY DEF CatalogObject
<1>8. \A files : FileObjects(files)' = FileObjects(files)
  BY DEF FileObjects, Manifest, Chunk
<1>9. CASE Create
  <2>1. PICK r : r = [version |-> 1, previous |-> 0, files |-> {}]
    OBVIOUS
  <2>2. PICK a : a = Write("secrets", 0)
    OBVIOUS
  <2>3. /\ catalogs = <<>> /\ catalogs' = <<r>> /\ state = 0 /\ made' = connected /\ Untouched
        /\ job' = <<a>> \o <<c, d, e>>
    BY <1>3, <1>9, <2>1, <2>2 DEF Create, Fresh, Untouched
  <2>4. n = 0 /\ catalogs' = Append(catalogs, r) /\ r.version = n + 1 /\ r.previous = n
        /\ r.files = {}
    <3>1. Len(catalogs) = 0 /\ catalogs' = Append(catalogs, r)
      BY <2>3
    <3>2. r.version = 1 /\ r.previous = 0 /\ r.files = {}
      BY <2>1
    <3>3. n = 0
      BY <1>1, <3>1
    <3> HIDE <1>1
    <3> QED
      BY <3>1, <3>2, <3>3
  <2>5. /\ Len(job') = 4 /\ job' # <<>>
        /\ job'[1] = a /\ job'[2] = c /\ job'[3] = d /\ job'[4] = e
    BY <2>3
  <2>6. a.do = "secrets" /\ FileObjects({}) = {}
    BY <2>2 DEF Write, FileObjects
  <2>7. \A i \in 1..4 : i = 1 \/ i = 2 \/ i = 3 \/ i = 4
    OBVIOUS
  <2>8. /\ Has(4, CatalogObject(n + 1))' /\ Has(5, CatalogObject(n + 1))'
    <3>1. 2 \in 1..4 - 1 /\ 2 \in 1..5 - 1
      OBVIOUS
    <3> QED
      BY <1>4, <1>7, <2>5, <3>1 DEF Has, Puts
  <2>9. Publishes(n + 1, r.files)'
    <3>1. FileObjects(r.files)' = {}
      BY <1>8, <2>4, <2>6
    <3>2. 3 \in 1..4 /\ 4 + 1 = 5
      OBVIOUS
    <3> QED
      BY <1>4, <2>5, <2>6, <2>7, <2>8, <3>1, <3>2 DEF Publishes
  <2> QED
    BY <1>1, <1>5, <2>3, <2>4, <2>9, StraightSigning
<1>10. CASE Add
  <2> DEFINE f == NewFile
             new == [file |-> f, until |-> 0]
             files == Files(state) \cup {new}
  <2>1. PICK a, b : /\ a = Write("put", Chunk(f))
                    /\ b = Write("put", Manifest(f))
    OBVIOUS
  <2>2. PICK r : r = Successor(files)
    OBVIOUS
  <2>3. /\ catalogs' = Append(catalogs, r) /\ made' = made /\ Untouched
        /\ job' = <<a, b>> \o <<c, d, e>> /\ CanOpen
    BY <1>3, <1>10, <2>1, <2>2 DEF Add, Run, Untouched
  <2> HIDE DEF f
  <2>4. state = n /\ n # 0
    BY <1>6, <2>3 DEF CanOpen
  <2>5. /\ r.version = n + 1 /\ r.previous = n /\ r.files = files
    BY <1>1, <2>2, <2>4, LastVersion DEF Successor, Version
  <2>6. /\ Len(job') = 5 /\ job' # <<>> /\ job'[1] = a /\ job'[2] = b
        /\ job'[3] = c /\ job'[4] = d /\ job'[5] = e
    BY <2>3
  <2>7. /\ a.do = "put" /\ a.what = Chunk(f) /\ a.what[1] # "catalog"
        /\ b.do = "put" /\ b.what = Manifest(f) /\ b.what[1] # "catalog"
        /\ Chunk(f) \in Puts(a) /\ Manifest(f) \in Puts(b)
    BY <2>1 DEF Write, Chunk, Manifest, Puts
  <2>8. \A i \in 1..5 : i = 1 \/ i = 2 \/ i = 3 \/ i = 4 \/ i = 5
    OBVIOUS
  <2>9. /\ Has(5, CatalogObject(n + 1))' /\ Has(6, CatalogObject(n + 1))'
    <3>1. 3 \in 1..5 - 1 /\ 3 \in 1..6 - 1
      OBVIOUS
    <3> QED
      BY <1>4, <1>7, <2>6, <3>1 DEF Has, Puts
  <2>10. \A o \in FileObjects(files) : Has(3, o)'
    <3>1. \A o \in FileObjects(files) :
            o \in TipFiles \/ o = Chunk(f) \/ o = Manifest(f)
      BY <1>6, <2>4 DEF FileObjects, TipFiles
    <3>2. 1 \in 1..3 - 1 /\ 2 \in 1..3 - 1
      OBVIOUS
    <3>3. Everything' = Everything
      BY <2>3 DEF Everything, Everything, Untouched
    <3> QED
      BY <1>6, <2>4, <2>6, <2>7, <3>1, <3>2, <3>3 DEF Has, Puts
  <2>11. Publishes(n + 1, r.files)'
    <3>1. FileObjects(r.files)' = FileObjects(files)
      BY <1>8, <2>5
    <3>2. 4 \in 1..5 /\ 5 + 1 = 6
      OBVIOUS
    <3> QED
      BY <1>4, <2>6, <2>7, <2>8, <2>9, <2>10, <3>1, <3>2 DEF Publishes
  <2> QED
    BY <1>1, <1>5, <2>3, <2>4, <2>5, <2>11, StraightSigning
<1>11. CASE Delete
  <2>1. PICK v \in Files(state) :
          Run((Files(state) \ {v})
                        \cup {[v EXCEPT !.until = day + Retention]}, Publish)
    BY <1>11 DEF Delete
  <2>2. PICK u : u = [v EXCEPT !.until = day + Retention]
    OBVIOUS
  <2> DEFINE files == (Files(state) \ {v}) \cup {u}
  <2>3. PICK r : r = Successor(files)
    OBVIOUS
  <2>4. /\ catalogs' = Append(catalogs, r) /\ made' = made /\ Untouched
        /\ job' = <<c, d, e>> /\ CanOpen
    BY <1>3, <1>11, <2>1, <2>2, <2>3 DEF Delete, Run, Untouched
  <2>5. state = n /\ n # 0
    BY <1>6, <2>4 DEF CanOpen
  <2>6. /\ r.version = n + 1 /\ r.previous = n /\ r.files = files
    BY <1>1, <2>3, <2>5, LastVersion DEF Successor, Version
  <2>7. /\ Len(job') = 3 /\ job' # <<>>
        /\ job'[1] = c /\ job'[2] = d /\ job'[3] = e
    BY <2>4
  <2>8. \A i \in 1..3 : i = 1 \/ i = 2 \/ i = 3
    OBVIOUS
  <2>9. /\ Has(3, CatalogObject(n + 1))' /\ Has(4, CatalogObject(n + 1))'
    <3>1. 1 \in 1..3 - 1 /\ 1 \in 1..4 - 1
      OBVIOUS
    <3> QED
      BY <1>4, <1>7, <2>7, <3>1 DEF Has, Puts
  <2>10. \A o \in FileObjects(files) : Has(1, o)'
    <3>1. u.file = v.file
      <4>1. v \in SignedEntry
        <5>1. n \in 1..n
          BY <2>5
        <5> QED
          BY <1>1, <2>5, <5>1, EntriesOf
      <4> QED
        BY <2>2, <4>1 DEF SignedEntry
    <3>2. \A x \in files : \E y \in Files(state) : y.file = x.file
      BY <3>1
    <3>3. FileObjects(files) \subseteq TipFiles
      BY <1>6, <2>5, <3>2, Zenon DEF FileObjects, TipFiles, Manifest, Chunk
    <3>4. Everything' = Everything
      BY <2>4 DEF Everything, Everything, Untouched
    <3> QED
      BY <1>6, <2>5, <3>3, <3>4 DEF Has
  <2>11. Publishes(n + 1, r.files)'
    <3>1. FileObjects(r.files)' = FileObjects(files)
      BY <1>8, <2>6
    <3>2. 2 \in 1..3 /\ 3 + 1 = 4
      OBVIOUS
    <3> QED
      BY <1>4, <2>7, <2>8, <2>9, <2>10, <3>1, <3>2 DEF Publishes
  <2> QED
    BY <1>1, <1>5, <2>4, <2>5, <2>6, <2>11, StraightSigning
<1>12. CASE CollectExpired
  <2> DEFINE files == Live(state)
  <2>1. PICK w : w = Write("sweep", {CatalogObject(n + 1)}
                                              \cup Retained(state))
    OBVIOUS
  <2>2. PICK r : r = Successor(files)
    OBVIOUS
  <2>3. /\ catalogs' = Append(catalogs, r) /\ made' = made /\ Untouched
        /\ job' = Append(<<c, d, e>>, w) /\ CanOpen
    BY <1>1, <1>3, <1>12, <2>1, <2>2
    DEF CollectExpired, CanCollect, Run, Untouched,
        Upcoming
  <2>4. state = n /\ n # 0 /\ n \in 1..n
    BY <1>6, <2>3 DEF CanOpen
  <2>5. /\ r.version = n + 1 /\ r.previous = n /\ r.files = files
    BY <1>1, <2>2, <2>4, LastVersion DEF Successor, Version
  <2>6. /\ Len(job') = 4 /\ job' # <<>>
        /\ job'[1] = c /\ job'[2] = d /\ job'[3] = e /\ job'[4] = w
    BY <2>3
  <2>7. \A i \in 1..4 : i = 1 \/ i = 2 \/ i = 3 \/ i = 4
    OBVIOUS
  <2>8. /\ Has(3, CatalogObject(n + 1))' /\ Has(5, CatalogObject(n + 1))'
    <3>1. 1 \in 1..3 - 1 /\ 1 \in 1..5 - 1
      OBVIOUS
    <3> QED
      BY <1>4, <1>7, <2>6, <3>1 DEF Has, Puts
  <2>9. \A o \in FileObjects(files) : Has(1, o)'
    <3>1. FileObjects(files) \subseteq TipFiles
      BY <1>6, <2>4 DEF FileObjects, TipFiles, Live
    <3>2. Everything' = Everything
      BY <2>3 DEF Everything, Everything, Untouched
    <3> QED
      BY <1>6, <2>4, <3>1, <3>2 DEF Has
  <2>10. /\ w.do = "sweep" /\ FileObjects(files) \subseteq w.what
         /\ \A k \in 1..n + 1 : CatalogObject(k) \in w.what
    <3>1. Chain(n) = 1..n
      BY <1>1, <2>4, TipIs DEF Straight, OneLine
    <3>2. \A k \in 1..n + 1 : k = n + 1 \/ k \in 1..n
      OBVIOUS
    <3> QED
      BY <2>1, <2>4, <3>1, <3>2 DEF Write, Retained, ChainObjects
  <2>11. Publishes(n + 1, r.files)'
    <3>1. FileObjects(r.files)' = FileObjects(files)
      BY <1>8, <2>5
    <3>2. 2 \in 1..4 /\ 4 + 1 = 5
      OBVIOUS
    <3> QED
      BY <1>4, <1>7, <2>6, <2>7, <2>8, <2>9, <2>10, <3>1, <3>2 DEF Publishes
  <2> QED
    BY <1>1, <1>5, <2>3, <2>4, <2>5, <2>11, StraightSigning
<1> QED
  BY <1>9, <1>10, <1>11, <1>12


LEMMA StraightOrphans ==
  ASSUME IInv, Straight, CollectOrphans
  PROVE  Straight'
<1>1. PICK w : w = Write("sweep", Retained(state))
  OBVIOUS
<1>2. /\ job = <<>> /\ job' = <<w>> /\ catalogs' = catalogs /\ Untouched /\ made' = made
      /\ CanOpen /\ Live(state) = Files(state)
  BY <1>1 DEF CollectOrphans, Untouched, Idle, CanCollect
<1>3. /\ \A c \in Signed : CatalogObject(c) \in Everything
      /\ Tip # 0 => TipFiles \subseteq Everything
      /\ state # 0 => state = Tip
      /\ replaced /\ state = 0 => AllOrNone(old) /\ AllOrNone(net)
      /\ ~replaced /\ CanOpen => connected = made
  BY <1>2, StraightWhenIdle
<1>4. state = Tip /\ Tip # 0 /\ Tip \in Signed /\ Tip \in Nat /\ Signed = 1..Tip
  BY <1>2, <1>3, TipIs DEF CanOpen
<1>5. /\ Tip' = Tip /\ Signed' = Signed /\ TipFiles' = TipFiles
      /\ \A c : CatalogObject(c)' = CatalogObject(c)
      /\ AllCatalogs' = AllCatalogs /\ OneLine'
  BY <1>2, SameLine DEF IInv, Straight
<1>6. /\ Everything' = Everything /\ state' = state /\ kit' = kit /\ copies' = copies
      /\ disk' = disk /\ net' = net /\ old' = old /\ connected' = connected
      /\ replaced' = replaced
  BY <1>2 DEF Everything, Everything, Untouched
<1>7. /\ w.do = "sweep" /\ TipFiles \subseteq w.what
      /\ \A c \in Signed : CatalogObject(c) \in w.what
  <2>1. Chain(Tip) = 1..Tip
    BY <1>4 DEF Straight, OneLine
  <2> QED
    BY <1>1, <1>2, <1>4, <2>1
    DEF Write, Retained, ChainObjects, TipFiles
<1>8. Len(job') = 1 /\ job'[1] = w /\ job' # <<>> /\ \A i \in 1..1 : i = 1
  BY <1>2
<1>9. SavesTheTip' /\ SweepsSpare'
  BY <1>4, <1>5, <1>6, <1>7, <1>8 DEF SavesTheTip, SweepsSpare
<1>10. CatalogsStored'
  BY <1>3, <1>5, <1>6 DEF CatalogsStored, Has
<1>11. FilesStored'
  BY <1>3, <1>4, <1>5, <1>6, <1>7, <1>8 DEF FilesStored
<1>12. KitsStored'
  <2>1. \A c \in kit \cup copies : CatalogObject(c) \in Everything
    BY DEF Straight, KitsStored
  <2> QED
    BY <1>5, <1>6, <1>7, <1>8, <2>1 DEF KitsStored
<1>13. OneStorage'
  BY <1>2, <1>3, <1>5, <1>6 DEF Straight, OneStorage, Without
<1>14. Copies'
  <2>1. ~Restoring'
    BY <1>7, <1>8 DEF Restoring
  <2>2. replaced' /\ state' = 0 => AllOrNone(old)' /\ AllOrNone(net)'
    BY <1>3, <1>5, <1>6 DEF AllOrNone, Without
  <2> QED
    BY <1>7, <1>8, <2>1, <2>2 DEF Copies
<1> QED
  BY <1>5, <1>9, <1>10, <1>11, <1>12, <1>13, <1>14 DEF Straight

\* A kit finds the latest catalog in whatever the user supplies that has any.
LEMMA FindsTheTip ==
  ASSUME IInv, Straight, job = <<>>, replaced, state = 0,
         NEW checkpoint \in copies, NEW sources \in Sources,
         NEW c \in Discovered(checkpoint, sources)
  PROVE  c = Tip /\ AllCatalogs \subseteq sources
<1>1. /\ Tip \in Nat /\ Signed = 1..Tip /\ DOMAIN catalogs = 1..Tip
      /\ AllOrNone(old) /\ AllOrNone(net)
  BY TipIs, StraightWhenIdle DEF IInv, SignedOnesOK, Tip
<1>2. /\ c \in 1..Tip /\ CatalogObject(c) \in sources
      /\ \/ Heirs(c, sources) = {}
         \/ \E d \in Heirs(c, sources) : catalogs[d].previous # c
  BY <1>1 DEF Discovered, Stored
<1>3. AllCatalogs \subseteq sources
  <2>1. \A k \in Signed : CatalogObject(k)[1] = "catalog"
    BY DEF CatalogObject
  <2>2. CASE sources = old \/ sources = net \/ sources = old \cup net
    BY <1>1, <1>2, <2>2 DEF AllOrNone, Without
  <2>3. CASE sources = {o \in old : o[1] # "chunk"}
    <3>1. ~Without(old)
      BY <1>1, <1>2, <2>3 DEF Without
    <3> QED
      BY <1>1, <2>1, <2>3, <3>1 DEF AllOrNone, AllCatalogs
  <2> QED
    BY <2>2, <2>3 DEF Sources
<1>4. \A d \in 1..Tip : catalogs[d].version = d /\ catalogs[d].previous = d - 1
  BY <1>1 DEF Straight, OneLine
<1>5. \A d \in Heirs(c, sources) : d \in 1..Tip /\ d = c + 1
  BY <1>1, <1>2, <1>4 DEF Heirs, Stored, Version
<1>6. \A d \in Heirs(c, sources) : catalogs[d].previous = c
  BY <1>2, <1>4, <1>5
<1>7. Heirs(c, sources) = {}
  BY <1>2, <1>6
<1>8. ASSUME c # Tip
      PROVE  FALSE
  <2>1. c + 1 \in 1..Tip
    BY <1>1, <1>2, <1>8
  <2>2. CatalogObject(c + 1) \in sources
    BY <1>1, <1>3, <2>1 DEF AllCatalogs
  <2>3. c + 1 \in Heirs(c, sources)
    BY <1>1, <1>2, <1>4, <2>1, <2>2 DEF Heirs, Stored, Version
  <2> QED
    BY <1>7, <2>3
<1> QED
  BY <1>3, <1>8

LEMMA StraightImport ==
  ASSUME IInv, Straight, NEW checkpoint \in copies,
         NEW sources \in Sources,
         NEW c \in Discovered(checkpoint, sources),
         Import(checkpoint, sources, c)
  PROVE  Straight'
<1>1. PICK w, a, b, d, e :
        /\ w = Write("restore", [objects |-> Wanted(c), sources |-> sources])
        /\ a = Write("secrets", 0) /\ b = Write("kit", checkpoint)
        /\ d = Write("save", c) /\ e = Write("kit", c)
  OBVIOUS
<1>2. /\ job = <<>> /\ job' = <<w, a, b, d, e>> /\ catalogs' = catalogs /\ Untouched
      /\ state = 0 /\ made' = connected
  BY <1>1 DEF Import, Fresh, Idle, Untouched
<1>3. replaced = TRUE
  <2>1. replaced \in BOOLEAN
    BY DEF IInv, StoredOK
  <2> QED
    BY <1>2, <2>1 DEF Straight, OneStorage
<1>4. c = Tip /\ AllCatalogs \subseteq sources
  BY <1>2, <1>3, FindsTheTip
<1>5. /\ \A k \in Signed : CatalogObject(k) \in Everything
      /\ Tip # 0 => TipFiles \subseteq Everything
      /\ AllOrNone(old) /\ AllOrNone(net)
  BY <1>2, <1>3, StraightWhenIdle
<1>6. Tip \in Nat /\ Signed = 1..Tip /\ Tip # 0 /\ Tip \in Signed /\ checkpoint \in Signed
  <2>1. c \in DOMAIN catalogs /\ DOMAIN catalogs = 1..Tip
    BY DEF Discovered, Stored, IInv, SignedOnesOK, Tip
  <2>2. checkpoint \in Signed
    BY DEF IInv, StoredOK
  <2> QED
    BY <1>4, <2>1, <2>2, TipIs
<1>7. /\ Tip' = Tip /\ Signed' = Signed /\ TipFiles' = TipFiles
      /\ \A k : CatalogObject(k)' = CatalogObject(k)
      /\ AllCatalogs' = AllCatalogs /\ OneLine'
  BY <1>2, SameLine DEF IInv, Straight
<1>8. /\ Everything' = Everything /\ state' = state /\ kit' = kit /\ copies' = copies
      /\ disk' = disk /\ net' = net /\ old' = old /\ connected' = connected
      /\ replaced' = replaced
  BY <1>2 DEF Everything, Everything, Untouched
<1>9. /\ w.do = "restore" /\ w.what.objects = Wanted(c) /\ w.what.sources = sources
      /\ a.do = "secrets" /\ b.do = "kit" /\ b.what = checkpoint
      /\ d.do = "save" /\ d.what = Tip /\ e.do = "kit" /\ e.what = Tip
  BY <1>1, <1>4 DEF Write
<1>10. /\ Len(job') = 5 /\ job' # <<>>
       /\ job'[1] = w /\ job'[2] = a /\ job'[3] = b /\ job'[4] = d /\ job'[5] = e
  BY <1>2
<1>11. \A i \in 1..5 : i = 1 \/ i = 2 \/ i = 3 \/ i = 4 \/ i = 5
  OBVIOUS
<1>12. \A i \in 1..5 : /\ job'[i].do \notin {"put", "sweep"}
                       /\ job'[i].do = "restore" => i = 1
                       /\ job'[i].do = "save" => job'[i].what = Tip
                       /\ job'[i].do = "kit" => job'[i].what \in Signed
  BY <1>6, <1>9, <1>10, <1>11
<1>13. SavesTheTip' /\ SweepsSpare'
  BY <1>2, <1>7, <1>8, <1>10, <1>12 DEF SavesTheTip, SweepsSpare
<1>14. CatalogsStored' /\ FilesStored'
  BY <1>5, <1>6, <1>7, <1>8, <1>10, <1>12 DEF CatalogsStored, FilesStored, Has
<1>15. KitsStored'
  <2>1. \A k \in kit \cup copies : CatalogObject(k) \in Everything
    BY DEF Straight, KitsStored
  <2> QED
    BY <1>5, <1>7, <1>8, <1>10, <1>12, <2>1 DEF KitsStored, Has
<1>16. OneStorage'
  BY <1>3, <1>8 DEF OneStorage
<1>17. Copies'
  <2>1. AllCatalogs \subseteq Wanted(c)
    BY <1>4, <1>6 DEF AllCatalogs, Wanted, ChainObjects, Straight, OneLine
  <2>2. AllOrNone(old)' /\ AllOrNone(net)'
    BY <1>5, <1>7, <1>8 DEF AllOrNone, Without
  <2>3. job'[1].what.sources = sources /\ job'[1].what.objects = Wanted(c)
    BY <1>9, <1>10
  <2> QED
    BY <1>2, <1>4, <1>7, <1>8, <1>10, <1>12, <2>1, <2>2, <2>3 DEF Copies
<1> QED
  BY <1>7, <1>13, <1>14, <1>15, <1>16, <1>17 DEF Straight


LEMMA StraightOthers ==
  ASSUME IInv, Straight, CopyKit \/ Connect \/ Replace
                               \/ Tomorrow
  PROVE  Straight'
<1>1. catalogs' = catalogs /\ job = <<>> /\ job' = <<>> /\ HistoriesOK
  BY DEF CopyKit, Connect, Replace, Tomorrow,
         Idle, IInv
<1>2. /\ \A c \in Signed : CatalogObject(c) \in Everything
      /\ Tip # 0 => TipFiles \subseteq Everything
      /\ state # 0 => state = Tip
      /\ AllCatalogs \subseteq Everything
      /\ replaced /\ state = 0 => AllOrNone(old) /\ AllOrNone(net)
      /\ Tip \in Nat /\ Signed = 1..Tip
  BY <1>1, StraightWhenIdle, TipIs
<1>3. /\ Tip' = Tip /\ Signed' = Signed /\ TipFiles' = TipFiles
      /\ \A c : CatalogObject(c)' = CatalogObject(c)
      /\ AllCatalogs' = AllCatalogs /\ OneLine'
  BY <1>1, SameLine DEF Straight
<1>4. /\ \A c \in kit \cup copies : CatalogObject(c) \in Everything
      /\ ~replaced => /\ old = {} /\ (state = 0 => copies = {})
                      /\ IF made THEN Without(disk) ELSE Without(net)
  BY DEF Straight, KitsStored, OneStorage
<1>5. Everything' = Everything /\ (state' = 0 \/ state' = state)
      /\ kit' \cup copies' \subseteq kit \cup copies
  BY <1>4 DEF Everything, Everything, CopyKit, Connect,
              Replace, Tomorrow
<1>6. Len(job') = 0 /\ \A i : i \notin 1..0
  BY <1>1
<1>7. SavesTheTip' /\ SweepsSpare'
  BY <1>2, <1>3, <1>5, <1>6 DEF SavesTheTip, SweepsSpare
<1>8. CatalogsStored' /\ FilesStored'
  <2>1. Tip > 1 => Tip \in Signed
    BY <1>2
  <2> QED
    BY <1>2, <1>3, <1>5, <1>6, <2>1 DEF CatalogsStored, FilesStored, Has
<1>9. KitsStored'
  BY <1>3, <1>4, <1>5, <1>6 DEF KitsStored
<1>10. ~Restoring'
  BY <1>1 DEF Restoring
<1>11. OneStorage' /\ Copies'
  <2>1. CASE Replace
    <3>1. ~replaced /\ replaced' = TRUE /\ old' = disk /\ net' = net /\ old = {}
      BY <1>4, <2>1 DEF Replace
    <3>2. AllCatalogs \subseteq disk \cup net
      BY <1>2, <3>1 DEF Everything, Everything
    <3>3. \A k \in AllCatalogs : k \in disk => ~Without(disk)
      BY DEF AllCatalogs, Without
    <3>4. \A k \in AllCatalogs : k \in net => ~Without(net)
      BY DEF AllCatalogs, Without
    <3>5. AllOrNone(disk) /\ AllOrNone(net)
      BY <1>4, <3>1, <3>2, <3>3, <3>4 DEF AllOrNone
    <3>6. AllOrNone(old)' /\ AllOrNone(net)'
      BY <1>3, <3>1, <3>5 DEF AllOrNone, Without
    <3> QED
      BY <1>6, <1>10, <3>1, <3>6 DEF OneStorage, Copies
  <2>2. CASE CopyKit \/ Connect \/ Tomorrow
    <3>1. /\ disk' = disk /\ net' = net /\ old' = old /\ made' = made /\ state' = state
          /\ replaced' = replaced /\ (state = 0 => copies' = copies)
      BY <2>2 DEF CopyKit, Connect, Tomorrow
    <3>2. OneStorage'
      BY <1>1, <1>3, <1>4, <3>1 DEF OneStorage, Without
    <3>3. replaced' /\ state' = 0 => AllOrNone(old)' /\ AllOrNone(net)'
      BY <1>2, <1>3, <3>1 DEF AllOrNone, Without
    <3> QED
      BY <1>6, <1>10, <3>2, <3>3 DEF Copies
  <2> QED
    BY <2>1, <2>2
<1> QED
  BY <1>3, <1>7, <1>8, <1>9, <1>11 DEF Straight

LEMMA StraightMoves ==
  ASSUME IInv, IInv', stops = 0 => Straight, Next, stops' = 0
  PROVE  Straight'
<1>1. Stop => stops' # 0
  BY DEF Stop, IInv, StoredOK
<1>2. ~Stop /\ stops = 0
  <2>1. ~Stop => stops' = stops
    BY DEF Next, Create, Add, Delete,
           CollectExpired, CollectOrphans, CopyKit,
           Connect, Import, Work, Replace,
           Tomorrow
  <2> QED
    BY <1>1, <2>1
<1>3. Straight
  BY <1>2
<1>4. CASE Work
  <2>1. Fixed
    BY <1>4 DEF Work, Fixed
  <2> QED
    BY <1>3, <1>4, <2>1, StraightPut, StraightRestore, StraightSays, StraightSweep
    DEF Work
<1>5. CASE \E checkpoint \in copies, sources \in Sources :
             \E c \in Discovered(checkpoint, sources) :
               Import(checkpoint, sources, c)
  BY <1>3, <1>5, StraightImport
<1>6. CASE \/ Create \/ Add \/ Delete \/ CollectExpired
  BY <1>3, <1>6, StraightCommands
<1>7. CASE CollectOrphans
  BY <1>3, <1>7, StraightOrphans
<1>8. CASE CopyKit \/ Connect \/ Replace \/ Tomorrow
  BY <1>3, <1>8, StraightOthers
<1> QED
  BY <1>2, <1>4, <1>5, <1>6, <1>7, <1>8 DEF Next

LEMMA StraightInitially ==
  ASSUME Init
  PROVE  Straight
<1>1. /\ Len(catalogs) = 0 /\ job = <<>> /\ state = 0 /\ kit = {} /\ copies = {}
      /\ replaced = FALSE /\ old = {} /\ Len(job) = 0 /\ \A i : i \notin 1..0
  BY DEF Init
<1>2. Tip = 0 /\ Signed = {}
  BY <1>1 DEF Tip, Signed
<1>3. OneLine /\ SavesTheTip /\ CatalogsStored /\ FilesStored /\ SweepsSpare /\ KitsStored
  BY <1>1, <1>2
  DEF OneLine, SavesTheTip, CatalogsStored, FilesStored, SweepsSpare, KitsStored
<1>4. OneStorage /\ Copies
  BY <1>1, <1>2 DEF OneStorage, Copies, Restoring, Without
<1> QED
  BY <1>3, <1>4 DEF Straight

\* What the invariant says to the holder of a kit.
LEMMA StraightFinds ==
  ASSUME IInv, stops = 0 => Straight
  PROVE  KitsFindTheLatest
<1>1. SUFFICES ASSUME stops = 0, NEW checkpoint \in copies \cup kit
               PROVE  \E c \in Catalog :
                        /\ Discovered(checkpoint, Everything) = {c}
                        /\ Wanted(c) \subseteq Everything
                        /\ Idle => c = Len(catalogs)
  BY DEF KitsFindTheLatest, Kits, Everything
<1>2. Straight /\ Tip \in Nat /\ Signed = 1..Tip /\ DOMAIN catalogs = 1..Tip
      /\ SignedOnesOK /\ HistoriesOK
  BY <1>1, TipIs DEF IInv, SignedOnesOK, Tip
<1>3. checkpoint \in 1..Tip /\ CatalogObject(checkpoint) \in Everything
  BY <1>2 DEF Straight, KitsStored, IInv, StoredOK
<1>4. PICK m : m = IF CatalogObject(Tip) \in Everything THEN Tip ELSE Tip - 1
  OBVIOUS
<1>5. m \in 1..Tip /\ m \in Nat /\ checkpoint \in 1..m
  BY <1>2, <1>3, <1>4
<1>6. Stored(Everything) = 1..m
  <2>1. \A c \in 1..Tip : c # Tip => CatalogObject(c) \in Everything
    BY <1>2 DEF Straight, CatalogsStored
  <2>2. \A c \in 1..Tip : CatalogObject(c) \in Everything <=> c \in 1..m
    BY <1>2, <1>4, <2>1
  <2>3. 1..m \subseteq 1..Tip
    BY <1>2, <1>5
  <2> QED
    BY <1>2, <2>2, <2>3 DEF Stored
<1>7. /\ Chain(0) = {}
      /\ \A c \in 1..Tip : /\ catalogs[c].version = c /\ catalogs[c].previous = c - 1
                           /\ Chain(c) = 1..c
  BY <1>2, ChainValues DEF Straight, OneLine
<1>8. \A c \in 1..m : c \in 1..Tip /\ Chain(c) = 1..c /\ 1..c \subseteq 1..m
  BY <1>2, <1>5, <1>7
<1>9. Discovered(checkpoint, Everything) = {m}
  <2>1. \A c \in 1..m : Heirs(c, Everything) = {d \in 1..m : d = c + 1}
    BY <1>6, <1>7, <1>8 DEF Heirs, Version
  <2>2. m \in Discovered(checkpoint, Everything)
    <3>1. m \in 1..m /\ checkpoint \in Chain(m)
      BY <1>5, <1>8
    <3>2. Chain(m) \subseteq Stored(Everything)
      BY <1>6, <1>8, <3>1
    <3>3. Heirs(m, Everything) = {}
      BY <1>5, <2>1, <3>1
    <3> QED
      BY <1>6, <3>1, <3>2, <3>3 DEF Discovered
  <2>3. ASSUME NEW c \in Discovered(checkpoint, Everything), c # m
        PROVE  FALSE
    <3>1. c \in 1..m /\ c + 1 \in 1..m
      BY <1>5, <1>6, <2>3 DEF Discovered
    <3>2. Heirs(c, Everything) = {c + 1}
      BY <2>1, <3>1
    <3>3. catalogs[c + 1].previous = c
      <4>1. c + 1 \in 1..Tip /\ (c + 1) - 1 = c
        BY <1>8, <3>1
      <4> QED
        BY <1>7, <4>1
    <3> QED
      BY <2>3, <3>2, <3>3 DEF Discovered
  <2> QED
    BY <2>2, <2>3
<1>10. Wanted(m) \subseteq Everything
  <2>1. \A c \in 1..m : CatalogObject(c) \in Everything
    BY <1>6 DEF Stored
  <2>2. ChainObjects(m) \subseteq Everything
    BY <1>5, <1>7, <2>1 DEF ChainObjects
  <2>3. FileObjects(Files(m)) \subseteq Everything
    <3>1. CASE m = Tip
      BY <1>2, <1>5, <2>1, <3>1 DEF Straight, FilesStored, TipFiles
    <3>2. CASE m # Tip
      <4>1. m = Tip - 1 /\ CatalogObject(Tip) \notin Everything /\ Tip > 1
        BY <1>2, <1>4, <1>5, <3>2
      <4> QED
        BY <1>2, <4>1 DEF Straight, FilesStored
    <3> QED
      BY <3>1, <3>2
  <2> QED
    BY <2>2, <2>3 DEF Wanted
<1>11. Idle => m = Len(catalogs)
  <2>1. SUFFICES ASSUME job = <<>>
                 PROVE  CatalogObject(Tip) \in Everything
    BY <1>4 DEF Idle, Tip
  <2>2. Tip \in Signed
    BY <1>2, <1>5
  <2> QED
    BY <1>2, <2>1, <2>2, StraightWhenIdle
<1>12. m \in Catalog
  BY <1>5 DEF Catalog, Tip
<1> QED
  BY <1>9, <1>10, <1>11, <1>12

LEMMA StraightRests ==
  ASSUME IInv, Straight, UNCHANGED vars
  PROVE  Straight'
<1>1. /\ catalogs' = catalogs /\ job' = job /\ made' = made /\ state' = state
      /\ disk' = disk /\ net' = net /\ old' = old /\ kit' = kit /\ copies' = copies
      /\ connected' = connected /\ replaced' = replaced
  BY DEF vars
<1>2. /\ OneLine /\ SavesTheTip /\ CatalogsStored /\ FilesStored /\ SweepsSpare
      /\ KitsStored /\ OneStorage /\ Copies /\ HistoriesOK
  BY DEF Straight, IInv
<1>3. /\ Tip' = Tip /\ Signed' = Signed /\ AllCatalogs' = AllCatalogs
      /\ TipFiles' = TipFiles /\ OneLine'
      /\ \A c : Files(c)' = Files(c) /\ CatalogObject(c)' = CatalogObject(c)
      /\ \A files : FileObjects(files)' = FileObjects(files)
  BY <1>1, <1>2, SameLine
<1>4. /\ Everything' = Everything /\ Readable' = Readable
      /\ \A w : Puts(w)' = Puts(w)
  BY <1>1 DEF Everything, Readable, Puts
<1>5. \A i, o : Has(i, o)' = Has(i, o)
  BY <1>1, <1>4 DEF Has
<1>6. SavesTheTip' /\ SweepsSpare' /\ KitsStored' /\ CatalogsStored'
  BY <1>1, <1>2, <1>3, <1>4, <1>5
  DEF SavesTheTip, SweepsSpare, KitsStored, CatalogsStored
<1>7. FilesStored'
  <2>1. FileObjects(Files(Tip - 1))' = FileObjects(Files(Tip - 1))
    BY <1>1 DEF FileObjects, Manifest, Chunk, Files, Tip
  <2> QED
    BY <1>1, <1>2, <1>3, <1>4, <1>5, <2>1 DEF FilesStored
<1>8. OneStorage' /\ Copies'
  BY <1>1, <1>2, <1>3, <1>4
  DEF OneStorage, Copies, Without, AllOrNone, Restoring
<1> QED
  BY <1>3, <1>6, <1>7, <1>8 DEF Straight

-----------------------------------------------------------------------------
(***************************************************************************)
(* The first device: it writes to one storage, links what it saves to what *)
(* it had, and its kits name what it saved.                                *)
(***************************************************************************)
Saving == \E i \in 1..Len(job) : job[i].do = "save"

Apart ==
  /\ old = {} /\ IF made THEN disk = {} ELSE net = {}
  /\ catalogs = <<>> => disk = {} /\ net = {}
  /\ job # <<>> => connected = made /\ catalogs # <<>>

Writing ==
  \A i \in 1..Len(job) :
    /\ job[i].do # "restore"
    /\ job[i].do = "save" =>
         /\ \A j \in 1..Len(job) : job[j].do = "save" => j = i
         /\ catalogs[job[i].what].previous = state
    /\ job[i].do = "kit" =>
         IF Saving
         THEN \E j \in 1..i - 1 : job[j].do = "save" /\ job[j].what = job[i].what
         ELSE job[i].what = state

FirstDevice == Apart /\ Writing /\ Kits \subseteq Chain(state)

\* A command whose first write is made has the others to write.
LEMMA Rest ==
  ASSUME IInv, job # <<>>, job' = Tail(job), NEW n, n = Len(job)
  PROVE  /\ n \in Nat \ {0} /\ job[1] \in Writes /\ Len(job') = n - 1 /\ 1 \in 1..n
         /\ \A i \in 1..n - 1 : job'[i] = job[i + 1] /\ i + 1 \in 1..n
         /\ \A i \in 1..n : i = 1 \/ (i - 1 \in 1..n - 1 /\ job'[i - 1] = job[i])
BY TheRest DEF IInv

LEMMA WritingGoesOn ==
  ASSUME IInv, Writing, Fixed, job # <<>>, job' = Tail(job), NEW w, w = job[1],
         state' = IF w.do = "save" THEN w.what ELSE state
  PROVE  Writing'
<1>0. PICK n : n = Len(job)
  OBVIOUS
<1>1. /\ n \in Nat \ {0} /\ Len(job') = n - 1 /\ 1 \in 1..n
      /\ \A i \in 1..n - 1 : job'[i] = job[i + 1] /\ i + 1 \in 1..n
      /\ \A i \in 1..n : i = 1 \/ (i - 1 \in 1..n - 1 /\ job'[i - 1] = job[i])
  BY <1>0, Rest
<1>2. catalogs' = catalogs
  BY FixedKeeps
<1>3. \A i \in 1..n :
        /\ job[i].do # "restore"
        /\ job[i].do = "save" =>
             /\ \A j \in 1..n : job[j].do = "save" => j = i
             /\ catalogs[job[i].what].previous = state
        /\ job[i].do = "kit" =>
             IF Saving
             THEN \E j \in 1..i - 1 : job[j].do = "save" /\ job[j].what = job[i].what
             ELSE job[i].what = state
  BY <1>0 DEF Writing
<1>4. Saving <=> \E i \in 1..n : job[i].do = "save"
  BY <1>0 DEF Saving
<1>5. Saving' <=> \E i \in 1..n - 1 : job'[i].do = "save"
  BY <1>1 DEF Saving
<1>6. ASSUME w.do = "save"
      PROVE  ~Saving'
  <2>1. SUFFICES ASSUME NEW i \in 1..n - 1, job'[i].do = "save"
                 PROVE  FALSE
    BY <1>5
  <2>2. i + 1 \in 1..n /\ job[i + 1].do = "save" /\ i + 1 # 1
    BY <1>1, <2>1
  <2> QED
    BY <1>1, <1>3, <1>6, <2>2
<1>7. ASSUME NEW i \in 1..n - 1, job'[i].do = "save"
      PROVE  /\ \A j \in 1..n - 1 : job'[j].do = "save" => j = i
             /\ catalogs'[job'[i].what].previous = state'
  <2>1. i + 1 \in 1..n /\ job[i + 1] = job'[i]
    BY <1>1, <1>7
  <2>2. w.do # "save"
    BY <1>5, <1>6, <1>7
  <2>3. \A j \in 1..n - 1 : job'[j].do = "save" => j + 1 = i + 1
    BY <1>1, <1>3, <1>7, <2>1
  <2>4. catalogs[job[i + 1].what].previous = state
    BY <1>3, <1>7, <2>1
  <2>5. state' = state
    BY <2>2
  <2>6. \A j \in 1..n - 1 : job'[j].do = "save" => j = i
    <3>1. i \in Nat /\ \A j \in 1..n - 1 : j \in Nat /\ (j + 1 = i + 1 => j = i)
      OBVIOUS
    <3> QED
      BY <2>3, <3>1, Zenon
  <2> QED
    BY <1>2, <2>1, <2>4, <2>5, <2>6, Zenon
<1>8. ASSUME NEW i \in 1..n - 1, job'[i].do = "kit"
      PROVE  IF Saving'
             THEN \E j \in 1..i - 1 : job'[j].do = "save" /\ job'[j].what = job'[i].what
             ELSE job'[i].what = state'
  <2>1. i + 1 \in 1..n /\ job[i + 1] = job'[i]
    BY <1>1, <1>8
  <2>2. CASE Saving
    <3>1. PICK j \in 1..(i + 1) - 1 : job[j].do = "save" /\ job[j].what = job[i + 1].what
      BY <1>3, <1>8, <2>1, <2>2
    <3>2. CASE j = 1
      BY <1>6, <2>1, <3>1, <3>2
    <3>3. CASE j # 1
      <4>1. j - 1 \in 1..i - 1 /\ j - 1 \in 1..n - 1 /\ job'[j - 1] = job[j]
        BY <1>1, <3>1, <3>3
      <4>2. Saving'
        BY <1>5, <3>1, <4>1
      <4> QED
        BY <2>1, <3>1, <4>1, <4>2
    <3> QED
      BY <3>2, <3>3
  <2>3. CASE ~Saving
    <3>1. ~Saving' /\ w.do # "save"
      BY <1>1, <1>4, <1>5, <2>3
    <3> QED
      BY <1>3, <1>8, <2>1, <2>3, <3>1
  <2> QED
    BY <2>2, <2>3
<1>9. \A i \in 1..n - 1 : job'[i].do # "restore"
  BY <1>1, <1>3
<1> QED
  BY <1>1, <1>7, <1>8, <1>9 DEF Writing

\* A catalog that the device saves goes on from the one it had, and the kit
\* names the one it has.
LEMMA KitsGoOn ==
  ASSUME IInv, FirstDevice, Fixed, job # <<>>, NEW w, w = job[1],
         state' = IF w.do = "save" THEN w.what ELSE state,
         kit' = IF w.do = "kit" THEN {w.what} ELSE kit
  PROVE  (Kits \subseteq Chain(state))'
<1>1. w \in Writes /\ 1 \in 1..Len(job) /\ \A j : j \notin 1..1 - 1
  BY TheRest DEF IInv
<1>2. SignedOnesOK /\ HistoriesOK /\ catalogs' = catalogs /\ copies' = copies
  BY FixedKeeps DEF IInv
<1>3. \A c : Chain(c)' = Chain(c)
  BY <1>2, SameHistories
<1>4. Kits \subseteq Chain(state)
  BY DEF FirstDevice
<1>5. \A c \in Signed : Chain(c) = {c} \cup Chain(catalogs[c].previous)
  BY <1>2, ChainValues
<1>6. CASE w.do = "save"
  <2>1. w.what \in Signed /\ catalogs[w.what].previous = state
    BY <1>1, <1>6, WriteFields DEF FirstDevice, Writing
  <2>2. Chain(state) \subseteq Chain(w.what)
    BY <1>5, <2>1
  <2>3. Chain(state)' = Chain(w.what)
    <3>1. PICK c : c = state'
      OBVIOUS
    <3>2. c = w.what
      BY <1>6, <3>1
    <3>3. History' = History
      BY <1>2 DEF History
    <3> QED
      BY <3>1, <3>2, <3>3 DEF Chain
  <2>4. kit' = kit
    BY <1>6
  <2> QED
    BY <1>2, <1>4, <2>2, <2>3, <2>4 DEF Kits
<1>7. CASE w.do # "save"
  <2>1. state' = state
    BY <1>7
  <2>2. Chain(state)' = Chain(state)
    <3>1. History' = History
      BY <1>2 DEF History
    <3> QED
      BY <2>1, <3>1 DEF Chain
  <2>3. w.do = "kit" => w.what \in Chain(state)
    <3>1. SUFFICES ASSUME w.do = "kit"
                   PROVE  w.what \in Chain(state)
      OBVIOUS
    <3>2. w.what = state
      BY <1>1, <3>1 DEF FirstDevice, Writing
    <3>3. w.what \in Signed
      BY <1>1, <3>1, WriteFields
    <3> QED
      BY <1>5, <3>2, <3>3
  <2> QED
    BY <1>2, <1>4, <2>2, <2>3 DEF Kits
<1> QED
  BY <1>6, <1>7

LEMMA FirstDeviceWrites ==
  ASSUME IInv, FirstDevice, Work
  PROVE  FirstDevice'
<1>1. Fixed /\ ~Idle
  BY DEF Work, Fixed, Put, Restore, SaveSecrets, SaveState, RefreshKit, Sweep
<1>2. PICK w : w = job[1] /\ w \in Writes /\ Step = w
  BY <1>1, FirstWrite
<1>3. job # <<>> /\ (Done <=> job' = Tail(job)) /\ 1 \in 1..Len(job)
  BY <1>1, FirstWrite
<1>4. w.do # "restore"
  BY <1>2, <1>3 DEF FirstDevice, Writing
<1>5. /\ catalogs' = catalogs /\ old' = old /\ connected' = connected /\ made' = made
      /\ copies' = copies
  BY <1>1, FixedKeeps
<1>6. /\ state' = IF w.do = "save" THEN w.what ELSE state
      /\ kit' = IF w.do = "kit" THEN {w.what} ELSE kit
  BY <1>2, <1>4 DEF Work, Put, Restore, SaveSecrets, SaveState, RefreshKit, Sweep
<1>7. Apart'
  <2>1. /\ old = {} /\ IF made THEN disk = {} ELSE net = {}
        /\ connected = made /\ catalogs # <<>>
    BY <1>3 DEF FirstDevice, Apart
  <2>2. IF connected THEN disk' \subseteq disk ELSE net' \subseteq net
    <3>1. CASE Put
      BY <3>1 DEF Put, Store
    <3>2. CASE SaveSecrets \/ SaveState \/ RefreshKit \/ Sweep
      BY <3>2 DEF SaveSecrets, SaveState, RefreshKit, Sweep
    <3> QED
      BY <1>2, <1>4, <3>1, <3>2 DEF Work, Restore
  <2>3. IF made THEN disk' = {} ELSE net' = {}
    BY <2>1, <2>2
  <2> QED
    BY <1>5, <2>1, <2>3 DEF Apart
<1>8. Writing'
  <2>1. CASE job' = Tail(job)
    BY <1>1, <1>2, <1>3, <1>6, <2>1, WritingGoesOn DEF FirstDevice
  <2>2. CASE job' = job /\ w.do = "sweep"
    <3>1. state' = state /\ catalogs' = catalogs /\ job' = job
      BY <1>5, <1>6, <2>2
    <3> QED
      BY <3>1 DEF FirstDevice, Writing, Saving
  <2>3. job' = Tail(job) \/ (job' = job /\ w.do = "sweep")
    BY <1>2, <1>3, <1>4 DEF Work, Put, Restore, SaveSecrets, SaveState, RefreshKit, Sweep
  <2> QED
    BY <2>1, <2>2, <2>3
<1>9. (Kits \subseteq Chain(state))'
  BY <1>1, <1>2, <1>3, <1>6, KitsGoOn
<1> QED
  BY <1>7, <1>8, <1>9 DEF FirstDevice

\* A command that signs catalog n: what it writes, and in which order.
Ordered(n) ==
  /\ job # <<>> /\ Saving
  /\ \A i \in 1..Len(job) :
       /\ job[i].do # "restore"
       /\ job[i].do = "put" /\ job[i].what[1] = "catalog" => job[i].what = CatalogObject(n)
       /\ job[i].do = "save" =>
            job[i].what = n /\ \A j \in 1..Len(job) : job[j].do = "save" => j = i
       /\ job[i].do = "kit" =>
            \E j \in 1..i - 1 : job[j].do = "save" /\ job[j].what = job[i].what

\* What it stores before it ends, if the files that it goes on from are stored,
\* and what it spares.
Brought(n, files) ==
  \A o \in {CatalogObject(n)} \cup FileObjects(files) : Has(Len(job) + 1, o)
Spared(n, c, files) ==
  \A i \in 1..Len(job) : job[i].do = "sweep" =>
    job[i].what = {CatalogObject(n)} \cup ChainObjects(c) \cup FileObjects(files)

\* The command goes on from the saved catalog, or is the first.
GoesOn(n, r) ==
  /\ r.previous = state
  /\ \/ state \in 1..n /\ r.version = Version(state) + 1 /\ made' = made /\ CanOpen
     \/ state = 0 /\ n = 0 /\ made' = connected
Signs(n, r) ==
  /\ job = <<>> /\ catalogs' = Append(catalogs, r) /\ GoesOn(n, r) /\ Untouched
  /\ Ordered(n + 1)' /\ Spared(n + 1, state, r.files)'
  /\ state # 0 /\ FileObjects(Files(state)) \subseteq Everything =>
       Brought(n + 1, r.files)'

LEMMA OrderedIs ==
  ASSUME NEW n \in Nat, NEW c, NEW d, NEW e, NEW a, NEW b,
         c = Write("put", CatalogObject(n)), d = Write("save", n), e = Write("kit", n),
         \/ job' = <<c, d, e>>
         \/ job' = <<a>> \o <<c, d, e>> /\ a.do = "secrets"
         \/ job' = Append(<<c, d, e>>, a) /\ a.do = "sweep"
         \/ /\ job' = <<a, b>> \o <<c, d, e>> /\ a.do = "put" /\ b.do = "put"
            /\ a.what[1] # "catalog" /\ b.what[1] # "catalog"
  PROVE  Ordered(n)'
<1>1. /\ c.do = "put" /\ c.what = CatalogObject(n) /\ d.do = "save" /\ d.what = n
      /\ e.do = "kit" /\ e.what = n
  BY DEF Write
<1>2. CatalogObject(n)' = CatalogObject(n)
  BY DEF CatalogObject
<1>3. ASSUME job' = <<c, d, e>>
      PROVE  Ordered(n)'
  <2>1. /\ Len(job') = 3 /\ job' # <<>> /\ job'[1] = c /\ job'[2] = d /\ job'[3] = e
        /\ \A i \in 1..3 : i = 1 \/ i = 2 \/ i = 3
        /\ 2 \in 1..3 /\ 2 \in 1..3 - 1
    BY <1>3
  <2> QED
    BY <1>1, <1>2, <2>1 DEF Ordered, Saving
<1>4. ASSUME job' = <<a>> \o <<c, d, e>>, a.do = "secrets"
      PROVE  Ordered(n)'
  <2>1. /\ Len(job') = 4 /\ job' # <<>> /\ job'[1] = a
        /\ job'[2] = c /\ job'[3] = d /\ job'[4] = e
        /\ \A i \in 1..4 : i = 1 \/ i = 2 \/ i = 3 \/ i = 4
        /\ 3 \in 1..4 /\ 3 \in 1..4 - 1
    BY <1>4
  <2> QED
    BY <1>1, <1>2, <1>4, <2>1 DEF Ordered, Saving
<1>5. ASSUME job' = Append(<<c, d, e>>, a), a.do = "sweep"
      PROVE  Ordered(n)'
  <2>1. /\ Len(job') = 4 /\ job' # <<>> /\ job'[4] = a
        /\ job'[1] = c /\ job'[2] = d /\ job'[3] = e
        /\ \A i \in 1..4 : i = 1 \/ i = 2 \/ i = 3 \/ i = 4
        /\ 2 \in 1..4 /\ 2 \in 1..3 - 1
    BY <1>5
  <2> QED
    BY <1>1, <1>2, <1>5, <2>1 DEF Ordered, Saving
<1>6. ASSUME job' = <<a, b>> \o <<c, d, e>>, a.do = "put", b.do = "put",
             a.what[1] # "catalog", b.what[1] # "catalog"
      PROVE  Ordered(n)'
  <2>1. /\ Len(job') = 5 /\ job' # <<>> /\ job'[1] = a /\ job'[2] = b
        /\ job'[3] = c /\ job'[4] = d /\ job'[5] = e
        /\ \A i \in 1..5 : i = 1 \/ i = 2 \/ i = 3 \/ i = 4 \/ i = 5
        /\ 4 \in 1..5 /\ 4 \in 1..5 - 1
    BY <1>6
  <2> QED
    BY <1>1, <1>2, <1>6, <2>1 DEF Ordered, Saving
<1> QED
  BY <1>3, <1>4, <1>5, <1>6

LEMMA CreateSigns ==
  ASSUME IInv, Create, NEW n \in Nat, n = Len(catalogs)
  PROVE  \E r : Signs(n, r)
<1>1. PICK r : r = [version |-> 1, previous |-> 0, files |-> {}]
  OBVIOUS
<1>2. PICK a, c, d, e :
        /\ a = Write("secrets", 0) /\ c = Write("put", CatalogObject(n + 1))
        /\ d = Write("save", n + 1) /\ e = Write("kit", n + 1)
  OBVIOUS
<1>3. /\ job = <<>> /\ catalogs = <<>> /\ catalogs' = <<r>> /\ state = 0
      /\ made' = connected /\ Untouched
  BY <1>1 DEF Create, Fresh, Untouched, Idle
<1>4. n = 0
  <2>1. Len(<<>>) = 0
    OBVIOUS
  <2> QED
    BY <1>3, <2>1
<1>5. job' = <<a>> \o <<c, d, e>>
  <2>1. Upcoming = n + 1
    BY DEF Upcoming
  <2>2. Publish = <<c, d, e>>
    BY <1>2, <2>1 DEF Publish
  <2> QED
    BY <1>2, <2>2 DEF Create
<1>6. Ordered(n + 1)'
  <2>1. a.do = "secrets"
    BY <1>2 DEF Write
  <2> QED
    BY <1>2, <1>5, <2>1, OrderedIs
<1>7. Spared(n + 1, state, r.files)'
  <2>1. /\ Len(job') = 4 /\ job'[1] = a /\ job'[2] = c /\ job'[3] = d /\ job'[4] = e
        /\ \A i \in 1..4 : i = 1 \/ i = 2 \/ i = 3 \/ i = 4
    BY <1>5
  <2>2. \A i \in 1..4 : job'[i].do # "sweep"
    BY <1>2, <2>1 DEF Write
  <2> QED
    BY <2>1, <2>2 DEF Spared
<1>8. catalogs' = Append(catalogs, r) /\ r.previous = 0
  BY <1>1, <1>3
<1>9. GoesOn(n, r)
  BY <1>3, <1>4, <1>8 DEF GoesOn
<1> QED
  BY <1>3, <1>6, <1>7, <1>8, <1>9, Zenon DEF Signs

LEMMA ChangeSigns ==
  ASSUME IInv, NEW n \in Nat, n = Len(catalogs), NEW files,
         CanSign, CanOpen, catalogs' = Append(catalogs, Successor(files)), Untouched,
         made' = made,
         Ordered(n + 1)', Spared(n + 1, state, files)',
         FileObjects(Files(state)) \subseteq Everything =>
           \A o \in FileObjects(files) : Has(Len(job) + 1, o)',
         Has(Len(job) + 1, CatalogObject(n + 1))'
  PROVE  \E r : Signs(n, r)
<1>1. PICK r : r = Successor(files)
  OBVIOUS
<1>2. r.version = Version(state) + 1 /\ r.previous = state /\ r.files = files
  BY <1>1 DEF Successor
<1>3. state \in 1..n /\ job = <<>>
  BY DEF IInv, StoredOK, CanOpen, CanSign, Idle
<1>4. FileObjects(Files(state)) \subseteq Everything => Brought(n + 1, files)'
  <2>1. CatalogObject(n + 1)' = CatalogObject(n + 1) /\ FileObjects(files)' = FileObjects(files)
    BY DEF CatalogObject, FileObjects, Manifest, Chunk
  <2> QED
    BY <2>1 DEF Brought
<1>5. Spared(n + 1, state, r.files)' /\ Brought(n + 1, r.files)' = Brought(n + 1, files)'
  BY <1>2 DEF Spared, Brought
<1> QED
  BY <1>1, <1>2, <1>3, <1>4, <1>5 DEF Signs, GoesOn

LEMMA AddSigns ==
  ASSUME IInv, Add, NEW n \in Nat, n = Len(catalogs)
  PROVE  \E r : Signs(n, r)
<1>1. PICK f : f = NewFile
  OBVIOUS
<1>2. PICK files : files = Files(state) \cup {[file |-> f, until |-> 0]}
  OBVIOUS
<1>3. PICK a, b, c, d, e :
        /\ a = Write("put", Chunk(f)) /\ b = Write("put", Manifest(f))
        /\ c = Write("put", CatalogObject(n + 1))
        /\ d = Write("save", n + 1) /\ e = Write("kit", n + 1)
  OBVIOUS
<1>4. /\ CanSign /\ CanOpen /\ catalogs' = Append(catalogs, Successor(files))
      /\ Untouched /\ made' = made
  BY <1>1, <1>2 DEF Add, Run, Untouched
<1>5. job' = <<a, b>> \o <<c, d, e>>
  <2>1. Publish = <<c, d, e>>
    BY <1>3 DEF Publish, Upcoming
  <2> QED
    BY <1>1, <1>3, <2>1 DEF Add, Run
<1>6. /\ Len(job') = 5 /\ job'[1] = a /\ job'[2] = b
      /\ job'[3] = c /\ job'[4] = d /\ job'[5] = e
      /\ \A i \in 1..5 : i = 1 \/ i = 2 \/ i = 3 \/ i = 4 \/ i = 5
      /\ 1 \in 1..(5 + 1) - 1 /\ 2 \in 1..(5 + 1) - 1 /\ 3 \in 1..(5 + 1) - 1
  BY <1>5
<1>7. /\ a.do = "put" /\ a.what[1] # "catalog" /\ b.do = "put" /\ b.what[1] # "catalog"
      /\ Chunk(f) \in Puts(a) /\ Manifest(f) \in Puts(b) /\ CatalogObject(n + 1) \in Puts(c)
      /\ c.do = "put" /\ d.do = "save" /\ e.do = "kit"
  BY <1>3 DEF Write, Chunk, Manifest, Puts
<1>8. Ordered(n + 1)'
  BY <1>3, <1>5, <1>7, OrderedIs
<1>9. Spared(n + 1, state, files)'
  <2>1. \A i \in 1..5 : job'[i].do # "sweep"
    BY <1>6, <1>7
  <2> QED
    BY <1>6, <2>1 DEF Spared
<1>10. \A o : Puts(o)' = Puts(o)
  BY DEF Puts
<1>11. Everything' = Everything
  BY <1>4 DEF Everything, Untouched
<1>12. ASSUME FileObjects(Files(state)) \subseteq Everything, NEW o \in FileObjects(files)
       PROVE  Has(Len(job) + 1, o)'
  <2>1. o \in FileObjects(Files(state)) \/ o = Chunk(f) \/ o = Manifest(f)
    BY <1>2, <1>12 DEF FileObjects
  <2> QED
    BY <1>6, <1>7, <1>10, <1>11, <1>12, <2>1 DEF Has
<1>13. Has(Len(job) + 1, CatalogObject(n + 1))'
  <2>1. CatalogObject(n + 1)' = CatalogObject(n + 1)
    BY DEF CatalogObject
  <2> QED
    BY <1>6, <1>7, <1>10, <2>1 DEF Has
<1> QED
  BY <1>4, <1>8, <1>9, <1>12, <1>13, ChangeSigns

LEMMA DeleteSigns ==
  ASSUME IInv, Delete, NEW n \in Nat, n = Len(catalogs)
  PROVE  \E r : Signs(n, r)
<1>1. PICK v \in Files(state) :
        Run((Files(state) \ {v}) \cup {[v EXCEPT !.until = day + Retention]}, Publish)
  BY DEF Delete
<1>2. PICK u : u = [v EXCEPT !.until = day + Retention]
  OBVIOUS
<1>3. PICK files : files = (Files(state) \ {v}) \cup {u}
  OBVIOUS
<1>4. PICK c, d, e :
        /\ c = Write("put", CatalogObject(n + 1))
        /\ d = Write("save", n + 1) /\ e = Write("kit", n + 1)
  OBVIOUS
<1>5. /\ CanSign /\ CanOpen /\ catalogs' = Append(catalogs, Successor(files))
      /\ Untouched /\ made' = made
  BY <1>1, <1>2, <1>3 DEF Delete, Run, Untouched
<1>6. job' = <<c, d, e>>
  BY <1>1, <1>4 DEF Run, Publish, Upcoming
<1>7. /\ Len(job') = 3 /\ job'[1] = c /\ job'[2] = d /\ job'[3] = e
      /\ \A i \in 1..3 : i = 1 \/ i = 2 \/ i = 3
      /\ 1 \in 1..(3 + 1) - 1
  BY <1>6
<1>8. Ordered(n + 1)'
  BY <1>4, <1>6, OrderedIs
<1>9. /\ CatalogObject(n + 1) \in Puts(c) /\ c.do = "put" /\ d.do = "save" /\ e.do = "kit"
      /\ Puts(c)' = Puts(c)
  BY <1>4 DEF Write, Puts
<1>10. Spared(n + 1, state, files)'
  <2>1. \A i \in 1..3 : job'[i].do # "sweep"
    BY <1>7, <1>9
  <2> QED
    BY <1>7, <2>1 DEF Spared
<1>11. ASSUME FileObjects(Files(state)) \subseteq Everything, NEW o \in FileObjects(files)
       PROVE  Has(Len(job) + 1, o)'
  <2>1. u.file = v.file
    <3>1. state \in 1..n
      BY <1>5 DEF IInv, StoredOK, CanOpen
    <3>2. v \in SignedEntry
      BY <1>1, <3>1, EntriesOf
    <3> QED
      BY <1>2, <3>2 DEF SignedEntry
  <2>2. \A x \in files : \E y \in Files(state) : y.file = x.file
    BY <1>1, <1>3, <2>1
  <2>3. o \in FileObjects(Files(state))
    BY <1>11, <2>2, Zenon DEF FileObjects
  <2>4. Everything' = Everything
    BY <1>5 DEF Everything, Untouched
  <2> QED
    BY <1>11, <2>3, <2>4 DEF Has
<1>12. Has(Len(job) + 1, CatalogObject(n + 1))'
  <2>1. CatalogObject(n + 1)' = CatalogObject(n + 1)
    BY DEF CatalogObject
  <2> QED
    BY <1>7, <1>9, <2>1 DEF Has
<1> QED
  BY <1>5, <1>8, <1>10, <1>11, <1>12, ChangeSigns

LEMMA CollectExpiredSigns ==
  ASSUME IInv, CollectExpired, NEW n \in Nat, n = Len(catalogs)
  PROVE  \E r : Signs(n, r)
<1>1. PICK files : files = Live(state)
  OBVIOUS
<1>2. PICK c, d, e, w :
        /\ c = Write("put", CatalogObject(n + 1))
        /\ d = Write("save", n + 1) /\ e = Write("kit", n + 1)
        /\ w = Write("sweep", {CatalogObject(n + 1)} \cup Retained(state))
  OBVIOUS
<1>3. /\ CanSign /\ CanOpen /\ catalogs' = Append(catalogs, Successor(files))
      /\ Untouched /\ made' = made
  BY <1>1 DEF CollectExpired, CanCollect, Run, Untouched
<1>4. job' = Append(<<c, d, e>>, w)
  <2>1. Publish = <<c, d, e>> /\ Upcoming = n + 1
    BY <1>2 DEF Publish, Upcoming
  <2> QED
    BY <1>2, <2>1 DEF CollectExpired, Run
<1>5. /\ Len(job') = 4 /\ job'[1] = c /\ job'[2] = d /\ job'[3] = e /\ job'[4] = w
      /\ \A i \in 1..4 : i = 1 \/ i = 2 \/ i = 3 \/ i = 4
      /\ 1 \in 1..(4 + 1) - 1
  BY <1>4
<1>6. /\ CatalogObject(n + 1) \in Puts(c) /\ c.do = "put" /\ d.do = "save" /\ e.do = "kit"
      /\ Puts(c)' = Puts(c)
      /\ w.do = "sweep" /\ w.what = {CatalogObject(n + 1)} \cup Retained(state)
  BY <1>2 DEF Write, Puts
<1>7. Ordered(n + 1)'
  <2>1. n + 1 \in Nat
    OBVIOUS
  <2>2. /\ c = Write("put", CatalogObject(n + 1))
        /\ d = Write("save", n + 1) /\ e = Write("kit", n + 1)
    BY <1>2
  <2>3. job' = Append(<<c, d, e>>, w) /\ w.do = "sweep"
    BY <1>4, <1>6
  <2> QED
    BY <2>1, <2>2, <2>3, OrderedIs, Zenon
<1>8. Spared(n + 1, state, files)'
  <2>1. /\ CatalogObject(n + 1)' = CatalogObject(n + 1)
        /\ FileObjects(files)' = FileObjects(files)
    BY DEF CatalogObject, FileObjects, Manifest, Chunk
  <2>2. ChainObjects(state)' = ChainObjects(state)
    <3>1. HistoriesOK /\ SignedOnesOK /\ state \in 0..n /\ state' = state
      BY <1>3 DEF IInv, StoredOK, Untouched
    <3>2. PICK r : r = Successor(files)
      OBVIOUS
    <3>3. r.previous \in 0..n
      BY <3>1, <3>2 DEF Successor
    <3>4. \A k \in 0..n : Chain(k)' = Chain(k)
      BY <1>3, <3>1, <3>2, <3>3, ChainsGrow
    <3>5. Chain(state)' = Chain(state)
      <4>1. PICK k : k = state
        OBVIOUS
      <4>2. Chain(k)' = Chain(k) /\ k = state'
        BY <3>1, <3>4, <4>1
      <4> QED
        BY <4>1, <4>2 DEF Chain
    <3> QED
      BY <3>5 DEF ChainObjects, CatalogObject
  <2>3. w.what = {CatalogObject(n + 1)} \cup ChainObjects(state) \cup FileObjects(files)
    BY <1>1, <1>6 DEF Retained
  <2> QED
    BY <1>5, <1>6, <2>1, <2>2, <2>3 DEF Spared
<1>9. Everything' = Everything
  BY <1>3 DEF Everything, Untouched
<1>10. ASSUME FileObjects(Files(state)) \subseteq Everything, NEW o \in FileObjects(files)
       PROVE  Has(Len(job) + 1, o)'
  <2>1. o \in FileObjects(Files(state))
    BY <1>1, <1>10 DEF FileObjects, Live
  <2> QED
    BY <1>9, <1>10, <2>1 DEF Has
<1>11. Has(Len(job) + 1, CatalogObject(n + 1))'
  <2>1. CatalogObject(n + 1)' = CatalogObject(n + 1)
    BY DEF CatalogObject
  <2> QED
    BY <1>5, <1>6, <2>1 DEF Has
<1> QED
  BY <1>3, <1>7, <1>8, <1>10, <1>11, ChangeSigns

LEMMA CommandsSign ==
  ASSUME IInv, Create \/ Add \/ Delete \/ CollectExpired, NEW n \in Nat, n = Len(catalogs)
  PROVE  \E r : Signs(n, r)
BY CreateSigns, AddSigns, DeleteSigns, CollectExpiredSigns

\* The device can open its vault in the storage in which it was made only.
LEMMA OpensWhereMade ==
  ASSUME IInv, Apart, CanOpen
  PROVE  connected = made
BY DEF IInv, StoredOK, Apart, CanOpen, Readable

LEMMA OneMore ==
  ASSUME IInv, NEW n \in Nat, n = Len(catalogs), NEW r, catalogs' = Append(catalogs, r)
  PROVE  /\ Len(catalogs') = n + 1 /\ catalogs'[n + 1] = r
         /\ \A c \in 1..n : catalogs'[c] = catalogs[c]
BY DEF IInv, SignedOnesOK

LEMMA FirstDeviceSigns ==
  ASSUME IInv, FirstDevice, NEW n \in Nat, n = Len(catalogs), NEW r, Signs(n, r)
  PROVE  FirstDevice'
<1>1. /\ catalogs' = Append(catalogs, r) /\ r.previous = state /\ Ordered(n + 1)'
      /\ state \in 0..n /\ job = <<>>
  BY DEF Signs, GoesOn
<1>2. /\ disk' = disk /\ net' = net /\ old' = old /\ connected' = connected
      /\ state' = state /\ kit' = kit /\ copies' = copies
  BY DEF Signs, Untouched
<1>3. /\ Len(catalogs') = n + 1 /\ catalogs'[n + 1] = r /\ catalogs' # <<>>
      /\ catalogs = <<>> <=> n = 0
  BY <1>1 DEF IInv, SignedOnesOK
<1>4. Apart'
  <2>1. /\ old = {} /\ IF made THEN disk = {} ELSE net = {}
        /\ n = 0 => disk = {} /\ net = {}
    BY <1>3 DEF FirstDevice, Apart
  <2>2. \/ made' = made /\ connected = made
        \/ n = 0 /\ made' = connected
    BY OpensWhereMade DEF Signs, GoesOn, FirstDevice
  <2>3. connected' = made' /\ IF made' THEN disk' = {} ELSE net' = {}
    BY <1>2, <2>1, <2>2
  <2> QED
    BY <1>2, <1>3, <2>1, <2>3 DEF Apart
<1>5. Writing'
  <2>1. /\ Saving'
        /\ \A i \in 1..Len(job') :
             /\ job'[i].do # "restore"
             /\ job'[i].do = "save" =>
                  job'[i].what = n + 1 /\ \A j \in 1..Len(job') : job'[j].do = "save" => j = i
             /\ job'[i].do = "kit" =>
                  \E j \in 1..i - 1 : job'[j].do = "save" /\ job'[j].what = job'[i].what
    BY <1>1 DEF Ordered
  <2>2. catalogs'[n + 1].previous = state'
    BY <1>1, <1>2, <1>3
  <2>3. \A i \in 1..Len(job') : job'[i].do = "save" => catalogs'[job'[i].what].previous = state'
    BY <2>1, <2>2
  <2> QED
    BY <2>1, <2>3 DEF Writing
<1>6. (Kits \subseteq Chain(state))'
  <2>1. \A c \in 0..n : Chain(c)' = Chain(c)
    BY <1>1, ChainsGrow DEF IInv
  <2>2. PICK c : c = state
    OBVIOUS
  <2>3. Chain(c)' = Chain(c) /\ c = state'
    BY <1>1, <1>2, <2>1, <2>2
  <2>4. Kits \subseteq Chain(c)
    BY <2>2 DEF FirstDevice
  <2> QED
    BY <1>2, <2>3, <2>4 DEF Kits, Chain
<1> QED
  BY <1>4, <1>5, <1>6 DEF FirstDevice

LEMMA FirstDeviceSweeps ==
  ASSUME IInv, FirstDevice, CollectOrphans
  PROVE  FirstDevice'
<1>1. PICK w : w = Write("sweep", Retained(state))
  OBVIOUS
<1>2. /\ job' = <<w>> /\ Untouched /\ made' = made /\ catalogs' = catalogs /\ CanOpen
      /\ w.do = "sweep"
  BY <1>1 DEF CollectOrphans, CanCollect, Untouched, Write
<1>3. /\ disk' = disk /\ net' = net /\ old' = old /\ connected' = connected
      /\ state' = state /\ kit' = kit /\ copies' = copies
  BY <1>2 DEF Untouched
<1>4. Apart'
  <2>1. connected = made
    BY <1>2, OpensWhereMade DEF FirstDevice
  <2>2. catalogs # <<>>
    <3>1. state \in 0..Len(catalogs) /\ state # 0
      BY <1>2 DEF IInv, StoredOK, CanOpen
    <3> QED
      BY <3>1
  <2> QED
    BY <1>2, <1>3, <2>1, <2>2 DEF FirstDevice, Apart
<1>5. Writing'
  <2>1. Len(job') = 1 /\ job'[1] = w /\ \A i \in 1..1 : i = 1
    BY <1>2
  <2> QED
    BY <1>2, <2>1 DEF Writing
<1>6. (Kits \subseteq Chain(state))'
  <2>1. History' = History
    BY <1>2 DEF History
  <2> QED
    BY <1>3, <2>1 DEF FirstDevice, Kits, Chain
<1> QED
  BY <1>4, <1>5, <1>6 DEF FirstDevice

LEMMA FirstDeviceOthers ==
  ASSUME IInv, FirstDevice, CopyKit \/ Connect \/ Stop \/ Tomorrow
  PROVE  FirstDevice'
<1>1. /\ catalogs' = catalogs /\ disk' = disk /\ net' = net /\ old' = old /\ made' = made
      /\ state' = state /\ kit' = kit /\ copies' \subseteq copies \cup kit
      /\ job' = <<>>
  BY DEF CopyKit, Connect, Stop, Tomorrow, Idle
<1>2. Apart'
  BY <1>1 DEF FirstDevice, Apart
<1>3. Writing'
  <2>1. \A i : i \notin 1..Len(<<>>)
    OBVIOUS
  <2> QED
    BY <1>1, <2>1 DEF Writing
<1>4. (Kits \subseteq Chain(state))'
  <2>1. History' = History
    BY <1>1 DEF History
  <2> QED
    BY <1>1, <2>1 DEF FirstDevice, Kits, Chain
<1> QED
  BY <1>2, <1>3, <1>4 DEF FirstDevice

\* It has no kit to import before it has a vault.
LEMMA NothingToImport ==
  ASSUME IInv, FirstDevice, state = 0
  PROVE  Kits = {}
<1>1. Chain(0) = {}
  BY ChainValues DEF IInv
<1> QED
  BY <1>1 DEF FirstDevice

LEMMA FirstDeviceMoves ==
  ASSUME IInv, ~replaced => FirstDevice, [Next]_vars, ~replaced'
  PROVE  FirstDevice'
<1>1. CASE UNCHANGED vars
  <2>1. /\ catalogs' = catalogs /\ disk' = disk /\ net' = net /\ old' = old /\ made' = made
        /\ state' = state /\ kit' = kit /\ copies' = copies /\ job' = job
        /\ connected' = connected /\ replaced' = replaced
    BY <1>1 DEF vars
  <2>2. History' = History
    BY <2>1 DEF History
  <2> QED
    BY <2>1, <2>2 DEF FirstDevice, Apart, Writing, Saving, Kits, Chain
<1>2. CASE Next
  <2>1. ~replaced /\ ~Replace
    <3>1. ~Replace
      BY DEF Replace
    <3>2. replaced' = replaced
      BY <1>2, <3>1 DEF Next, Create, Add, Delete, CollectExpired, CollectOrphans,
                        CopyKit, Connect, Import, Work, Stop, Tomorrow
    <3> QED
      BY <3>1, <3>2
  <2>2. FirstDevice
    BY <2>1
  <2>3. CASE Create \/ Add \/ Delete \/ CollectExpired
    <3>1. PICK n \in Nat : n = Len(catalogs)
      BY DEF IInv, SignedOnesOK
    <3>2. PICK r : Signs(n, r)
      BY <2>3, <3>1, CommandsSign
    <3> QED
      BY <2>2, <3>1, <3>2, FirstDeviceSigns
  <2>4. CASE \E checkpoint \in copies, sources \in Sources :
               \E c \in Discovered(checkpoint, sources) :
                 Import(checkpoint, sources, c)
    <3>1. state = 0
      BY <2>4 DEF Import, Fresh
    <3> QED
      BY <2>2, <2>4, <3>1, NothingToImport DEF Kits
  <2> QED
    BY <1>2, <2>1, <2>2, <2>3, <2>4, FirstDeviceWrites, FirstDeviceSweeps,
       FirstDeviceOthers
    DEF Next
<1> QED
  BY <1>1, <1>2

\* The next write of its commands: it is made, or one more object is swept.
LEMMA WorkIs ==
  ASSUME IInv, FirstDevice, Work
  PROVE  \E w \in Writes :
           /\ job # <<>> /\ w = job[1] /\ w.do # "restore" /\ Fixed
           /\ state' = IF w.do = "save" THEN w.what ELSE state
           /\ \/ /\ job' = Tail(job) /\ Everything' = Everything \cup Puts(w)
                 /\ w.do = "sweep" => disk \subseteq w.what
              \/ /\ job' = job /\ w.do = "sweep" /\ Len(job) = 1
                 /\ net' = net /\ \E o \in disk \ w.what : disk' = disk \ {o}
<1>1. Fixed /\ ~Idle
  BY DEF Work, Fixed, Put, Restore, SaveSecrets, SaveState, RefreshKit, Sweep
<1>2. PICK w : w = job[1] /\ w \in Writes /\ Step = w
  BY <1>1, FirstWrite
<1>3. job # <<>> /\ (Done <=> job' = Tail(job)) /\ 1 \in 1..Len(job)
  BY <1>1, FirstWrite
<1>4. w.do # "restore"
  BY <1>2, <1>3 DEF FirstDevice, Writing
<1>5. connected' = connected /\ old' = old
  BY <1>1, FixedKeeps
<1>6. state' = IF w.do = "save" THEN w.what ELSE state
  BY <1>2, <1>4 DEF Work, Put, Restore, SaveSecrets, SaveState, RefreshKit, Sweep
<1>7. CASE Put
  <2>1. disk' \cup net' = disk \cup net \cup {w.what} /\ w.do = "put" /\ Done
    BY <1>2, <1>5, <1>7, Storing DEF Put
  <2>2. Everything' = Everything \cup Puts(w)
    BY <1>5, <2>1 DEF Everything, Puts
  <2> QED
    BY <1>1, <1>2, <1>3, <1>6, <2>1, <2>2
<1>8. CASE SaveSecrets \/ SaveState \/ RefreshKit
  <2>1. disk' = disk /\ net' = net /\ Done /\ w.do \in {"secrets", "save", "kit"}
    BY <1>2, <1>8 DEF SaveSecrets, SaveState, RefreshKit
  <2>2. Everything' = Everything \cup Puts(w)
    BY <1>5, <2>1 DEF Everything, Puts
  <2> QED
    BY <1>1, <1>2, <1>3, <1>6, <2>1, <2>2
<1>9. CASE Sweep
  <2>1. w.do = "sweep" /\ net' = net
    BY <1>2, <1>9 DEF Sweep
  <2>2. Len(job) = 1
    BY <1>2, <1>3, <2>1 DEF IInv, SweepsOK
  <2>3. CASE disk \subseteq w.what /\ Done /\ disk' = disk
    <3>1. Everything' = Everything \cup Puts(w)
      BY <1>5, <2>1, <2>3 DEF Everything, Puts
    <3> QED
      BY <1>1, <1>2, <1>3, <1>6, <2>1, <2>3, <3>1
  <2>4. CASE job' = job /\ \E o \in disk \ w.what : disk' = disk \ {o}
    BY <1>1, <1>2, <1>3, <1>6, <2>1, <2>2, <2>4
  <2> QED
    BY <1>2, <1>9, <2>3, <2>4 DEF Sweep
<1> QED
  BY <1>2, <1>4, <1>7, <1>8, <1>9 DEF Work, Restore

\* A command saves once.
LEMMA OneSave ==
  ASSUME IInv, Writing, job # <<>>, job' = Tail(job)
  PROVE  IF job[1].do = "save" THEN Saving /\ ~Saving' ELSE Saving' <=> Saving
<1>0. PICK n : n = Len(job)
  OBVIOUS
<1>1. /\ n \in Nat \ {0} /\ Len(job') = n - 1 /\ 1 \in 1..n
      /\ \A i \in 1..n - 1 : job'[i] = job[i + 1] /\ i + 1 \in 1..n
      /\ \A i \in 1..n : i = 1 \/ (i - 1 \in 1..n - 1 /\ job'[i - 1] = job[i])
  BY <1>0, Rest
<1>2. Saving <=> \E i \in 1..n : job[i].do = "save"
  BY <1>0 DEF Saving
<1>3. Saving' <=> \E i \in 1..n - 1 : job'[i].do = "save"
  BY <1>1 DEF Saving
<1>4. CASE job[1].do = "save"
  <2>1. SUFFICES ASSUME NEW i \in 1..n - 1, job'[i].do = "save"
                 PROVE  FALSE
    BY <1>1, <1>2, <1>3, <1>4
  <2>2. i + 1 \in 1..n /\ job[i + 1].do = "save" /\ i + 1 # 1
    BY <1>1, <2>1
  <2>3. \A j \in 1..n : job[j].do = "save" => j = 1
    BY <1>0, <1>1, <1>4 DEF Writing
  <2> QED
    BY <2>2, <2>3
<1>5. CASE job[1].do # "save"
  <2>1. ASSUME NEW i \in 1..n, job[i].do = "save"
        PROVE  \E j \in 1..n - 1 : job'[j].do = "save"
    BY <1>1, <1>5, <2>1
  <2>2. ASSUME NEW i \in 1..n - 1, job'[i].do = "save"
        PROVE  \E j \in 1..n : job[j].do = "save"
    BY <1>1, <2>2
  <2> QED
    BY <1>2, <1>3, <1>5, <2>1, <2>2
<1> QED
  BY <1>4, <1>5

\* Until it saves another catalog, the files of the saved one are there.
StillThere == Saving /\ state # 0 => FileObjects(Files(state)) \subseteq Everything

LEMMA StillThereMoves ==
  ASSUME IInv, Straight, FirstDevice, StillThere, Next, ~Replace, ~Stop
  PROVE  StillThere'
<1>1. \A files : FileObjects(files)' = FileObjects(files)
  BY DEF FileObjects, Manifest, Chunk
<1>2. CASE Work
  <2>1. PICK w \in Writes :
          /\ job # <<>> /\ w = job[1] /\ w.do # "restore" /\ Fixed
          /\ state' = IF w.do = "save" THEN w.what ELSE state
          /\ \/ /\ job' = Tail(job) /\ Everything' = Everything \cup Puts(w)
                /\ w.do = "sweep" => disk \subseteq w.what
             \/ /\ job' = job /\ w.do = "sweep" /\ Len(job) = 1
                /\ net' = net /\ \E o \in disk \ w.what : disk' = disk \ {o}
    BY <1>2, WorkIs
  <2>2. catalogs' = catalogs
    BY <2>1, FixedKeeps
  <2>3. CASE job' = Tail(job) /\ Everything' = Everything \cup Puts(w)
    <3>1. SUFFICES ASSUME Saving', state' # 0
                   PROVE  FileObjects(Files(state))' \subseteq Everything'
      BY DEF StillThere
    <3>2. w.do # "save" /\ Saving
      BY <2>1, <2>3, <3>1, OneSave DEF FirstDevice
    <3>3. state' = state
      BY <2>1, <3>2
    <3>4. FileObjects(Files(state))' = FileObjects(Files(state))
      BY <2>2, <3>3 DEF FileObjects, Manifest, Chunk, Files
    <3> QED
      BY <2>3, <3>1, <3>2, <3>3, <3>4 DEF StillThere
  <2>4. CASE job' = job /\ w.do = "sweep" /\ Len(job) = 1
    <3>1. \A i \in 1..1 : i = 1
      OBVIOUS
    <3>2. ~Saving'
      BY <2>1, <2>4, <3>1 DEF Saving
    <3> QED
      BY <3>2 DEF StillThere
  <2> QED
    BY <2>1, <2>3, <2>4
<1>3. CASE Create \/ Add \/ Delete \/ CollectExpired
  <2>1. PICK n \in Nat : n = Len(catalogs) /\ n = Tip
    BY DEF IInv, SignedOnesOK, Tip
  <2>2. PICK r : Signs(n, r)
    BY <1>3, <2>1, CommandsSign
  <2>3. SUFFICES ASSUME state # 0
                 PROVE  FileObjects(Files(state))' \subseteq Everything'
    <3>1. state' = state
      BY <2>2 DEF Signs, Untouched
    <3> QED
      BY <3>1 DEF StillThere
  <2>4. job = <<>> /\ catalogs' = Append(catalogs, r) /\ state' = state
    BY <2>2 DEF Signs, Untouched
  <2>5. state = n /\ n # 0 /\ TipFiles \subseteq Everything
    BY <2>1, <2>3, <2>4, StraightWhenIdle
  <2>6. catalogs'[n] = catalogs[n]
    <3>1. n \in 1..n
      BY <2>5
    <3> QED
      BY <2>1, <2>4, <3>1, OneMore
  <2>7. FileObjects(Files(state))' = FileObjects(Files(n))
    BY <2>4, <2>5, <2>6 DEF FileObjects, Manifest, Chunk, Files
  <2>8. Everything' = Everything
    BY <2>2 DEF Signs, Untouched, Everything
  <2> QED
    BY <2>1, <2>5, <2>7, <2>8 DEF TipFiles
<1>4. CASE CollectOrphans
  <2>1. PICK w : w = Write("sweep", Retained(state))
    OBVIOUS
  <2>2. job' = <<w>> /\ w.do = "sweep"
    BY <1>4, <2>1 DEF CollectOrphans, Write
  <2>3. Len(job') = 1 /\ job'[1] = w /\ \A i \in 1..1 : i = 1
    BY <2>2
  <2>4. ~Saving'
    BY <2>2, <2>3 DEF Saving
  <2> QED
    BY <2>4 DEF StillThere
<1>5. CASE \E checkpoint \in copies, sources \in Sources :
             \E c \in Discovered(checkpoint, sources) :
               Import(checkpoint, sources, c)
  <2>1. state = 0
    BY <1>5 DEF Import, Fresh
  <2> QED
    BY <1>5, <2>1, NothingToImport DEF Kits
<1>6. CASE CopyKit \/ Connect \/ Tomorrow
  <2>1. job' = <<>>
    BY <1>6 DEF CopyKit, Connect, Tomorrow, Idle
  <2>2. \A i : i \notin 1..Len(<<>>)
    OBVIOUS
  <2>3. ~Saving'
    BY <2>1, <2>2 DEF Saving
  <2> QED
    BY <2>3 DEF StillThere
<1> QED
  BY <1>2, <1>3, <1>4, <1>5, <1>6 DEF Next

-----------------------------------------------------------------------------
(***************************************************************************)
(* After one command was cut short: catalog d, if there is one, was signed *)
(* and not saved, the others form one line, and all that a kit can find    *)
(* is stored, or about to be.                                              *)
(***************************************************************************)
End(d) == IF Tip = d THEN Tip - 1 ELSE Tip

\* What stays: the catalogs of the line, and the files of the last.
Stays(d) ==
  {CatalogObject(c) : c \in Signed \ {d}} \cup FileObjects(Files(End(d)))

Branches(d) ==
  /\ d \in 0..Tip /\ d # 1
  /\ \A c \in Signed :
       /\ catalogs[c].version = IF d # 0 /\ c > d THEN c - 1 ELSE c
       /\ catalogs[c].previous = IF d # 0 /\ c = d + 1 THEN d - 1 ELSE c - 1
       /\ Chain(c) = IF c = d THEN 1..c ELSE (1..c) \ {d}

SavesTheEnd(d) ==
  IF Saving THEN \A i \in 1..Len(job) : job[i].do = "save" => job[i].what = End(d)
            ELSE state = End(d)

Sweeping == \E i \in 1..Len(job) : job[i].do = "sweep"
LeavesBranch(d) ==
  \A i \in 1..Len(job) :
    /\ job[i].do = "sweep" =>
         Stays(d) \subseteq job[i].what /\ CatalogObject(d) \notin job[i].what
    /\ job[i].do = "put" => job[i].what # CatalogObject(d)

\* The other branch goes with its files, but for the time of a sweep.
BranchIsWhole(d) ==
  d # 0 /\ CatalogObject(d) \in Everything /\ (made \/ ~Sweeping) =>
    FileObjects(Files(d)) \subseteq Everything

Forked(d) ==
  /\ Branches(d) /\ SavesTheEnd(d) /\ LeavesBranch(d) /\ BranchIsWhole(d)
  /\ \A o \in Stays(d) : Has(Len(job) + 1, o)

Forks ==
  IF state = 0 THEN job = <<>> /\ catalogs # <<>> ELSE \E d : Forked(d)

LEMMA SameBranches ==
  ASSUME IInv, catalogs' = catalogs, NEW d
  PROVE  /\ Branches(d) => Branches(d)'
         /\ End(d)' = End(d) /\ Stays(d)' = Stays(d) /\ Tip' = Tip
         /\ FileObjects(Files(d))' = FileObjects(Files(d))
         /\ CatalogObject(d)' = CatalogObject(d)
<1>1. /\ Tip' = Tip /\ Signed' = Signed
      /\ \A c : /\ Files(c)' = Files(c)
                /\ CatalogObject(c)' = CatalogObject(c)
                /\ Chain(c)' = Chain(c)
  BY SameLine DEF IInv
<1>2. End(d)' = End(d)
  BY <1>1 DEF End
<1>3. FileObjects(Files(d))' = FileObjects(Files(d))
  BY DEF FileObjects, Manifest, Chunk, Files
<1>4. Stays(d)' = Stays(d)
  <2>1. FileObjects(Files(End(d)))' = FileObjects(Files(End(d)))
    BY <1>2 DEF FileObjects, Manifest, Chunk, Files
  <2>2. {CatalogObject(c) : c \in Signed \ {d}}' = {CatalogObject(c) : c \in Signed \ {d}}
    BY <1>1 DEF CatalogObject
  <2> QED
    BY <2>1, <2>2 DEF Stays
<1>5. Branches(d) => Branches(d)'
  BY <1>1 DEF Branches
<1> QED
  BY <1>1, <1>2, <1>3, <1>4, <1>5

LEMMA ForkedWrites ==
  ASSUME IInv, FirstDevice, NEW d, Forked(d), Fixed, NEW w \in Writes,
         job # <<>>, w = job[1], job' = Tail(job), Everything' = Everything \cup Puts(w),
         w.do = "sweep" => disk \subseteq w.what,
         state' = IF w.do = "save" THEN w.what ELSE state
  PROVE  Forked(d)'
<1>0. PICK n : n = Len(job)
  OBVIOUS
<1>1. /\ n \in Nat \ {0} /\ Len(job') = n - 1 /\ 1 \in 1..n
      /\ \A i \in 1..n - 1 : job'[i] = job[i + 1] /\ i + 1 \in 1..n
      /\ \A i \in 1..n : i = 1 \/ (i - 1 \in 1..n - 1 /\ job'[i - 1] = job[i])
  BY <1>0, Rest
<1>2. catalogs' = catalogs /\ made' = made
  BY FixedKeeps
<1>3. /\ Branches(d)' /\ End(d)' = End(d) /\ Stays(d)' = Stays(d)
      /\ FileObjects(Files(d))' = FileObjects(Files(d))
      /\ CatalogObject(d)' = CatalogObject(d)
  BY <1>2, SameBranches DEF Forked
<1>4. SavesTheEnd(d)'
  <2>1. CASE w.do = "save"
    <3>1. Saving /\ ~Saving'
      BY <2>1, OneSave DEF FirstDevice
    <3>2. w.what = End(d)
      BY <1>0, <1>1, <2>1, <3>1 DEF Forked, SavesTheEnd
    <3> QED
      BY <1>3, <2>1, <3>1, <3>2 DEF SavesTheEnd
  <2>2. CASE w.do # "save"
    <3>1. Saving' <=> Saving
      BY <2>2, OneSave DEF FirstDevice
    <3>2. CASE Saving
      <4>1. \A i \in 1..n : job[i].do = "save" => job[i].what = End(d)
        BY <1>0, <3>2 DEF Forked, SavesTheEnd
      <4>2. \A i \in 1..n - 1 : job'[i].do = "save" => job'[i].what = End(d)
        BY <1>1, <4>1
      <4> QED
        BY <1>1, <1>3, <3>1, <3>2, <4>2 DEF SavesTheEnd
    <3>3. CASE ~Saving
      BY <1>3, <2>2, <3>1, <3>3 DEF Forked, SavesTheEnd
    <3> QED
      BY <3>2, <3>3
  <2> QED
    BY <2>1, <2>2
<1>5. LeavesBranch(d)'
  <2>1. \A i \in 1..n :
          /\ job[i].do = "sweep" =>
               Stays(d) \subseteq job[i].what /\ CatalogObject(d) \notin job[i].what
          /\ job[i].do = "put" => job[i].what # CatalogObject(d)
    BY <1>0 DEF Forked, LeavesBranch
  <2>2. \A i \in 1..n - 1 :
          /\ job'[i].do = "sweep" =>
               Stays(d) \subseteq job'[i].what /\ CatalogObject(d) \notin job'[i].what
          /\ job'[i].do = "put" => job'[i].what # CatalogObject(d)
    BY <1>1, <2>1
  <2> QED
    BY <1>1, <1>3, <2>2 DEF LeavesBranch
<1>6. BranchIsWhole(d)'
  <2>1. SUFFICES ASSUME d # 0, CatalogObject(d) \in Everything', made \/ ~Sweeping'
                 PROVE  FileObjects(Files(d)) \subseteq Everything'
    BY <1>2, <1>3 DEF BranchIsWhole
  <2>2. CatalogObject(d) \in Everything
    <3>1. CatalogObject(d) \notin Puts(w)
      BY <1>0, <1>1 DEF Forked, LeavesBranch, Puts
    <3> QED
      BY <2>1, <3>1
  <2>3. CASE made \/ w.do # "sweep"
    <3>1. made \/ ~Sweeping
      <4>1. ASSUME NEW i \in 1..n, job[i].do = "sweep", w.do # "sweep"
            PROVE  \E j \in 1..n - 1 : job'[j].do = "sweep"
        BY <1>1, <4>1
      <4> QED
        BY <1>0, <1>1, <2>1, <2>3, <4>1 DEF Sweeping
    <3> QED
      BY <2>1, <2>2, <3>1 DEF Forked, BranchIsWhole
  <2>4. CASE ~made /\ w.do = "sweep"
    <3>1. CatalogObject(d) \notin disk
      BY <1>0, <1>1, <2>4 DEF Forked, LeavesBranch
    <3>2. net = {} /\ old = {}
      BY <2>4 DEF FirstDevice, Apart
    <3> QED
      BY <2>2, <3>1, <3>2 DEF Everything
  <2> QED
    BY <2>3, <2>4
<1>7. \A o \in Stays(d)' : Has(Len(job) + 1, o)'
  <2>1. n \in 1..n /\ Len(job') + 1 = n
    BY <1>1
  <2>2. ASSUME NEW o \in Stays(d)
        PROVE  Has(n, o)'
    <3>1. Has(n + 1, o)
      BY <1>0 DEF Forked
    <3> QED
      BY <1>0, <2>1, <3>1, Nearer
  <2> QED
    BY <1>3, <2>1, <2>2 DEF Has
<1> QED
  BY <1>3, <1>4, <1>5, <1>6, <1>7 DEF Forked

LEMMA ForkedSwept ==
  ASSUME IInv, FirstDevice, NEW d, Forked(d), Fixed, NEW w \in Writes,
         job # <<>>, w = job[1], job' = job, w.do = "sweep", Len(job) = 1,
         state' = state, net' = net, NEW o \in disk \ w.what, disk' = disk \ {o}
  PROVE  Forked(d)'
<1>1. 1 \in 1..1 /\ job[1] = w /\ \A i \in 1..1 : i = 1
  OBVIOUS
<1>2. catalogs' = catalogs /\ made' = made /\ old' = old
  BY FixedKeeps
<1>3. /\ Branches(d)' /\ End(d)' = End(d) /\ Stays(d)' = Stays(d)
      /\ CatalogObject(d)' = CatalogObject(d)
  BY <1>2, SameBranches DEF Forked
<1>4. (Saving' <=> Saving) /\ Sweeping'
  BY <1>1 DEF Saving, Sweeping
<1>5. SavesTheEnd(d)' /\ LeavesBranch(d)'
  BY <1>3, <1>4 DEF Forked, SavesTheEnd, LeavesBranch
<1>6. BranchIsWhole(d)'
  <2>1. ~made
    BY DEF FirstDevice, Apart
  <2> QED
    BY <1>2, <1>4, <2>1 DEF BranchIsWhole
<1>7. \A p \in Stays(d)' : Has(Len(job) + 1, p)'
  <2>1. ASSUME NEW p \in Stays(d)
        PROVE  p \in Everything'
    <3>1. p \in w.what
      BY <1>1, <2>1 DEF Forked, LeavesBranch
    <3>2. p \in Everything
      <4>1. Has(1 + 1, p) /\ \A j \in 1..(1 + 1) - 1 : j = 1
        BY <2>1 DEF Forked
      <4> QED
        BY <4>1 DEF Has, Puts
    <3> QED
      BY <1>2, <3>1, <3>2 DEF Everything
  <2> QED
    BY <1>3, <2>1 DEF Has
<1> QED
  BY <1>3, <1>5, <1>6, <1>7 DEF Forked

\* Between commands.
LEMMA ForkedWhenIdle ==
  ASSUME IInv, NEW d, Forked(d), job = <<>>
  PROVE  /\ state = End(d) /\ Stays(d) \subseteq Everything
         /\ d # 0 /\ CatalogObject(d) \in Everything =>
              FileObjects(Files(d)) \subseteq Everything
<1>1. Len(job) = 0 /\ \A i : i \notin 1..0 /\ i \notin 1..(0 + 1) - 1
  OBVIOUS
<1>2. ~Saving /\ ~Sweeping
  BY <1>1 DEF Saving, Sweeping
<1>3. state = End(d)
  BY <1>2 DEF Forked, SavesTheEnd
<1>4. Stays(d) \subseteq Everything
  BY <1>1 DEF Forked, Has
<1>5. d # 0 /\ CatalogObject(d) \in Everything => FileObjects(Files(d)) \subseteq Everything
  BY <1>2 DEF Forked, BranchIsWhole
<1> QED
  BY <1>3, <1>4, <1>5

\* The line grows by one, and its end is the new catalog.
LEMMA BranchesGrow ==
  ASSUME IInv, NEW d, Branches(d), NEW n \in Nat, n = Len(catalogs), NEW r,
         catalogs' = Append(catalogs, r), state = End(d), state \in 1..n,
         r.previous = state, r.version = Version(state) + 1, state' = state
  PROVE  /\ Branches(d)' /\ End(d)' = n + 1 /\ d \in 0..n
         /\ Chain(state) = (1..n) \ {d} /\ Chain(state)' = Chain(state)
<1>1. /\ Len(catalogs') = n + 1 /\ catalogs'[n + 1] = r
      /\ \A c \in 1..n : catalogs'[c] = catalogs[c]
  BY OneMore
<1>2. /\ Tip = n /\ Tip' = n + 1 /\ Signed = 1..n /\ Signed' = 1..n + 1
      /\ d \in 0..n /\ d # 1
  BY <1>1 DEF Tip, Signed, Branches
<1>3. \A c \in 1..n :
        /\ catalogs[c].version = IF d # 0 /\ c > d THEN c - 1 ELSE c
        /\ catalogs[c].previous = IF d # 0 /\ c = d + 1 THEN d - 1 ELSE c - 1
        /\ Chain(c) = IF c = d THEN 1..c ELSE (1..c) \ {d}
  BY <1>2 DEF Branches
<1>4. PICK e : e = state
  OBVIOUS
<1>5. e \in 1..n /\ e = IF d = n THEN n - 1 ELSE n
  BY <1>2, <1>4 DEF End
<1>6. Chain(e) = (1..n) \ {d} /\ e # d
  <2>1. e # d
    BY <1>2, <1>5
  <2>2. Chain(e) = (1..e) \ {d}
    BY <1>3, <1>5, <2>1
  <2>3. (1..e) \ {d} = (1..n) \ {d}
    BY <1>2, <1>5
  <2> QED
    BY <2>1, <2>2, <2>3
<1>7. /\ \A c \in 0..n : Chain(c)' = Chain(c)
      /\ Chain(n + 1)' = {n + 1} \cup Chain(e)
  <2>1. SignedOnesOK /\ HistoriesOK /\ r.previous \in 0..n /\ r.previous = e
    BY <1>4, <1>5 DEF IInv
  <2>2. /\ \A c \in 0..n : Chain(c)' = Chain(c)
        /\ Chain(n + 1)' = {n + 1} \cup Chain(r.previous)
    BY <2>1, ChainsGrow
  <2> QED
    BY <2>1, <2>2
<1>8. ASSUME NEW c \in 1..n + 1
      PROVE  /\ catalogs'[c].version = IF d # 0 /\ c > d THEN c - 1 ELSE c
             /\ catalogs'[c].previous = IF d # 0 /\ c = d + 1 THEN d - 1 ELSE c - 1
             /\ Chain(c)' = IF c = d THEN 1..c ELSE (1..c) \ {d}
  <2>1. CASE c \in 1..n
    <3>1. c \in 0..n /\ catalogs'[c] = catalogs[c]
      BY <1>1, <2>1
    <3> QED
      BY <1>3, <1>7, <2>1, <3>1
  <2>2. CASE c = n + 1
    <3>1. catalogs'[c] = r /\ r.previous = e /\ r.version = catalogs[e].version + 1
      BY <1>1, <1>4, <2>2 DEF Version
    <3>2. catalogs[e].version = IF d # 0 /\ e > d THEN e - 1 ELSE e
      BY <1>3, <1>5
    <3>3. r.version = IF d # 0 /\ c > d THEN c - 1 ELSE c
      BY <1>2, <1>5, <2>2, <3>1, <3>2
    <3>4. r.previous = IF d # 0 /\ c = d + 1 THEN d - 1 ELSE c - 1
      BY <1>2, <1>5, <2>2, <3>1
    <3>5. Chain(c)' = (1..c) \ {d}
      <4>1. {n + 1} \cup ((1..n) \ {d}) = (1..n + 1) \ {d}
        BY <1>2
      <4>2. Chain(n + 1)' = (1..n + 1) \ {d}
        BY <1>6, <1>7, <4>1
      <4> QED
        BY <2>2, <4>2 DEF Chain
    <3>6. c # d
      BY <1>2, <2>2
    <3> QED
      BY <3>1, <3>3, <3>4, <3>5, <3>6
  <2> QED
    BY <2>1, <2>2
<1>9. Branches(d)'
  <2>1. d \in 0..n + 1
    BY <1>2
  <2> QED
    BY <1>2, <1>8, <2>1 DEF Branches
<1>10. Chain(state)' = Chain(state)
  <2>1. Chain(e)' = Chain(e) /\ e = state'
    BY <1>4, <1>5, <1>7
  <2> QED
    BY <1>4, <2>1 DEF Chain
<1>11. End(d)' = n + 1
  BY <1>2 DEF End
<1> QED
  BY <1>2, <1>4, <1>6, <1>9, <1>10, <1>11

LEMMA ForkedSigns ==
  ASSUME IInv, FirstDevice, NEW d, Forked(d), state # 0, NEW n \in Nat, n = Len(catalogs),
         NEW r, Signs(n, r)
  PROVE  Forked(d)'
<1>1. /\ job = <<>> /\ catalogs' = Append(catalogs, r) /\ Ordered(n + 1)'
      /\ state \in 1..n /\ r.previous = state /\ r.version = Version(state) + 1
      /\ made' = made /\ state' = state
  BY DEF Signs, GoesOn, Untouched
<1>2. Everything' = Everything
  BY DEF Signs, Untouched, Everything
<1>3. /\ state = End(d) /\ Stays(d) \subseteq Everything
      /\ d # 0 /\ CatalogObject(d) \in Everything => FileObjects(Files(d)) \subseteq Everything
  BY <1>1, ForkedWhenIdle
<1>4. /\ Branches(d)' /\ End(d)' = n + 1 /\ d \in 0..n
      /\ Chain(state) = (1..n) \ {d} /\ Chain(state)' = Chain(state)
  BY <1>1, <1>3, BranchesGrow DEF Forked
<1>5. /\ Len(catalogs') = n + 1 /\ catalogs'[n + 1] = r
      /\ \A c \in 1..n : catalogs'[c] = catalogs[c]
      /\ Signed = 1..n /\ Signed' = 1..n + 1
  BY <1>1, OneMore DEF Signed
<1>6. /\ \A c : CatalogObject(c)' = CatalogObject(c)
      /\ \A files : FileObjects(files)' = FileObjects(files)
  BY DEF CatalogObject, FileObjects, Manifest, Chunk
<1>7. Stays(d)' = {CatalogObject(c) : c \in (1..n + 1) \ {d}} \cup FileObjects(r.files)
  <2>1. FileObjects(Files(End(d)))' = FileObjects(r.files)
    BY <1>4, <1>5 DEF FileObjects, Manifest, Chunk, Files
  <2>2. {CatalogObject(c) : c \in Signed \ {d}}' = {CatalogObject(c) : c \in (1..n + 1) \ {d}}
    BY <1>5 DEF CatalogObject
  <2> QED
    BY <2>1, <2>2 DEF Stays
<1>8. \A o \in {CatalogObject(n + 1)} \cup FileObjects(r.files) : Has(Len(job) + 1, o)'
  <2>1. FileObjects(Files(state)) \subseteq Everything
    BY <1>3 DEF Stays
  <2>2. Brought(n + 1, r.files)'
    BY <2>1 DEF Signs
  <2> QED
    BY <1>6, <2>2 DEF Brought, Has
<1>9. \A o \in Stays(d)' : Has(Len(job) + 1, o)'
  <2>1. \A c \in (1..n + 1) \ {d} : c = n + 1 \/ c \in Signed \ {d}
    BY <1>5
  <2>2. \A c \in Signed \ {d} : CatalogObject(c) \in Everything'
    BY <1>2, <1>3 DEF Stays
  <2>3. \A c \in (1..n + 1) \ {d} : Has(Len(job) + 1, CatalogObject(c))'
    BY <1>6, <1>8, <2>1, <2>2 DEF Has
  <2> QED
    BY <1>6, <1>7, <1>8, <2>3 DEF Has
<1>10. SavesTheEnd(d)'
  BY <1>1, <1>4 DEF Ordered, SavesTheEnd
<1>11. LeavesBranch(d)'
  <2>1. ASSUME NEW i \in 1..Len(job'), job'[i].do = "sweep"
        PROVE  Stays(d)' \subseteq job'[i].what /\ CatalogObject(d) \notin job'[i].what
    <3>1. job'[i].what = {CatalogObject(n + 1)} \cup {CatalogObject(c) : c \in (1..n) \ {d}}
                           \cup FileObjects(r.files)
      <4>1. Spared(n + 1, state, r.files)'
        BY DEF Signs
      <4>2. ChainObjects(state)' = {CatalogObject(c) : c \in (1..n) \ {d}}
        BY <1>4 DEF ChainObjects, CatalogObject
      <4>3. job'[i].what = {CatalogObject(n + 1)'} \cup ChainObjects(state)'
                             \cup FileObjects(r.files)'
        BY <2>1, <4>1 DEF Spared
      <4> QED
        BY <1>6, <4>2, <4>3
    <3>2. \A c \in (1..n + 1) \ {d} : c = n + 1 \/ c \in (1..n) \ {d}
      OBVIOUS
    <3>3. Stays(d)' \subseteq job'[i].what
      BY <1>7, <3>1, <3>2
    <3>4. /\ CatalogObject(d) # CatalogObject(n + 1)
          /\ \A c \in (1..n) \ {d} : CatalogObject(d) # CatalogObject(c)
          /\ CatalogObject(d) \notin FileObjects(r.files)
      <4>1. d # n + 1
        BY <1>4
      <4> QED
        BY <4>1 DEF CatalogObject, FileObjects, Manifest, Chunk
    <3> QED
      BY <3>1, <3>3, <3>4
  <2>2. ASSUME NEW i \in 1..Len(job'), job'[i].do = "put"
        PROVE  job'[i].what # CatalogObject(d)
    <3>1. job'[i].what[1] = "catalog" => job'[i].what = CatalogObject(n + 1)
      BY <1>1, <1>6, <2>2 DEF Ordered
    <3>2. CatalogObject(d)[1] = "catalog" /\ CatalogObject(d)[2] = d
          /\ CatalogObject(n + 1)[2] = n + 1 /\ d # n + 1
      BY <1>4 DEF CatalogObject
    <3> QED
      BY <3>1, <3>2
  <2> QED
    BY <1>6, <2>1, <2>2 DEF LeavesBranch
<1>12. BranchIsWhole(d)'
  <2>1. d # 0 => d \in 1..n
    BY <1>4
  <2>2. d # 0 => FileObjects(Files(d))' = FileObjects(Files(d))
    BY <1>5, <2>1 DEF FileObjects, Manifest, Chunk, Files
  <2> QED
    BY <1>2, <1>3, <1>6, <2>2 DEF BranchIsWhole
<1> QED
  BY <1>4, <1>9, <1>10, <1>11, <1>12 DEF Forked

LEMMA ForkedSweeps ==
  ASSUME IInv, FirstDevice, NEW d, Forked(d), CollectOrphans
  PROVE  Forked(d)'
<1>1. PICK w : w = Write("sweep", Retained(state))
  OBVIOUS
<1>2. /\ job = <<>> /\ job' = <<w>> /\ catalogs' = catalogs /\ made' = made /\ state' = state
      /\ state # 0 /\ Live(state) = Files(state) /\ w.do = "sweep" /\ w.what = Retained(state)
  BY <1>1 DEF CollectOrphans, Idle, CanCollect, CanOpen, Write
<1>3. Everything' = Everything
  BY DEF CollectOrphans, Everything
<1>4. /\ state = End(d) /\ Stays(d) \subseteq Everything
      /\ d # 0 /\ CatalogObject(d) \in Everything => FileObjects(Files(d)) \subseteq Everything
  BY <1>2, ForkedWhenIdle
<1>5. /\ Branches(d)' /\ End(d)' = End(d) /\ Stays(d)' = Stays(d)
      /\ FileObjects(Files(d))' = FileObjects(Files(d))
      /\ CatalogObject(d)' = CatalogObject(d)
  BY <1>2, SameBranches DEF Forked
<1>6. Len(job') = 1 /\ job'[1] = w /\ \A i \in 1..1 : i = 1
  BY <1>2
<1>7. ~Saving'
  BY <1>2, <1>6 DEF Saving
<1>8. SavesTheEnd(d)'
  BY <1>2, <1>4, <1>5, <1>7 DEF SavesTheEnd
<1>9. Stays(d) \subseteq w.what /\ CatalogObject(d) \notin w.what
  <2>1. PICK n \in Nat : n = Tip /\ Signed = 1..n
    BY TipIs
  <2>2. state \in 1..n /\ d \in 0..n
    BY <1>2, <2>1 DEF IInv, StoredOK, Tip, Forked, Branches
  <2>3. Chain(state) = (1..n) \ {d}
    <3>1. state = IF n = d THEN n - 1 ELSE n
      BY <1>4, <2>1 DEF End
    <3>2. state # d
      BY <2>1, <2>2, <3>1
    <3>3. Chain(state) = (1..state) \ {d}
      BY <2>1, <2>2, <3>2 DEF Forked, Branches
    <3>4. (1..state) \ {d} = (1..n) \ {d}
      BY <2>1, <2>2, <3>1
    <3> QED
      BY <3>3, <3>4
  <2>4. w.what = {CatalogObject(c) : c \in (1..n) \ {d}} \cup FileObjects(Files(state))
    BY <1>2, <2>3 DEF Retained, ChainObjects
  <2>5. Stays(d) = {CatalogObject(c) : c \in (1..n) \ {d}} \cup FileObjects(Files(state))
    BY <1>4, <2>1 DEF Stays
  <2>6. CatalogObject(d) \notin w.what
    BY <2>4 DEF CatalogObject, FileObjects, Manifest, Chunk
  <2> QED
    BY <2>4, <2>5, <2>6
<1>10. LeavesBranch(d)'
  BY <1>2, <1>5, <1>6, <1>9 DEF LeavesBranch
<1>11. BranchIsWhole(d)'
  BY <1>3, <1>4, <1>5 DEF BranchIsWhole
<1>12. \A o \in Stays(d)' : Has(Len(job) + 1, o)'
  BY <1>3, <1>4, <1>5 DEF Has
<1> QED
  BY <1>5, <1>8, <1>10, <1>11, <1>12 DEF Forked

LEMMA ForkedOthers ==
  ASSUME IInv, NEW d, Forked(d), CopyKit \/ Connect \/ Tomorrow
  PROVE  Forked(d)'
<1>1. /\ catalogs' = catalogs /\ job = <<>> /\ job' = job /\ made' = made /\ state' = state
      /\ Everything' = Everything
  BY DEF CopyKit, Connect, Tomorrow, Idle, Everything
<1>2. /\ Branches(d)' /\ End(d)' = End(d) /\ Stays(d)' = Stays(d)
      /\ FileObjects(Files(d))' = FileObjects(Files(d))
      /\ CatalogObject(d)' = CatalogObject(d)
  BY <1>1, SameBranches DEF Forked
<1>3. (Saving' <=> Saving) /\ (Sweeping' <=> Sweeping)
  BY <1>1 DEF Saving, Sweeping
<1>4. \A o : Has(Len(job) + 1, o)' = Has(Len(job) + 1, o)
  BY <1>1 DEF Has, Puts
<1> QED
  BY <1>1, <1>2, <1>3, <1>4 DEF Forked, SavesTheEnd, LeavesBranch, BranchIsWhole

\* The first accident: the catalog of the command that was cut short is on no
\* line, unless the device had saved it.
LEMMA ForkAtStop ==
  ASSUME IInv, Straight, FirstDevice, StillThere, Stop, state # 0
  PROVE  \E d : Forked(d)'
<1>1. /\ catalogs' = catalogs /\ job' = <<>> /\ made' = made /\ state' = state
      /\ Everything' = Everything /\ job # <<>>
  BY DEF Stop, Idle, Everything
<1>2. PICK n \in Nat : n = Tip /\ Signed = 1..n
  BY TipIs
<1>3. state \in 1..n
  BY <1>2 DEF IInv, StoredOK, Tip
<1>4. \A c \in 1..n : /\ catalogs[c].version = c /\ catalogs[c].previous = c - 1
                      /\ Chain(c) = 1..c
  BY <1>2 DEF Straight, OneLine
<1>5. \A i : i \notin 1..Len(<<>>) /\ i \notin 1..(Len(<<>>) + 1) - 1
  OBVIOUS
<1>6. ~Saving' /\ ~Sweeping'
  BY <1>1, <1>5 DEF Saving, Sweeping
<1>7. ASSUME NEW d, Branches(d), state = End(d), Stays(d) \subseteq Everything,
             d # 0 /\ CatalogObject(d) \in Everything => FileObjects(Files(d)) \subseteq Everything
      PROVE  Forked(d)'
  <2>1. /\ Branches(d)' /\ End(d)' = End(d) /\ Stays(d)' = Stays(d)
        /\ FileObjects(Files(d))' = FileObjects(Files(d))
        /\ CatalogObject(d)' = CatalogObject(d)
    BY <1>1, <1>7, SameBranches
  <2>2. \A o \in Stays(d)' : Has(Len(job) + 1, o)'
    BY <1>1, <1>7, <2>1 DEF Has
  <2>3. LeavesBranch(d)'
    BY <1>1, <1>5 DEF LeavesBranch
  <2> QED
    BY <1>1, <1>6, <1>7, <2>1, <2>2, <2>3 DEF Forked, SavesTheEnd, BranchIsWhole
<1>8. CatalogObject(n) \in Everything => TipFiles \subseteq Everything
  <2>1. Tip # 0
    BY <1>2, <1>3
  <2> QED
    BY <1>2, <2>1 DEF Straight, FilesStored
<1>9. CASE ~Saving
  <2>1. state = n
    BY <1>2, <1>3, <1>9 DEF Straight, SavesTheTip, Saving
  <2>2. \A c \in 1..n : CatalogObject(c) \in Everything
    <3>1. Needs(state) \subseteq Readable
      BY <1>1, <1>3 DEF IInv, Opens, FirstDevice, Apart
    <3>2. Chain(state) = 1..n
      BY <1>3, <1>4, <2>1
    <3>3. Readable \subseteq Everything
      BY DEF Readable, Everything
    <3> QED
      BY <3>1, <3>2, <3>3 DEF Needs, ChainObjects
  <2>3. TipFiles \subseteq Everything
    BY <1>3, <1>8, <2>1, <2>2
  <2>4. End(0) = n
    BY <1>2, <1>3 DEF End
  <2>5. Stays(0) \subseteq Everything
    BY <1>2, <2>2, <2>3, <2>4 DEF Stays, TipFiles
  <2>6. Branches(0)
    <3>1. \A c \in 1..n : c # 0 /\ (1..c) \ {0} = 1..c
      OBVIOUS
    <3>2. 0 \in 0..n
      OBVIOUS
    <3> QED
      BY <1>2, <1>4, <3>1, <3>2 DEF Branches
  <2> QED
    BY <1>7, <2>1, <2>4, <2>5, <2>6
<1>10. CASE Saving
  <2>1. PICK i \in 1..Len(job) : job[i].do = "save"
    BY <1>10 DEF Saving
  <2>2. job[i].what = n /\ catalogs[n].previous = state
    BY <1>2, <2>1 DEF Straight, SavesTheTip, FirstDevice, Writing
  <2>3. state = n - 1 /\ n # 1 /\ n # 0 /\ n \in 1..n
    BY <1>3, <1>4, <2>2
  <2>4. End(n) = n - 1
    BY <1>2 DEF End
  <2>5. FileObjects(Files(n - 1)) \subseteq Everything
    BY <1>10, <2>3 DEF StillThere
  <2>6. \A c \in (1..n) \ {n} : CatalogObject(c) \in Everything
    BY <1>2 DEF Straight, CatalogsStored
  <2>7. Stays(n) \subseteq Everything
    BY <1>2, <2>4, <2>5, <2>6 DEF Stays
  <2>8. Branches(n)
    <3>1. \A c \in 1..n : ~(c > n) /\ c # n + 1 /\ (c # n => (1..c) \ {n} = 1..c)
      OBVIOUS
    <3>2. n \in 0..n
      OBVIOUS
    <3>3. \A c \in 1..n : Chain(c) = IF c = n THEN 1..c ELSE (1..c) \ {n}
      BY <1>4, <3>1
    <3>4. \A c \in 1..n :
            /\ catalogs[c].version = IF n # 0 /\ c > n THEN c - 1 ELSE c
            /\ catalogs[c].previous = IF n # 0 /\ c = n + 1 THEN n - 1 ELSE c - 1
      BY <1>4, <3>1
    <3> QED
      BY <1>2, <2>3, <3>2, <3>3, <3>4 DEF Branches
  <2>9. CatalogObject(n) \in Everything => FileObjects(Files(n)) \subseteq Everything
    BY <1>2, <1>8 DEF TipFiles
  <2> QED
    BY <1>7, <2>3, <2>4, <2>7, <2>8, <2>9
<1> QED
  BY <1>9, <1>10

LEMMA ForksMoves ==
  ASSUME IInv, FirstDevice, Forks, Next, ~Replace, ~Stop
  PROVE  Forks'
<1>1. CASE state = 0
  <2>1. job = <<>> /\ catalogs # <<>> /\ Kits = {}
    BY <1>1, NothingToImport DEF Forks
  <2>2. CopyKit \/ Connect \/ Tomorrow
    BY <1>1, <2>1 DEF Next, Create, Add, Delete, CollectExpired, CollectOrphans, CanCollect,
                      CanOpen, Work, Put, Restore, SaveSecrets, SaveState, RefreshKit,
                      Sweep, Idle, Kits
  <2>3. catalogs' = catalogs /\ job' = job /\ state' = state
    BY <2>2 DEF CopyKit, Connect, Tomorrow
  <2> QED
    BY <1>1, <2>1, <2>3 DEF Forks
<1>2. CASE state # 0
  <2>1. PICK d : Forked(d)
    BY <1>2 DEF Forks
  <2>2. state' # 0 /\ Forked(d)'
    <3>1. CASE Work
      <4>1. PICK w \in Writes :
              /\ job # <<>> /\ w = job[1] /\ w.do # "restore" /\ Fixed
              /\ state' = IF w.do = "save" THEN w.what ELSE state
              /\ \/ /\ job' = Tail(job) /\ Everything' = Everything \cup Puts(w)
                    /\ w.do = "sweep" => disk \subseteq w.what
                 \/ /\ job' = job /\ w.do = "sweep" /\ Len(job) = 1
                    /\ net' = net /\ \E o \in disk \ w.what : disk' = disk \ {o}
        BY <3>1, WorkIs
      <4>2. state' # 0
        <5>1. w.do = "save" => w.what \in Signed
          BY WriteFields
        <5>2. Signed = 1..Tip /\ Tip \in Nat
          BY TipIs
        <5> QED
          BY <1>2, <4>1, <5>1, <5>2
      <4>3. CASE /\ job' = Tail(job) /\ Everything' = Everything \cup Puts(w)
                 /\ w.do = "sweep" => disk \subseteq w.what
        BY <2>1, <4>1, <4>2, <4>3, ForkedWrites
      <4>4. CASE /\ job' = job /\ w.do = "sweep" /\ Len(job) = 1
                 /\ net' = net /\ \E o \in disk \ w.what : disk' = disk \ {o}
        <5>1. PICK o \in disk \ w.what : disk' = disk \ {o}
          BY <4>4
        <5>2. state' = state
          BY <4>1, <4>4
        <5> QED
          BY <2>1, <4>1, <4>2, <4>4, <5>1, <5>2, ForkedSwept
      <4> QED
        BY <4>1, <4>3, <4>4
    <3>2. CASE Create \/ Add \/ Delete \/ CollectExpired
      <4>1. PICK n \in Nat : n = Len(catalogs)
        BY DEF IInv, SignedOnesOK
      <4>2. PICK r : Signs(n, r)
        BY <3>2, <4>1, CommandsSign
      <4>3. state' = state
        BY <4>2 DEF Signs, Untouched
      <4> QED
        BY <1>2, <2>1, <4>1, <4>2, <4>3, ForkedSigns
    <3>3. CASE CollectOrphans
      <4>1. state' = state
        BY <3>3 DEF CollectOrphans
      <4> QED
        BY <1>2, <2>1, <3>3, <4>1, ForkedSweeps
    <3>4. CASE CopyKit \/ Connect \/ Tomorrow
      <4>1. state' = state
        BY <3>4 DEF CopyKit, Connect, Tomorrow
      <4> QED
        BY <1>2, <2>1, <3>4, <4>1, ForkedOthers
    <3>5. CASE \E checkpoint \in copies, sources \in Sources :
                 \E c \in Discovered(checkpoint, sources) :
                   Import(checkpoint, sources, c)
      BY <1>2, <3>5 DEF Import, Fresh
    <3> QED
      BY <3>1, <3>2, <3>3, <3>4, <3>5 DEF Next
  <2> QED
    BY <2>2 DEF Forks
<1> QED
  BY <1>1, <1>2

\* What the holder of a kit is told, should the device be lost now.
LEMMA ForkedFinds ==
  ASSUME IInv, FirstDevice, NEW d, Forked(d), job = <<>>, NEW checkpoint \in Kits
  PROVE  /\ Discovered(checkpoint, Everything) # {}
         /\ \A c \in Discovered(checkpoint, Everything) : Wanted(c) \subseteq Everything
<1>1. PICK n \in Nat : n = Tip /\ Signed = 1..n /\ DOMAIN catalogs = 1..n
  BY TipIs DEF IInv, SignedOnesOK, Tip
<1>2. /\ state = End(d) /\ Stays(d) \subseteq Everything
      /\ d # 0 /\ CatalogObject(d) \in Everything => FileObjects(Files(d)) \subseteq Everything
  BY ForkedWhenIdle
<1>3. /\ d \in 0..n /\ d # 1
      /\ \A c \in 1..n :
           /\ catalogs[c].version = IF d # 0 /\ c > d THEN c - 1 ELSE c
           /\ catalogs[c].previous = IF d # 0 /\ c = d + 1 THEN d - 1 ELSE c - 1
           /\ Chain(c) = IF c = d THEN 1..c ELSE (1..c) \ {d}
  BY <1>1 DEF Forked, Branches
<1>4. PICK e : e = End(d)
  OBVIOUS
<1>5. state # 0
  <2>1. SUFFICES ASSUME state = 0
                 PROVE  FALSE
    OBVIOUS
  <2> QED
    BY <2>1, NothingToImport
<1>6. e \in 1..n /\ e = (IF d = n THEN n - 1 ELSE n) /\ e # d /\ state = e
  BY <1>1, <1>2, <1>3, <1>4, <1>5 DEF End, IInv, StoredOK, Tip
<1>7. \A c \in 1..n : c # d => CatalogObject(c) \in Everything
  BY <1>1, <1>2 DEF Stays
<1>8. \A c \in 1..n : c \in Stored(Everything) <=> c # d \/ CatalogObject(d) \in Everything
  BY <1>1, <1>7 DEF Stored
<1>9. Stored(Everything) \subseteq 1..n
  BY <1>1 DEF Stored
<1>10. checkpoint \in 1..n /\ checkpoint # d
  <2>1. Chain(e) = (1..e) \ {d}
    BY <1>3, <1>6
  <2>2. checkpoint \in Chain(e)
    BY <1>6 DEF FirstDevice
  <2> QED
    BY <1>6, <2>1, <2>2
<1>11. \A c, k \in 1..n : k \in Heirs(c, Everything) <=>
                          k \in Stored(Everything) /\ catalogs[k].version = catalogs[c].version + 1
  BY DEF Heirs, Version
<1>12. \A c \in 1..n : Heirs(c, Everything) \subseteq 1..n
  BY <1>9 DEF Heirs
\* No other catalog of the line is found: the next one is stored and links to it.
<1>13. ASSUME NEW c \in Discovered(checkpoint, Everything)
       PROVE  c = e \/ (c = d /\ d # 0 /\ CatalogObject(d) \in Everything)
  <2>1. /\ c \in 1..n /\ c \in Stored(Everything)
        /\ Heirs(c, Everything) = {} \/ \E k \in Heirs(c, Everything) : catalogs[k].previous # c
    BY <1>9 DEF Discovered
  <2>2. SUFFICES ASSUME c # e, c # d
                 PROVE  FALSE
    BY <1>8, <2>1
  <2>3. PICK s : s = IF c + 1 = d THEN d + 1 ELSE c + 1
    OBVIOUS
  <2>4. s \in 1..n /\ s # d /\ catalogs[s].version = catalogs[c].version + 1
    <3>1. c < e
      BY <1>3, <1>6, <2>1, <2>2
    <3>2. s \in 1..n /\ s # d
      BY <1>3, <1>6, <2>1, <2>2, <2>3, <3>1
    <3>3. catalogs[s].version = IF d # 0 /\ s > d THEN s - 1 ELSE s
      BY <1>3, <3>2
    <3>4. catalogs[c].version = IF d # 0 /\ c > d THEN c - 1 ELSE c
      BY <1>3, <2>1
    <3> QED
      BY <1>3, <2>1, <2>2, <2>3, <3>2, <3>3, <3>4
  <2>5. s \in Heirs(c, Everything)
    BY <1>8, <1>11, <2>1, <2>4
  <2>6. ASSUME NEW k \in Heirs(c, Everything)
        PROVE  catalogs[k].previous = c
    <3>1. k \in 1..n /\ catalogs[k].version = catalogs[c].version + 1
      BY <1>11, <1>12, <2>1, <2>6
    <3>2. catalogs[k].version = IF d # 0 /\ k > d THEN k - 1 ELSE k
      BY <1>3, <3>1
    <3>3. catalogs[c].version = IF d # 0 /\ c > d THEN c - 1 ELSE c
      BY <1>3, <2>1
    <3>4. catalogs[k].previous = IF d # 0 /\ k = d + 1 THEN d - 1 ELSE k - 1
      BY <1>3, <3>1
    <3> QED
      BY <1>3, <2>1, <2>2, <3>1, <3>2, <3>3, <3>4
  <2> QED
    BY <2>1, <2>5, <2>6
<1>14. Wanted(e) \subseteq Everything
  <2>1. Chain(e) \subseteq (1..n) \ {d}
    BY <1>3, <1>6
  <2>2. ChainObjects(e) \subseteq Everything
    BY <1>7, <2>1 DEF ChainObjects
  <2>3. FileObjects(Files(e)) \subseteq Everything
    BY <1>2, <1>4 DEF Stays
  <2> QED
    BY <2>2, <2>3 DEF Wanted
<1>15. d # 0 /\ CatalogObject(d) \in Everything => Wanted(d) \subseteq Everything
  <2>1. SUFFICES ASSUME d # 0, CatalogObject(d) \in Everything
                 PROVE  Wanted(d) \subseteq Everything
    OBVIOUS
  <2>2. Chain(d) \subseteq 1..n /\ \A c \in 1..n : CatalogObject(c) \in Everything
    BY <1>3, <1>7, <2>1
  <2>3. ChainObjects(d) \subseteq Everything
    BY <2>2 DEF ChainObjects
  <2> QED
    BY <1>2, <2>1, <2>3 DEF Wanted
<1>16. Discovered(checkpoint, Everything) # {}
  <2>1. checkpoint <= e \/ checkpoint = d
    BY <1>3, <1>6, <1>10
  <2>2. CASE d = n /\ CatalogObject(d) \in Everything /\ d # 0
    <3>1. d \in 1..n /\ checkpoint \in Chain(d) /\ Chain(d) = 1..n
      BY <1>3, <1>10, <2>2
    <3>2. Chain(d) \subseteq Stored(Everything) /\ d \in Stored(Everything)
      BY <1>8, <2>2, <3>1
    <3>3. Heirs(d, Everything) = {}
      <4>1. catalogs[d].version = d /\ \A k \in 1..n : catalogs[k].version # d + 1
        BY <1>3, <2>2, <3>1
      <4> QED
        BY <1>11, <1>12, <3>1, <4>1
    <3>4. d \in Discovered(checkpoint, Everything)
      BY <3>1, <3>2, <3>3 DEF Discovered
    <3> QED
      BY <3>4
  <2>3. CASE ~(d = n /\ CatalogObject(d) \in Everything /\ d # 0)
    <3>1. checkpoint \in Chain(e) /\ Chain(e) \subseteq (1..n) \ {d}
      <4>1. Chain(e) = (1..e) \ {d}
        BY <1>3, <1>6
      <4>2. checkpoint \in 1..e
        BY <1>6, <1>10, <2>1
      <4> QED
        BY <1>6, <1>10, <4>1, <4>2
    <3>2. Chain(e) \subseteq Stored(Everything) /\ e \in Stored(Everything)
      BY <1>6, <1>8, <3>1
    <3>3. Heirs(e, Everything) = {}
      <4>1. ASSUME NEW k \in Heirs(e, Everything)
            PROVE  FALSE
        <5>1. /\ k \in 1..n /\ k \in Stored(Everything)
              /\ catalogs[k].version = catalogs[e].version + 1
          BY <1>6, <1>11, <1>12, <4>1
        <5>2. catalogs[k].version = IF d # 0 /\ k > d THEN k - 1 ELSE k
          BY <1>3, <5>1
        <5>3. catalogs[e].version = IF d # 0 /\ e > d THEN e - 1 ELSE e
          BY <1>3, <1>6
        <5>4. k = n /\ k = d
          BY <1>3, <1>6, <5>1, <5>2, <5>3
        <5>5. CatalogObject(d) \in Everything
          BY <1>8, <5>1, <5>4
        <5>6. d # 0
          BY <5>1, <5>4
        <5> QED
          BY <2>3, <5>4, <5>5, <5>6
      <4> QED
        BY <4>1
    <3>4. e \in Discovered(checkpoint, Everything)
      BY <3>1, <3>2, <3>3 DEF Discovered
    <3> QED
      BY <3>4
  <2> QED
    BY <2>2, <2>3
<1> QED
  BY <1>13, <1>14, <1>15, <1>16

Branching ==
  ~replaced => FirstDevice /\ (stops = 0 => StillThere) /\ (stops = 1 => Forks)

LEMMA BranchingInitially ==
  ASSUME Init
  PROVE  Branching
<1>1. /\ job = <<>> /\ state = 0 /\ kit = {} /\ copies = {} /\ stops = 0
      /\ disk = {} /\ net = {} /\ old = {} /\ \A i : i \notin 1..Len(<<>>)
  BY DEF Init
<1>2. Apart /\ Writing /\ Kits = {}
  BY <1>1 DEF Apart, Writing, Kits
<1> QED
  BY <1>1, <1>2 DEF Branching, FirstDevice, StillThere

LEMMA BranchingMoves ==
  ASSUME IInv, stops = 0 => Straight, Branching, [Next]_vars
  PROVE  Branching'
<1>1. SUFFICES ASSUME ~replaced'
               PROVE  FirstDevice' /\ (stops' = 0 => StillThere') /\ (stops' = 1 => Forks')
  BY DEF Branching
<1>2. FirstDevice'
  BY <1>1, FirstDeviceMoves DEF Branching
<1>3. CASE UNCHANGED vars
  <2>1. /\ catalogs' = catalogs /\ job' = job /\ made' = made /\ state' = state
        /\ Everything' = Everything /\ replaced' = replaced /\ stops' = stops
    BY <1>3 DEF vars, Everything
  <2>2. (Saving' <=> Saving) /\ (Sweeping' <=> Sweeping)
    BY <2>1 DEF Saving, Sweeping
  <2>3. FileObjects(Files(state))' = FileObjects(Files(state))
    BY <2>1 DEF FileObjects, Manifest, Chunk, Files
  <2>4. ASSUME NEW d, Forked(d)
        PROVE  Forked(d)'
    <3>1. /\ Branches(d)' /\ End(d)' = End(d) /\ Stays(d)' = Stays(d)
          /\ FileObjects(Files(d))' = FileObjects(Files(d))
          /\ CatalogObject(d)' = CatalogObject(d)
      BY <2>1, <2>4, SameBranches DEF Forked
    <3>2. \A o : Has(Len(job) + 1, o)' = Has(Len(job) + 1, o)
      BY <2>1 DEF Has, Puts
    <3> QED
      BY <2>1, <2>2, <2>4, <3>1, <3>2
      DEF Forked, SavesTheEnd, LeavesBranch, BranchIsWhole
  <2>5. Forks => Forks'
    BY <2>1, <2>4 DEF Forks
  <2> QED
    BY <1>1, <1>2, <2>1, <2>2, <2>3, <2>5 DEF Branching, StillThere
<1>4. CASE Next
  <2>1. ~replaced /\ ~Replace
    <3>1. ~Replace
      BY <1>1 DEF Replace
    <3>2. replaced' = replaced
      BY <1>4, <3>1 DEF Next, Create, Add, Delete, CollectExpired, CollectOrphans,
                        CopyKit, Connect, Import, Work, Stop, Tomorrow
    <3> QED
      BY <1>1, <3>1, <3>2
  <2>2. FirstDevice /\ (stops = 0 => StillThere) /\ (stops = 1 => Forks) /\ stops \in Nat
    BY <2>1 DEF Branching, IInv, StoredOK
  <2>3. CASE Stop
    <3>1. stops' = stops + 1
      BY <2>3 DEF Stop
    <3>2. ASSUME stops = 0
          PROVE  Forks'
      <4>1. CASE state = 0
        <5>1. job # <<>> /\ job' = <<>> /\ catalogs' = catalogs /\ state' = state
          BY <2>3 DEF Stop, Idle
        <5> QED
          BY <2>2, <4>1, <5>1 DEF Forks, FirstDevice, Apart
      <4>2. CASE state # 0
        <5>1. \E d : Forked(d)'
          BY <2>2, <2>3, <3>2, <4>2, ForkAtStop
        <5>2. state' # 0
          BY <2>3, <4>2 DEF Stop
        <5> QED
          BY <5>1, <5>2 DEF Forks
      <4> QED
        BY <4>1, <4>2
    <3> QED
      BY <1>2, <2>2, <3>1, <3>2
  <2>4. CASE ~Stop
    <3>1. stops' = stops
      BY <1>4, <2>1, <2>4 DEF Next, Create, Add, Delete, CollectExpired, CollectOrphans,
                        CopyKit, Connect, Import, Work, Tomorrow
    <3>2. stops = 0 => StillThere'
      BY <1>4, <2>1, <2>2, <2>4, StillThereMoves
    <3>3. stops = 1 => Forks'
      BY <1>4, <2>1, <2>2, <2>4, ForksMoves
    <3> QED
      BY <1>2, <3>1, <3>2, <3>3
  <2> QED
    BY <2>3, <2>4
<1> QED
  BY <1>3, <1>4

LEMMA BranchingFinds ==
  ASSUME IInv, stops = 0 => Straight, Branching
  PROVE  KitsRecoverWhole
<1>1. SUFFICES ASSUME job = <<>>, ~replaced, stops <= 1, NEW checkpoint \in Kits
               PROVE  /\ Discovered(checkpoint, Everything) # {}
                      /\ \A c \in Discovered(checkpoint, Everything) :
                           Wanted(c) \subseteq Everything
  BY DEF KitsRecoverWhole, Idle
<1>2. stops = 0 \/ stops = 1
  BY <1>1 DEF IInv, StoredOK
<1>3. CASE stops = 0
  BY <1>1, <1>3, StraightFinds DEF KitsFindTheLatest
<1>4. CASE stops = 1
  <2>1. FirstDevice /\ Forks
    BY <1>1, <1>4 DEF Branching
  <2>2. state # 0
    <3>1. SUFFICES ASSUME state = 0
                   PROVE  FALSE
      OBVIOUS
    <3> QED
      BY <1>1, <2>1, <3>1, NothingToImport
  <2>3. PICK d : Forked(d)
    BY <2>1, <2>2 DEF Forks
  <2> QED
    BY <1>1, <2>1, <2>3, ForkedFinds
<1> QED
  BY <1>2, <1>3, <1>4

-----------------------------------------------------------------------------
(***************************************************************************)
(* The theorems.                                                           *)
(***************************************************************************)
\* The invariant holds, and the line of catalogs until a command is cut short.
LEMMA Invariance == Spec => [](IInv /\ (stops = 0 => Straight))
<1>1. Init => IInv /\ (stops = 0 => Straight)
  BY Initially, StraightInitially
<1>2. IInv /\ (stops = 0 => Straight) /\ [Next]_vars
        => (IInv /\ (stops = 0 => Straight))'
  <2>1. SUFFICES ASSUME IInv, stops = 0 => Straight, [Next]_vars
                 PROVE  IInv' /\ (stops' = 0 => Straight')
    OBVIOUS
  <2>2. CASE Next
    BY <2>1, <2>2, Moves, StraightMoves
  <2>3. CASE UNCHANGED vars
    <3>1. stops' = stops
      BY <2>3 DEF vars
    <3> QED
      BY <2>1, <2>3, <3>1, Resting, StraightRests
  <2> QED
    BY <2>1, <2>2, <2>3
<1> QED
  BY <1>1, <1>2, PTL DEF Spec

\* The state of the application, its folders, its kits and the catalogs that it
\* has signed keep their form: each catalog links to an earlier one, and the
\* state and the kits name catalogs that were signed.
THEOREM DesktopTypes == Spec => []TypeOK
BY Invariance, Typed, PTL

\* Whatever command is cut short between two of its writes, and however often,
\* the vault that a device has saved opens there, with its whole history and
\* every file on its list, unless the device was connected to another storage
\* after it got the vault.
THEOREM SavedVaultsOpen == Spec => []VaultReadable
BY Invariance, Reads, PTL

\* Until a command is cut short, every Recovery Kit ever written finds exactly
\* one catalog in the storages of the owner, with its whole history and all its
\* files, also while a command is at work and after the device was replaced;
\* and between commands it finds the latest.
THEOREM KitsFind == Spec => []KitsFindTheLatest
<1>1. IInv /\ (stops = 0 => Straight) => KitsFindTheLatest
  BY StraightFinds
<1> QED
  BY <1>1, Invariance, PTL

\* One command that was cut short costs no kit its files, should the device be
\* lost next: whatever a Recovery Kit finds in its storages between two commands,
\* be it the latest catalog or the one that the accident left unsaved, is there
\* with its whole history and every file.
THEOREM KitsRecover == Spec => []KitsRecoverWhole
<1> DEFINE I == IInv /\ (stops = 0 => Straight)
<1>1. Init => Branching
  BY BranchingInitially
<1>2. I /\ Branching /\ [Next]_vars => Branching'
  BY BranchingMoves
<1>3. I /\ Branching => KitsRecoverWhole
  BY BranchingFinds
<1>4. Spec => []I
  BY Invariance
<1> HIDE DEF I
<1> QED
  BY <1>1, <1>2, <1>3, <1>4, PTL DEF Spec
=============================================================================
