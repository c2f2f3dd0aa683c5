--------------------------- MODULE LocalVaultProof ---------------------------
(***************************************************************************)
(* Proofs about LocalVault: wherever commands stop, the history of the     *)
(* current catalog, the catalog of every kit and every retained file stay  *)
(* stored; and as long as none stops half way, every kit recovers the      *)
(* current catalog.                                                        *)
(***************************************************************************)
EXTENDS LocalVault, FiniteSetTheorems, TLAPS

Ids == 1..Len(catalogs)

Ops     == {"add", "delete", "gc"}
Steps   == {"objects", "save", "kit", "sweep"}
Catalog == [version : Nat, previous : Nat, files : SUBSET Entry]

Todo == {command.todo[k] : k \in 1..Len(command.todo)}

(***************************************************************************)
(* Signed catalogs: each links to an earlier one, none has a higher        *)
(* version than its number, and each names a file at most once.            *)
(***************************************************************************)
OnePerFile(files) == \A d, e \in files : d.file = e.file => d = e

CatalogsOK ==
  /\ catalogs \in Seq(Catalog) /\ Len(catalogs) \in 1..MaxCatalogs
  /\ \A i \in Ids : /\ catalogs[i].version \in 1..i
                    /\ catalogs[i].previous \in 0..i - 1
                    /\ IsFiniteSet(catalogs[i].files)
                    /\ OnePerFile(catalogs[i].files)

(***************************************************************************)
(* The chains that the links make: there is one function that follows      *)
(* them, and it leads to catalogs only.                                    *)
(***************************************************************************)
Follows(f) ==
  f = [j \in 0..Len(catalogs) |-> IF j = 0 THEN {} ELSE {j} \cup f[catalogs[j].previous]]

ChainsOK ==
  /\ \E f : Follows(f) /\ \A g : Follows(g) => g = f
  /\ \A i \in Ids : Chain(i) \subseteq Ids

DiskOK ==
  /\ store \subseteq Object
  /\ state \in Ids
  /\ kits \subseteq Chain(state)
  /\ HistoryStays
  /\ day \in Day /\ crashes \in 0..MaxCrashes

(***************************************************************************)
(* What a running command has still to do fits what it found: a catalog is *)
(* written only if there is room for it, the one that state.json is about  *)
(* to name is stored and links to the one it names now, and only a gc      *)
(* sweeps, and keeps what the catalog it leaves needs.                     *)
(***************************************************************************)
CommandOK ==
  command # null =>
    /\ command \in Command
    /\ IsFiniteSet(command.files) /\ OnePerFile(command.files)
    /\ command.step = "objects" => Len(catalogs) < MaxCatalogs
    /\ command.step = "save" =>
         LET new == catalogs[Len(catalogs)]
         IN  /\ Len(catalogs) # state /\ new.previous = state
             /\ new.files = command.files
             /\ <<"catalog", Len(catalogs)>> \in store
    /\ command.step \in {"kit", "sweep"} => command.files = Files
    /\ command.op # "gc" => /\ command.step # "sweep"
                            /\ command.step = "objects" => command.files # Files
    /\ command.op = "gc" => \A e \in command.files : Objects(e.file) \subseteq command.keep

(***************************************************************************)
(* A gc removes only objects of files that have expired and that its       *)
(* catalog does not name.                                                  *)
(***************************************************************************)
GcOK ==
  command # null /\ command.op = "gc" /\ command.step = "objects" =>
    \A object \in Todo :
      /\ \E e \in Files : Expired(e) /\ object \in Objects(e.file)
      /\ \A e \in command.files : object \notin Objects(e.file)

(***************************************************************************)
(* Retained files are there, those of the catalog that a command is about  *)
(* to sign as soon as it has stored them; and until a command stops half   *)
(* way, so are expired ones, unless a gc removes them.                     *)
(***************************************************************************)
Collecting ==
  command # null /\ command.op = "gc" /\ command.step \in {"objects", "save"}

Coming == IF command.op = "gc" THEN {} ELSE Todo

FilesOK ==
  /\ \A e \in Files :
       ~Expired(e) \/ (crashes = 0 /\ ~Collecting) => Objects(e.file) \subseteq store
  /\ command # null /\ command.step \in {"objects", "save"} =>
       \A e \in command.files :
         ~Expired(e) \/ crashes = 0 => Objects(e.file) \subseteq store \cup Coming

\* The files of what is signed are stored before.
SignedOK ==
  command # null /\ command.step = "save" => command.todo = <<>>

(***************************************************************************)
(* Until a command stops half way, catalogs form one chain.                *)
(***************************************************************************)
LineOK ==
  crashes = 0 =>
    /\ \A i \in Ids : /\ catalogs[i].version = i /\ catalogs[i].previous = i - 1
                      /\ Chain(i) = 1..i
    /\ IF command # null /\ command.step = "save" THEN Len(catalogs) = state + 1
                                                  ELSE Len(catalogs) = state

IInv ==
  /\ CatalogsOK /\ ChainsOK /\ DiskOK /\ CommandOK /\ GcOK /\ FilesOK /\ SignedOK
  /\ LineOK

-----------------------------------------------------------------------------
(***************************************************************************)
(* Chains.                                                                 *)
(***************************************************************************)
LEMMA HistoryFollows ==
  ASSUME ChainsOK
  PROVE  Follows(History) /\ \A f : Follows(f) => f = History
<1>1. History = CHOOSE f : Follows(f)
  BY DEF History, Follows
<1> QED
  BY <1>1 DEF ChainsOK

LEMMA ChainLinks ==
  ASSUME CatalogsOK, ChainsOK
  PROVE  /\ Chain(0) = {}
         /\ \A i \in Ids : Chain(i) = {i} \cup Chain(catalogs[i].previous)
<1>1. Follows(History)
  BY HistoryFollows
<1>2. Len(catalogs) \in Nat
  BY DEF CatalogsOK
<1> QED
  BY <1>1, <1>2 DEF Follows, Chain, Ids

LEMMA SameChains ==
  ASSUME ChainsOK, catalogs' = catalogs
  PROVE  ChainsOK' /\ \A i : Chain(i)' = Chain(i)
<1>1. \A f : Follows(f)' <=> Follows(f)
  BY DEF Follows
<1>2. History' = CHOOSE f : Follows(f)'
  BY DEF History, Follows
<1>3. Follows(History) /\ \A f : Follows(f) => f = History
  BY HistoryFollows
<1>4. History' = History
  BY <1>1, <1>2, <1>3
<1> QED
  BY <1>1, <1>3, <1>4 DEF ChainsOK, Chain, Ids

LEMMA LongerChains ==
  ASSUME CatalogsOK, ChainsOK, NEW n, n = Len(catalogs),
         NEW r, r.previous \in 0..n, catalogs' = Append(catalogs, r)
  PROVE  /\ ChainsOK'
         /\ \A i \in 0..n : Chain(i)' = Chain(i)
         /\ Chain(n + 1)' = {n + 1} \cup Chain(r.previous)
<1> DEFINE p == r.previous
<1>0. PICK h : h = [j \in 0..n + 1 |-> IF j = n + 1 THEN {n + 1} \cup History[p]
                                                    ELSE History[j]]
  BY Zenon
<1>1. n \in Nat /\ p \in 0..n
  BY DEF CatalogsOK
<1>2. /\ Len(catalogs') = n + 1 /\ catalogs'[n + 1] = r
      /\ \A i \in 1..n : catalogs'[i] = catalogs[i]
  BY DEF CatalogsOK
<1>3. Follows(History) /\ \A f : Follows(f) => f = History
  BY HistoryFollows
<1>4. /\ DOMAIN History = 0..n /\ History[0] = {}
      /\ \A j \in 1..n : History[j] = {j} \cup History[catalogs[j].previous]
  <2>1. History = [j \in 0..n |-> IF j = 0 THEN {} ELSE {j} \cup History[catalogs[j].previous]]
    BY <1>3, Zenon DEF Follows
  <2>2. /\ DOMAIN History = 0..n
        /\ \A j \in 0..n :
             History[j] = IF j = 0 THEN {} ELSE {j} \cup History[catalogs[j].previous]
    BY <2>1, Zenon
  <2> QED
    BY <1>1, <2>2
<1>5. \A i \in 1..n : catalogs[i].previous \in 0..i - 1
  BY DEF CatalogsOK, Ids
<1>6. \A j \in 1..n : catalogs'[j].previous = catalogs[j].previous
  BY <1>2
<1>7. catalogs'[n + 1].previous = p
  BY <1>2
<1> HIDE DEF p
<1>8. Follows(h)'
  <2>1. /\ h[n + 1] = {n + 1} \cup History[p]
        /\ \A j \in 0..n : h[j] = History[j]
    BY <1>0, <1>1
  <2>2. \A j \in 1..n : h[j] = {j} \cup h[catalogs'[j].previous]
    <3> TAKE j \in 1..n
    <3>1. catalogs[j].previous \in 0..n
      BY <1>1, <1>5
    <3> QED
      BY <1>1, <1>4, <1>6, <2>1, <3>1
  <2>3. h[0] = {} /\ h[n + 1] = {n + 1} \cup h[catalogs'[n + 1].previous]
    <3>1. 0 \in 0..n
      BY <1>1
    <3> QED
      BY <1>1, <1>4, <1>7, <2>1, <3>1, Zenon
  <2>4. \A j \in 0..n + 1 : h[j] = IF j = 0 THEN {} ELSE {j} \cup h[catalogs'[j].previous]
    <3>1. \A j \in 0..n + 1 : j = 0 \/ j = n + 1 \/ j \in 1..n
      BY <1>1
    <3> QED
      BY <2>2, <2>3, <3>1, <1>1
  <2>5. h = [j \in 0..n + 1 |-> h[j]]
    BY <1>0, Zenon
  <2>6. h = [j \in 0..n + 1 |-> IF j = 0 THEN {} ELSE {j} \cup h[catalogs'[j].previous]]
    BY <2>4, <2>5, Zenon
  <2> QED
    BY <1>2, <2>6, Zenon DEF Follows
<1>9. ASSUME NEW g, Follows(g)'
      PROVE  g = h
  <2>1. g = [j \in 0..n + 1 |-> IF j = 0 THEN {} ELSE {j} \cup g[catalogs'[j].previous]]
    BY <1>2, <1>9, Zenon DEF Follows
  <2>2. /\ DOMAIN g = 0..n + 1 /\ g = [j \in 0..n + 1 |-> g[j]]
        /\ \A j \in 0..n + 1 : g[j] = IF j = 0 THEN {} ELSE {j} \cup g[catalogs'[j].previous]
    BY <2>1
  <2>3. g[0] = {} /\ g[n + 1] = {n + 1} \cup g[p]
    BY <1>1, <1>7, <2>2
  <2>4. \A j \in 1..n : g[j] = {j} \cup g[catalogs[j].previous]
    BY <1>1, <1>6, <2>2
  <2> DEFINE k == [j \in 0..n |-> g[j]]
  <2>5. \A j \in 0..n : k[j] = g[j]
    OBVIOUS
  <2>6. k = [j \in 0..n |-> k[j]]
    OBVIOUS
  <2> HIDE DEF k
  <2>7. \A j \in 0..n : k[j] = IF j = 0 THEN {} ELSE {j} \cup k[catalogs[j].previous]
    <3> TAKE j \in 0..n
    <3>1. CASE j = 0
      BY <1>1, <2>3, <2>5, <3>1
    <3>2. CASE j # 0
      <4>1. j \in 1..n
        BY <1>1, <3>2
      <4>2. catalogs[j].previous \in 0..n
        BY <1>1, <1>5, <4>1
      <4> QED
        BY <2>4, <2>5, <3>2, <4>1, <4>2
    <3> QED
      BY <3>1, <3>2
  <2>8. k = [j \in 0..n |-> IF j = 0 THEN {} ELSE {j} \cup k[catalogs[j].previous]]
    BY <2>6, <2>7, Zenon
  <2>9. k = History
    BY <1>3, <2>8, Zenon DEF Follows
  <2>10. \A j \in 0..n : g[j] = History[j]
    BY <2>5, <2>9
  <2>11. \A j \in 0..n + 1 : g[j] = h[j]
    <3>1. /\ h[n + 1] = {n + 1} \cup History[p]
          /\ \A j \in 0..n : h[j] = History[j]
      BY <1>0, <1>1
    <3>2. g[n + 1] = h[n + 1]
      BY <1>1, <1>4, <2>3, <2>10, <3>1
    <3>3. \A j \in 0..n + 1 : j = n + 1 \/ j \in 0..n
      BY <1>1
    <3> QED
      BY <2>10, <3>1, <3>2, <3>3, Zenon
  <2>12. h = [j \in 0..n + 1 |-> h[j]]
    BY <1>0, Zenon
  <2> QED
    BY <2>2, <2>11, <2>12, Zenon
<1>10. History' = h
  <2>1. History' = CHOOSE f : Follows(f)'
    BY DEF History, Follows
  <2> QED
    BY <1>8, <1>9, <2>1
<1>11. /\ \A i \in 0..n : Chain(i)' = Chain(i)
       /\ Chain(n + 1)' = {n + 1} \cup Chain(p)
  BY <1>0, <1>1, <1>10 DEF Chain
<1>12. \A i \in Ids' : Chain(i)' \subseteq Ids'
  <2>1. Chain(0) = {}
    BY <1>4 DEF Chain
  <2>2. \A i \in 0..n : Chain(i) \subseteq 1..n
    BY <1>1, <2>1 DEF ChainsOK, Ids
  <2>3. Ids' = 1..n + 1
    BY <1>2 DEF Ids
  <2>4. \A i \in 1..n + 1 : Chain(i)' \subseteq 1..n + 1
    BY <1>1, <1>11, <2>2
  <2> QED
    BY <2>3, <2>4
<1> QED
  BY <1>8, <1>9, <1>11, <1>12 DEF ChainsOK, p

-----------------------------------------------------------------------------
(***************************************************************************)
(* Commands.                                                               *)
(***************************************************************************)
LEMMA CommandFields ==
  ASSUME NEW c \in Command
  PROVE  /\ c.op \in Ops /\ c.step \in Steps /\ c.todo \in Seq(Object)
         /\ c.files \in SUBSET Entry /\ c.keep \in SUBSET Object
         /\ c # null
BY NullAssumption DEF Command, Ops, Steps

LEMMA CommandMade ==
  ASSUME NEW op \in Ops, NEW step \in Steps, NEW todo \in Seq(Object),
         NEW files \in SUBSET Entry, NEW keep \in SUBSET Object
  PROVE  [op |-> op, step |-> step, todo |-> todo, files |-> files, keep |-> keep]
           \in Command
BY DEF Command, Ops, Steps

LEMMA FieldSet ==
  ASSUME NEW c \in Command, NEW step \in Steps, NEW todo \in Seq(Object)
  PROVE  /\ [c EXCEPT !.step = step]
              = [op |-> c.op, step |-> step, todo |-> c.todo,
                 files |-> c.files, keep |-> c.keep]
         /\ [c EXCEPT !.todo = todo]
              = [op |-> c.op, step |-> c.step, todo |-> todo,
                 files |-> c.files, keep |-> c.keep]
<1>1. [c EXCEPT !.step = step]
        = [op |-> c.op, step |-> step, todo |-> c.todo, files |-> c.files, keep |-> c.keep]
  BY DEF Command
<1>2. [c EXCEPT !.todo = todo]
        = [op |-> c.op, step |-> c.step, todo |-> todo, files |-> c.files, keep |-> c.keep]
  BY DEF Command
<1> QED
  BY <1>1, <1>2

(***************************************************************************)
(* The command goes on to a step, or to the next of its objects.           *)
(***************************************************************************)
LEMMA ToStep ==
  ASSUME NEW step \in Steps, command \in Command, command' = [command EXCEPT !.step = step]
  PROVE  /\ command' \in Command /\ command' # null
         /\ command'.op = command.op /\ command'.step = step
         /\ command'.todo = command.todo /\ command'.files = command.files
         /\ command'.keep = command.keep
<1> DEFINE d == [op |-> command.op, step |-> step, todo |-> command.todo,
                 files |-> command.files, keep |-> command.keep]
<1>1. command' = d
  BY CommandFields, FieldSet, Zenon
<1>2. d \in Command /\ d # null
  BY CommandFields, CommandMade, Zenon
<1> QED
  BY <1>1, <1>2, Zenon

LEMMA ToNextObject ==
  ASSUME command \in Command, command.todo # <<>>,
         command' = [command EXCEPT !.todo = Tail(@)]
  PROVE  /\ command' \in Command /\ command' # null
         /\ command'.op = command.op /\ command'.step = command.step
         /\ command'.todo = Tail(command.todo) /\ command'.files = command.files
         /\ command'.keep = command.keep
<1> DEFINE rest == Tail(command.todo)
           d    == [op |-> command.op, step |-> command.step, todo |-> rest,
                    files |-> command.files, keep |-> command.keep]
<1>1. command.todo \in Seq(Object)
  BY CommandFields, Zenon
<1>2. \A s \in Seq(Object) : s # <<>> => Tail(s) \in Seq(Object)
  OBVIOUS
<1>3. rest \in Seq(Object)
  BY <1>1, <1>2, Zenon
<1>4. command' = [command EXCEPT !.todo = rest]
  OBVIOUS
<1> HIDE DEF rest
<1>5. command' = d
  BY <1>3, <1>4, CommandFields, FieldSet, Zenon
<1>6. d \in Command /\ d # null
  BY <1>3, CommandFields, CommandMade, Zenon
<1> QED
  BY <1>5, <1>6, Zenon DEF rest

-----------------------------------------------------------------------------
(***************************************************************************)
(* What holds of the vault when an action begins.                          *)
(***************************************************************************)
LEMMA Vault ==
  ASSUME IInv
  PROVE  /\ Len(catalogs) \in Nat /\ state \in 1..Len(catalogs) /\ Ids = 1..Len(catalogs)
         /\ \A i \in Ids : catalogs[i] \in Catalog
         /\ Files \in SUBSET Entry /\ IsFiniteSet(Files) /\ OnePerFile(Files)
         /\ Stored(Chain(state)) \subseteq store /\ store \subseteq Object
         /\ Chain(state) \subseteq Ids
         /\ day \in Nat
<1>1. /\ CatalogsOK /\ ChainsOK /\ DiskOK
  BY DEF IInv
<1>2. /\ Len(catalogs) \in Nat /\ state \in 1..Len(catalogs) /\ Ids = 1..Len(catalogs)
      /\ \A i \in Ids : catalogs[i] \in Catalog
  BY <1>1 DEF CatalogsOK, DiskOK, Ids
<1>3. /\ Files \in SUBSET Entry /\ IsFiniteSet(Files) /\ OnePerFile(Files)
  BY <1>1, <1>2 DEF CatalogsOK, Files, Catalog
<1>4. Stored(Chain(state)) \subseteq store /\ store \subseteq Object /\ Chain(state) \subseteq Ids
  BY <1>1, <1>2 DEF DiskOK, ChainsOK, HistoryStays
<1>5. day \in Nat
  BY <1>1, BoundsAssumption DEF DiskOK, Day
<1> QED
  BY <1>2, <1>3, <1>4, <1>5

LEMMA SameCatalogs ==
  ASSUME IInv, catalogs' = catalogs
  PROVE  /\ CatalogsOK' /\ ChainsOK' /\ Ids' = Ids
         /\ \A i : Chain(i)' = Chain(i)
         /\ state' = state => Files' = Files
BY SameChains DEF IInv, CatalogsOK, Ids, Files

(***************************************************************************)
(* The disk stays in order while the chain of the current catalog does.    *)
(***************************************************************************)
LEMMA DiskStays ==
  ASSUME IInv, catalogs' = catalogs, state' = state, kits' = kits,
         day' \in Day, crashes' \in 0..MaxCrashes,
         store' \subseteq Object, Stored(Chain(state)) \subseteq store'
  PROVE  DiskOK'
<1>1. Chain(state)' = Chain(state) /\ Ids' = Ids
  BY SameCatalogs
<1>2. DiskOK
  BY DEF IInv
<1>3. Stored(kits) \subseteq Stored(Chain(state))
  BY <1>2 DEF DiskOK, Stored
<1> QED
  BY <1>1, <1>2, <1>3 DEF DiskOK, HistoryStays

LEMMA LineStays ==
  ASSUME IInv, catalogs' = catalogs, state' = state, crashes' = 0 => crashes = 0,
         crashes' = 0 =>
           (command' # null /\ command'.step = "save" <=> command # null /\ command.step = "save")
  PROVE  LineOK'
BY SameCatalogs DEF IInv, LineOK

LEMMA ObjectsOf ==
  ASSUME NEW e \in Entry
  PROVE  /\ e.file \in File /\ Objects(e.file) \subseteq Object
         /\ \A ids : Stored(ids) \cap Objects(e.file) = {}
         /\ \A d \in Entry : Objects(d.file) \cap Objects(e.file) # {} => d.file = e.file
BY DEF Entry, Objects, Object, Stored

(***************************************************************************)
(* Beginning a command.                                                    *)
(***************************************************************************)
LEMMA BeginAddKeeps ==
  ASSUME IInv, NEW f \in File, BeginAdd(f)
  PROVE  IInv'
<1> DEFINE new  == [file |-> f, until |-> null]
           todo == <<<<"chunk", f>>, <<"manifest", f>>>>
           next == Files \cup {new}
<1>1. /\ command = null
      /\ Len(catalogs) < MaxCatalogs
      /\ \A i \in 1..Len(catalogs) : \A e \in catalogs[i].files : e.file # f
      /\ UNCHANGED <<catalogs, store, state, kits, day, crashes>>
  BY DEF BeginAdd, CanStart
<1>2. command' = [op |-> "add", step |-> "objects", todo |-> todo, files |-> next, keep |-> {}]
  BY DEF BeginAdd, Begin
<1>3. /\ new \in Entry /\ todo \in Seq(Object) /\ {} \in SUBSET Object
      /\ new.file = f /\ new.until = null
  BY DEF Entry, Object
<1>4. Len(todo) = 2 /\ todo[1] = <<"chunk", f>> /\ todo[2] = <<"manifest", f>>
  OBVIOUS
<1>5. \A e \in Files : e.file # f
  BY <1>1, Vault DEF Files
<1>6. next \in SUBSET Entry /\ IsFiniteSet(next) /\ OnePerFile(next) /\ next # Files
  <2>1. new \notin Files
    BY <1>3, <1>5
  <2>2. IsFiniteSet(next)
    BY Vault, FS_AddElement
  <2> QED
    BY <1>3, <1>5, <2>1, <2>2, Vault DEF OnePerFile
<1> HIDE DEF new, todo, next
<1>7. /\ command' \in Command /\ command' # null
      /\ command'.op = "add" /\ command'.step = "objects" /\ command'.todo = todo
      /\ command'.files = next /\ command'.keep = {}
  BY <1>2, <1>3, <1>6, CommandMade, CommandFields DEF Ops, Steps
<1>8. /\ CatalogsOK' /\ ChainsOK' /\ Files' = Files /\ DiskOK'
  BY <1>1, SameCatalogs, DiskStays, Vault DEF IInv, DiskOK
<1>9. CommandOK'
  BY <1>1, <1>6, <1>7, <1>8 DEF CommandOK
<1>10. GcOK' /\ SignedOK'
  BY <1>7 DEF GcOK, SignedOK
<1>11. FilesOK'
  <2>1. \A e \in Files : ~Expired(e) \/ crashes = 0 => Objects(e.file) \subseteq store
    BY <1>1 DEF IInv, FilesOK, Collecting
  <2>2. \A e : Expired(e)' <=> Expired(e)
    BY <1>1 DEF Expired
  <2>3. Objects(new.file) \subseteq Todo'
    <3>1. Todo' = {todo[k] : k \in 1..2}
      BY <1>4, <1>7 DEF Todo
    <3>2. todo[1] \in Todo' /\ todo[2] \in Todo'
      BY <3>1
    <3> QED
      BY <1>3, <1>4, <3>2 DEF Objects
  <2>4. Coming' = Todo'
    BY <1>7 DEF Coming
  <2>5. next = Files \cup {new}
    BY DEF next
  <2> QED
    BY <1>1, <1>7, <1>8, <2>1, <2>2, <2>3, <2>4, <2>5 DEF FilesOK
<1>12. LineOK'
  BY <1>1, <1>7, LineStays
<1> QED
  BY <1>8, <1>9, <1>10, <1>11, <1>12 DEF IInv

LEMMA BeginDeleteKeeps ==
  ASSUME IInv, NEW f \in File, BeginDelete(f)
  PROVE  IInv'
<1> DEFINE old  == [file |-> f, until |-> null]
           new  == [file |-> f, until |-> day + RetentionDays]
           rest == {e \in Files : e.file # f}
           next == rest \cup {new}
<1>1. /\ command = null /\ old \in Files
      /\ Len(catalogs) < MaxCatalogs
      /\ UNCHANGED <<catalogs, store, state, kits, day, crashes>>
  BY DEF BeginDelete, CanStart
<1>2. command' = [op |-> "delete", step |-> "objects", todo |-> <<>>, files |-> next, keep |-> {}]
  BY DEF BeginDelete, Begin
<1>3. /\ new \in Entry /\ <<>> \in Seq(Object) /\ {} \in SUBSET Object
      /\ new.file = f /\ old.file = f /\ old.until = null
  BY Vault, BoundsAssumption DEF Entry
<1>4. new # old
  <2>1. new.until \in Nat
    BY Vault, BoundsAssumption
  <2> QED
    BY <2>1, NullAssumption
<1>5. next \in SUBSET Entry /\ IsFiniteSet(next) /\ OnePerFile(next) /\ next # Files
  <2>1. new \notin Files
    BY <1>1, <1>3, <1>4, Vault DEF OnePerFile
  <2>2. IsFiniteSet(rest)
    BY Vault, FS_Subset
  <2>3. IsFiniteSet(next)
    BY <2>2, FS_AddElement
  <2> QED
    BY <1>3, <2>1, <2>3, Vault DEF OnePerFile
<1>6. Objects(f) \subseteq store
  BY <1>1, <1>3 DEF IInv, FilesOK, Expired
<1>7. /\ next \subseteq Files \cup {new} /\ new.file = f
  BY <1>3
<1> HIDE DEF new, old, rest, next
<1>8. /\ command' \in Command /\ command' # null
      /\ command'.op = "delete" /\ command'.step = "objects" /\ command'.todo = <<>>
      /\ command'.files = next /\ command'.keep = {}
  BY <1>2, <1>3, <1>5, CommandMade, CommandFields DEF Ops, Steps
<1>9. /\ CatalogsOK' /\ ChainsOK' /\ Files' = Files /\ DiskOK'
  BY <1>1, SameCatalogs, DiskStays, Vault DEF IInv, DiskOK
<1>10. CommandOK'
  BY <1>1, <1>5, <1>8, <1>9 DEF CommandOK
<1>11. GcOK' /\ SignedOK'
  BY <1>8 DEF GcOK, SignedOK
<1>12. FilesOK'
  <2>1. \A e \in Files : ~Expired(e) \/ crashes = 0 => Objects(e.file) \subseteq store
    BY <1>1 DEF IInv, FilesOK, Collecting
  <2>2. \A e : Expired(e)' <=> Expired(e)
    BY <1>1 DEF Expired
  <2> QED
    BY <1>1, <1>6, <1>7, <1>8, <1>9, <2>1, <2>2 DEF FilesOK
<1>13. LineOK'
  BY <1>1, <1>8, LineStays
<1> QED
  BY <1>9, <1>10, <1>11, <1>12, <1>13 DEF IInv

(***************************************************************************)
(* What gc removes first are the manifests and chunks of expired files.    *)
(***************************************************************************)
LEMMA Halves ==
  ASSUME NEW n \in Nat, NEW k \in 1..2 * n
  PROVE  IF k % 2 = 1 THEN (k + 1) \div 2 \in 1..n ELSE k \div 2 \in 1..n
OBVIOUS

LEMMA ExpiredObjectsAre ==
  ASSUME NEW set \in SUBSET Entry, NEW n \in Nat, NEW order \in [1..n -> set]
  PROVE  /\ ExpiredObjects(order) \in Seq(Object)
         /\ \A k \in 1..Len(ExpiredObjects(order)) :
              \E e \in set : ExpiredObjects(order)[k] \in Objects(e.file)
<1> DEFINE s == ExpiredObjects(order)
<1>1. Len(order) = n
  OBVIOUS
<1>2. /\ s = [k \in 1..2 * n |-> IF k % 2 = 1 THEN <<"manifest", order[(k + 1) \div 2].file>>
                                             ELSE <<"chunk", order[k \div 2].file>>]
  BY <1>1 DEF ExpiredObjects
<1> HIDE DEF s
<1>3. \A k \in 1..2 * n : \E e \in set : s[k] \in Objects(e.file)
  <2> TAKE k \in 1..2 * n
  <2>1. s[k] = IF k % 2 = 1 THEN <<"manifest", order[(k + 1) \div 2].file>>
                            ELSE <<"chunk", order[k \div 2].file>>
    BY <1>2, Zenon
  <2>2. CASE k % 2 = 1
    <3>1. (k + 1) \div 2 \in 1..n
      BY <2>2, Halves
    <3>2. order[(k + 1) \div 2] \in set
      BY <3>1, Zenon
    <3> QED
      BY <2>1, <2>2, <3>2, Zenon DEF Objects
  <2>3. CASE k % 2 # 1
    <3>1. k \div 2 \in 1..n
      BY <2>3, Halves
    <3>2. order[k \div 2] \in set
      BY <3>1, Zenon
    <3> QED
      BY <2>1, <2>3, <3>2, Zenon DEF Objects
  <2> QED
    BY <2>2, <2>3
<1>4. \A k \in 1..2 * n : s[k] \in Object
  BY <1>3, ObjectsOf
<1>5. 2 * n \in Nat /\ s = [k \in 1..2 * n |-> s[k]]
  BY <1>2
<1>6. s \in Seq(Object) /\ Len(s) = 2 * n
  BY <1>4, <1>5
<1> QED
  BY <1>3, <1>6 DEF s

LEMMA BeginGcKeeps ==
  ASSUME IInv, BeginGc
  PROVE  IInv'
<1> DEFINE expired == {e \in Files : Expired(e)}
           kept    == Files \ expired
           keep    == Stored(Chain(state)) \cup UNION {Objects(e.file) : e \in kept}
<1>1. PICK order \in Orders(expired) : Begin("gc", ExpiredObjects(order), kept, keep)
  BY DEF BeginGc
<1>2. /\ command = null
      /\ Len(catalogs) < MaxCatalogs
      /\ UNCHANGED <<catalogs, store, state, kits, day, crashes>>
  BY DEF BeginGc, CanStart
<1> DEFINE todo == ExpiredObjects(order)
<1>3. /\ todo \in Seq(Object)
      /\ \A k \in 1..Len(todo) : \E e \in expired : todo[k] \in Objects(e.file)
  <2>1. expired \in SUBSET Entry /\ IsFiniteSet(expired)
    BY Vault, FS_Subset
  <2>2. Cardinality(expired) \in Nat
    BY <2>1, FS_CardinalityType
  <2>3. order \in [1..Cardinality(expired) -> expired]
    BY DEF Orders
  <2> HIDE DEF expired
  <2> QED
    BY <2>1, <2>2, <2>3, ExpiredObjectsAre
<1>4. kept \in SUBSET Entry /\ IsFiniteSet(kept) /\ OnePerFile(kept)
  BY Vault, FS_Subset DEF OnePerFile
<1>5. keep \in SUBSET Object
  BY <1>4, Vault, ObjectsOf
<1>6. \A e \in kept : Objects(e.file) \subseteq keep
  OBVIOUS
<1>7. /\ kept \subseteq Files
      /\ \A e \in expired : e \in Files /\ Expired(e)
      /\ \A d \in expired, e \in kept : d \in Entry /\ e \in Entry /\ d.file # e.file
  BY Vault DEF OnePerFile
<1>8. command' = [op |-> "gc", step |-> "objects", todo |-> todo, files |-> kept, keep |-> keep]
  BY <1>1 DEF Begin
<1> HIDE DEF expired, kept, keep, todo
<1>9. /\ command' \in Command /\ command' # null
      /\ command'.op = "gc" /\ command'.step = "objects" /\ command'.todo = todo
      /\ command'.files = kept /\ command'.keep = keep
  BY <1>3, <1>4, <1>5, <1>8, CommandMade, CommandFields DEF Ops, Steps
<1>10. /\ CatalogsOK' /\ ChainsOK' /\ Files' = Files /\ DiskOK'
  BY <1>2, SameCatalogs, DiskStays, Vault DEF IInv, DiskOK
<1>11. CommandOK'
  BY <1>2, <1>4, <1>6, <1>9, <1>10 DEF CommandOK
<1>12. \A e : Expired(e)' <=> Expired(e)
  BY <1>2 DEF Expired
<1>13. GcOK'
  <2> SUFFICES ASSUME NEW object \in Todo'
               PROVE  /\ \E e \in Files' : Expired(e)' /\ object \in Objects(e.file)
                      /\ \A e \in command'.files : object \notin Objects(e.file)
    BY DEF GcOK
  <2>1. PICK d \in expired : object \in Objects(d.file)
    BY <1>3, <1>9 DEF Todo
  <2>2. \A e \in kept : object \notin Objects(e.file)
    BY <1>7, <2>1, ObjectsOf
  <2> QED
    BY <1>7, <1>9, <1>10, <1>12, <2>1, <2>2
<1>14. FilesOK'
  <2>1. \A e \in Files : ~Expired(e) \/ crashes = 0 => Objects(e.file) \subseteq store
    BY <1>2 DEF IInv, FilesOK, Collecting
  <2> QED
    BY <1>2, <1>7, <1>9, <1>10, <1>12, <2>1 DEF FilesOK
<1>15. SignedOK' /\ LineOK'
  BY <1>2, <1>9, LineStays DEF SignedOK
<1> QED
  BY <1>10, <1>11, <1>13, <1>14, <1>15 DEF IInv

(***************************************************************************)
(* Writing and removing objects.                                           *)
(***************************************************************************)
LEMMA HeadAndTail ==
  ASSUME NEW S, NEW s \in Seq(S), s # <<>>
  PROVE  /\ Head(s) \in S
         /\ {s[k] : k \in 1..Len(s)} = {Head(s)} \cup {Tail(s)[k] : k \in 1..Len(Tail(s))}
<1>1. Len(s) \in Nat \ {0} /\ Len(Tail(s)) = Len(s) - 1 /\ Head(s) = s[1]
  OBVIOUS
<1>2. \A k \in 1..Len(s) - 1 : Tail(s)[k] = s[k + 1]
  OBVIOUS
<1>3. \A k \in 1..Len(s) : k = 1 \/ (k - 1 \in 1..Len(s) - 1 /\ Tail(s)[k - 1] = s[k])
  BY <1>1, <1>2
<1>4. s[1] \in S
  BY <1>1
<1> QED
  BY <1>1, <1>2, <1>3, <1>4

LEMMA NextObjectKeeps ==
  ASSUME IInv, NextObject
  PROVE  IInv'
<1> DEFINE head == Head(command.todo)
<1>1. /\ command # null /\ command.step = "objects" /\ command.todo # <<>>
      /\ store' = IF command.op = "gc" THEN store \ {head} ELSE store \cup {head}
      /\ UNCHANGED <<catalogs, state, kits, day, crashes>>
  BY Zenon DEF NextObject, Running
<1>2. command \in Command
  BY <1>1 DEF IInv, CommandOK
<1>3. /\ command' \in Command /\ command' # null
      /\ command'.op = command.op /\ command'.step = "objects"
      /\ command'.todo = Tail(command.todo)
      /\ command'.files = command.files /\ command'.keep = command.keep
  <2>1. command' = [command EXCEPT !.todo = Tail(@)]
    BY Zenon DEF NextObject
  <2> QED
    BY <1>1, <1>2, <2>1, ToNextObject, Zenon
<1>4. head \in Object /\ Todo = {head} \cup Todo'
  <2>1. command.todo \in Seq(Object)
    BY <1>2, CommandFields
  <2> DEFINE s == command.todo
  <2>2. /\ head \in Object
        /\ {s[k] : k \in 1..Len(s)} = {head} \cup {Tail(s)[k] : k \in 1..Len(Tail(s))}
    BY <1>1, <2>1, HeadAndTail, Zenon
  <2>3. Todo' = {Tail(s)[k] : k \in 1..Len(Tail(s))}
    BY <1>3 DEF Todo
  <2> QED
    BY <2>2, <2>3, Zenon DEF Todo
<1> HIDE DEF head
<1>5. CatalogsOK' /\ ChainsOK' /\ Files' = Files
  BY <1>1, SameCatalogs
<1>6. \A e : Expired(e)' <=> Expired(e)
  BY <1>1 DEF Expired
<1>7. command.op = "gc" =>
        /\ \E e \in Files : Expired(e) /\ head \in Objects(e.file)
        /\ \A e \in command.files : head \notin Objects(e.file)
  BY <1>1, <1>4 DEF IInv, GcOK
<1>8. DiskOK'
  <2>1. store' \subseteq Object
    BY <1>1, <1>4, Vault
  <2>2. Stored(Chain(state)) \subseteq store'
    <3>1. CASE command.op = "gc"
      <4>1. PICK e \in Files : head \in Objects(e.file)
        BY <1>7, <3>1
      <4>2. head \notin Stored(Chain(state))
        BY <4>1, Vault, ObjectsOf
      <4> QED
        BY <1>1, <3>1, <4>2, Vault
    <3>2. CASE command.op # "gc"
      BY <1>1, <3>2, Vault
    <3> QED
      BY <3>1, <3>2
  <2> QED
    BY <1>1, <2>1, <2>2, DiskStays DEF IInv, DiskOK
<1>9. CommandOK'
  BY <1>1, <1>3, <1>5 DEF IInv, CommandOK
<1>10. GcOK'
  BY <1>1, <1>3, <1>4, <1>5, <1>6 DEF IInv, GcOK
<1>11. FilesOK'
  <2>1. /\ \A e \in Files :
             ~Expired(e) \/ (crashes = 0 /\ ~Collecting) => Objects(e.file) \subseteq store
        /\ \A e \in command.files :
             ~Expired(e) \/ crashes = 0 => Objects(e.file) \subseteq store \cup Coming
    BY <1>1 DEF IInv, FilesOK
  <2>2. CASE command.op = "gc"
    <3>1. \A e \in Files : ~Expired(e) => head \notin Objects(e.file)
      BY <1>7, <2>2, Vault, ObjectsOf DEF OnePerFile
    <3>2. Collecting' /\ Coming' = {} /\ Coming = {}
      BY <1>1, <1>3, <2>2 DEF Collecting, Coming
    <3> QED
      BY <1>1, <1>3, <1>5, <1>6, <1>7, <2>1, <2>2, <3>1, <3>2 DEF FilesOK
  <2>3. CASE command.op # "gc"
    <3>1. /\ ~Collecting /\ Coming = Todo /\ Coming' = Todo'
      BY <1>3, <2>3 DEF Collecting, Coming
    <3>2. store \cup Coming \subseteq store' \cup Coming' /\ store \subseteq store'
      BY <1>1, <1>4, <2>3, <3>1
    <3> QED
      BY <1>1, <1>3, <1>5, <1>6, <2>1, <3>1, <3>2 DEF FilesOK
  <2> QED
    BY <2>2, <2>3
<1>12. SignedOK' /\ LineOK'
  BY <1>1, <1>3, LineStays DEF SignedOK
<1> QED
  BY <1>5, <1>8, <1>9, <1>10, <1>11, <1>12 DEF IInv

(***************************************************************************)
(* Signing the next catalog.                                               *)
(***************************************************************************)
LEMMA PutCatalogKeeps ==
  ASSUME IInv, PutCatalog
  PROVE  IInv'
<1> DEFINE r == [version |-> Version(state) + 1, previous |-> state, files |-> command.files]
<1>1. /\ command # null /\ command.step = "objects" /\ command.todo = <<>>
      /\ catalogs' = Append(catalogs, r)
      /\ store' = store \cup {<<"catalog", Len(catalogs) + 1>>}
      /\ UNCHANGED <<state, kits, day, crashes>>
  BY Zenon DEF PutCatalog, Running
<1>2. /\ command \in Command /\ IsFiniteSet(command.files) /\ OnePerFile(command.files)
      /\ Len(catalogs) < MaxCatalogs
  BY <1>1 DEF IInv, CommandOK
<1>3. /\ command' \in Command /\ command' # null
      /\ command'.op = command.op /\ command'.step = "save" /\ command'.todo = command.todo
      /\ command'.files = command.files /\ command'.keep = command.keep
  <2>1. "save" \in Steps
    BY DEF Steps
  <2>2. command' = [command EXCEPT !.step = "save"]
    BY Zenon DEF PutCatalog
  <2> QED
    BY <1>2, <2>1, <2>2, ToStep, Zenon
<1>4. PICK n : n = Len(catalogs)
  OBVIOUS
<1>5. CatalogsOK /\ ChainsOK /\ DiskOK /\ n \in Nat /\ state \in 1..n /\ n + 1 \in 1..MaxCatalogs
  BY <1>2, <1>4, Vault, BoundsAssumption DEF IInv
<1>6. /\ r \in Catalog /\ r.previous = state /\ r.files = command.files
      /\ r.version = catalogs[state].version + 1 /\ r.version \in 1..n + 1
  BY <1>2, <1>4, <1>5, CommandFields DEF Catalog, Version, CatalogsOK, Ids
<1> HIDE DEF r
<1>7. /\ catalogs' \in Seq(Catalog) /\ Len(catalogs') = n + 1 /\ catalogs'[n + 1] = r
      /\ \A i \in 1..n : catalogs'[i] = catalogs[i]
      /\ Ids' = 1..n + 1
  BY <1>1, <1>4, <1>5, <1>6 DEF CatalogsOK, Ids
<1>8. /\ ChainsOK'
      /\ \A i \in 0..n : Chain(i)' = Chain(i)
      /\ Chain(n + 1)' = {n + 1} \cup Chain(state)
  <2>1. r.previous \in 0..n /\ catalogs' = Append(catalogs, r)
    BY <1>1, <1>5, <1>6
  <2> QED
    BY <1>4, <1>5, <1>6, <2>1, LongerChains
<1>9. CatalogsOK'
  <2> SUFFICES ASSUME NEW i \in 1..n + 1
               PROVE  /\ catalogs'[i].version \in 1..i
                      /\ catalogs'[i].previous \in 0..i - 1
                      /\ IsFiniteSet(catalogs'[i].files)
                      /\ OnePerFile(catalogs'[i].files)
    BY <1>5, <1>7 DEF CatalogsOK
  <2>1. CASE i = n + 1
    BY <1>2, <1>5, <1>6, <1>7, <2>1
  <2>2. CASE i # n + 1
    <3>1. i \in 1..n
      BY <1>5, <2>2
    <3> QED
      BY <1>4, <1>5, <1>7, <3>1 DEF CatalogsOK, Ids
  <2> QED
    BY <2>1, <2>2
<1>10. Files' = Files
  BY <1>1, <1>5, <1>7 DEF Files
<1>11. DiskOK'
  <2>1. <<"catalog", n + 1>> \in Object
    BY <1>5 DEF Object
  <2>2. Chain(state)' = Chain(state)
    <3>1. \A i \in 1..n : Chain(i)' = Chain(i)
      BY <1>5, <1>8
    <3>2. Chain(state)' = History'[state]
      BY <1>1 DEF Chain
    <3> QED
      BY <1>5, <3>1, <3>2 DEF Chain
  <2>3. store' = store \cup {<<"catalog", n + 1>>}
    BY <1>1, <1>4
  <2>4. kits' = kits /\ state' = state /\ day' = day /\ crashes' = crashes
    BY <1>1
  <2>5. state \in 1..n + 1
    BY <1>5
  <2> QED
    BY <1>5, <1>7, <2>1, <2>2, <2>3, <2>4, <2>5 DEF DiskOK, HistoryStays
<1>12. CommandOK'
  <2>1. <<"catalog", n + 1>> \in store' /\ n + 1 # state
    BY <1>1, <1>4, <1>5
  <2>2. command.op = "gc" => \A e \in command.files : Objects(e.file) \subseteq command.keep
    BY <1>1 DEF IInv, CommandOK
  <2> QED
    BY <1>1, <1>2, <1>3, <1>6, <1>7, <2>1, <2>2 DEF CommandOK
<1>13. GcOK' /\ SignedOK'
  BY <1>1, <1>3 DEF GcOK, SignedOK
<1>14. FilesOK'
  <2>1. \A e : Expired(e)' <=> Expired(e)
    BY <1>1 DEF Expired
  <2>2. Collecting' <=> Collecting
    BY <1>1, <1>3 DEF Collecting
  <2>3. Coming' = Coming
    BY <1>3 DEF Coming, Todo
  <2>4. store \subseteq store' /\ crashes' = crashes
    BY <1>1
  <2> QED
    BY <1>1, <1>3, <1>10, <2>1, <2>2, <2>3, <2>4 DEF IInv, FilesOK
<1>15. LineOK'
  <2> SUFFICES ASSUME crashes = 0
               PROVE  /\ \A i \in 1..n + 1 :
                           /\ catalogs'[i].version = i /\ catalogs'[i].previous = i - 1
                           /\ Chain(i)' = 1..i
                      /\ n + 1 = state + 1
    BY <1>1, <1>3, <1>7 DEF LineOK
  <2>1. /\ \A i \in 1..n : /\ catalogs[i].version = i /\ catalogs[i].previous = i - 1
                           /\ Chain(i) = 1..i
        /\ n = state
    BY <1>1, <1>4, <1>5 DEF IInv, LineOK, Ids
  <2>2. catalogs'[n + 1].version = n + 1 /\ catalogs'[n + 1].previous = n + 1 - 1
    BY <1>5, <1>6, <1>7, <2>1
  <2>3. Chain(n + 1)' = 1..n + 1
    <3>1. Chain(state) = 1..n
      BY <1>5, <2>1
    <3>2. 1..n + 1 = {n + 1} \cup 1..n
      BY <1>5
    <3> QED
      BY <1>8, <3>1, <3>2, Zenon
  <2>4. \A i \in 1..n : /\ catalogs'[i].version = i /\ catalogs'[i].previous = i - 1
                        /\ Chain(i)' = 1..i
    <3>1. \A i \in 1..n : i \in 0..n
      BY <1>5
    <3> QED
      BY <1>7, <1>8, <2>1, <3>1
  <2>5. \A i \in 1..n + 1 : i = n + 1 \/ i \in 1..n
    BY <1>5
  <2>6. \A i \in 1..n + 1 : /\ catalogs'[i].version = i /\ catalogs'[i].previous = i - 1
                            /\ Chain(i)' = 1..i
    <3> TAKE i \in 1..n + 1
    <3>1. CASE i = n + 1
      <4>1. catalogs'[i].version = i /\ catalogs'[i].previous = i - 1
        BY <1>5, <2>2, <3>1
      <4>2. Chain(i)' = Chain(n + 1)' /\ 1..i = 1..n + 1
        BY <3>1 DEF Chain
      <4>3. Chain(i)' = 1..i
        BY <2>3, <4>2, Zenon
      <4> QED
        BY <4>1, <4>3
    <3> QED
      BY <2>4, <2>5, <3>1
  <2>7. n + 1 = state + 1
    BY <2>1
  <2> QED
    BY <2>6, <2>7, Zenon
<1> QED
  BY <1>8, <1>9, <1>11, <1>12, <1>13, <1>14, <1>15 DEF IInv

LEMMA SaveStateKeeps ==
  ASSUME IInv, SaveState
  PROVE  IInv'
<1>1. /\ command # null /\ command.step = "save" /\ state' = Len(catalogs)
      /\ UNCHANGED <<catalogs, store, kits, day, crashes>>
  BY Zenon DEF SaveState, Running
<1>2. /\ command \in Command /\ IsFiniteSet(command.files) /\ OnePerFile(command.files)
      /\ Len(catalogs) # state /\ catalogs[Len(catalogs)].previous = state
      /\ catalogs[Len(catalogs)].files = command.files
      /\ <<"catalog", Len(catalogs)>> \in store
      /\ command.todo = <<>>
  BY <1>1 DEF IInv, CommandOK, SignedOK
<1>3. /\ command' \in Command /\ command' # null
      /\ command'.op = command.op /\ command'.step = "kit" /\ command'.todo = command.todo
      /\ command'.files = command.files /\ command'.keep = command.keep
  <2>1. "kit" \in Steps
    BY DEF Steps
  <2>2. command' = [command EXCEPT !.step = "kit"]
    BY Zenon DEF SaveState
  <2> QED
    BY <1>2, <2>1, <2>2, ToStep, Zenon
<1>4. PICK n : n = Len(catalogs)
  OBVIOUS
<1>5. CatalogsOK /\ ChainsOK /\ DiskOK /\ n \in Ids
  BY <1>4, Vault DEF IInv
<1>6. /\ CatalogsOK' /\ ChainsOK' /\ Ids' = Ids
      /\ \A i : Chain(i)' = Chain(i)
  BY <1>1, SameCatalogs
<1>7. Chain(n) = {n} \cup Chain(state)
  BY <1>2, <1>4, <1>5, ChainLinks
<1>8. Chain(state)' = Chain(n)
  <2>1. Chain(state)' = History'[n]
    BY <1>1, <1>4 DEF Chain
  <2>2. Chain(n)' = Chain(n)
    BY <1>6
  <2> QED
    BY <2>1, <2>2 DEF Chain
<1>9. Files' = command.files
  BY <1>1, <1>2 DEF Files
<1>10. DiskOK'
  BY <1>1, <1>2, <1>4, <1>5, <1>6, <1>7, <1>8 DEF DiskOK, HistoryStays, Stored
<1>11. CommandOK'
  <2>1. command.op = "gc" => \A e \in command.files : Objects(e.file) \subseteq command.keep
    BY <1>1 DEF IInv, CommandOK
  <2> QED
    BY <1>2, <1>3, <1>9, <2>1 DEF CommandOK
<1>12. GcOK' /\ SignedOK'
  BY <1>3 DEF GcOK, SignedOK
<1>13. FilesOK'
  <2>1. Coming = {}
    BY <1>2 DEF Coming, Todo
  <2>2. \A e \in command.files : ~Expired(e) \/ crashes = 0 => Objects(e.file) \subseteq store
    BY <1>1, <2>1 DEF IInv, FilesOK
  <2>3. \A e : Expired(e)' <=> Expired(e)
    BY <1>1 DEF Expired
  <2> QED
    BY <1>1, <1>3, <1>9, <2>2, <2>3 DEF FilesOK
<1>14. LineOK'
  BY <1>1, <1>3, <1>6 DEF IInv, LineOK
<1> QED
  BY <1>6, <1>10, <1>11, <1>12, <1>13, <1>14 DEF IInv

LEMMA RefreshKitKeeps ==
  ASSUME IInv, RefreshKit
  PROVE  IInv'
<1>1. /\ command # null /\ command.step = "kit" /\ kits' = kits \cup {state}
      /\ UNCHANGED <<catalogs, store, state, day, crashes>>
  BY Zenon DEF RefreshKit, Running
<1>2. /\ command \in Command /\ IsFiniteSet(command.files) /\ OnePerFile(command.files)
      /\ command.files = Files
      /\ command.op = "gc" => \A e \in command.files : Objects(e.file) \subseteq command.keep
  BY <1>1 DEF IInv, CommandOK
<1>3. \/ command' = null
      \/ /\ command' \in Command /\ command' # null
         /\ command'.op = "gc" /\ command.op = "gc" /\ command'.step = "sweep"
         /\ command'.files = command.files /\ command'.keep = command.keep
  <2>1. CASE command.op = "gc"
    <3>1. "sweep" \in Steps
      BY DEF Steps
    <3>2. command' = [command EXCEPT !.step = "sweep"]
      BY <2>1, Zenon DEF RefreshKit
    <3> QED
      BY <1>2, <2>1, <3>1, <3>2, ToStep, Zenon
  <2>2. CASE command.op # "gc"
    BY <2>2, Zenon DEF RefreshKit
  <2> QED
    BY <2>1, <2>2
<1>4. /\ CatalogsOK' /\ ChainsOK' /\ Ids' = Ids /\ Files' = Files
      /\ \A i : Chain(i)' = Chain(i)
  BY <1>1, SameCatalogs
<1>5. Chain(state)' = Chain(state) /\ state \in Chain(state)
  BY <1>1, <1>4, ChainLinks, Vault DEF IInv, Chain
<1>6. DiskOK'
  BY <1>1, <1>4, <1>5 DEF IInv, DiskOK, HistoryStays, Stored
<1>7. CommandOK'
  BY <1>2, <1>3, <1>4 DEF CommandOK
<1>8. GcOK' /\ SignedOK'
  BY <1>3 DEF GcOK, SignedOK
<1>9. FilesOK'
  <2>1. \A e \in Files : ~Expired(e) \/ crashes = 0 => Objects(e.file) \subseteq store
    BY <1>1 DEF IInv, FilesOK, Collecting
  <2>2. \A e : Expired(e)' <=> Expired(e)
    BY <1>1 DEF Expired
  <2> QED
    BY <1>1, <1>3, <1>4, <2>1, <2>2 DEF FilesOK
<1>10. LineOK'
  BY <1>1, <1>3, LineStays
<1> QED
  BY <1>4, <1>6, <1>7, <1>8, <1>9, <1>10 DEF IInv

(***************************************************************************)
(* The sweep of a gc.                                                      *)
(***************************************************************************)
LEMMA SkipCatalogKeeps ==
  ASSUME IInv, SkipCatalog
  PROVE  IInv'
<1>1. /\ command # null /\ command.step = "objects" /\ command.files = Files
      /\ UNCHANGED <<catalogs, store, state, kits, day, crashes>>
  BY Zenon DEF SkipCatalog, Running, NeedsCatalog
<1>2. /\ command \in Command /\ IsFiniteSet(command.files) /\ OnePerFile(command.files)
      /\ command.op = "gc"
      /\ \A e \in command.files : Objects(e.file) \subseteq command.keep
  BY <1>1 DEF IInv, CommandOK
<1>3. /\ command' \in Command /\ command' # null
      /\ command'.op = command.op /\ command'.step = "sweep" /\ command'.todo = command.todo
      /\ command'.files = command.files /\ command'.keep = command.keep
  <2>1. "sweep" \in Steps
    BY DEF Steps
  <2>2. command' = [command EXCEPT !.step = "sweep"]
    BY Zenon DEF SkipCatalog
  <2> QED
    BY <1>2, <2>1, <2>2, ToStep, Zenon
<1>4. CatalogsOK' /\ ChainsOK' /\ Files' = Files /\ DiskOK'
  BY <1>1, SameCatalogs, DiskStays, Vault DEF IInv, DiskOK
<1>5. CommandOK'
  BY <1>1, <1>2, <1>3, <1>4 DEF CommandOK
<1>6. GcOK' /\ SignedOK'
  BY <1>3 DEF GcOK, SignedOK
<1>7. FilesOK'
  <2>1. Coming = {}
    BY <1>2 DEF Coming
  <2>2. \A e \in Files : ~Expired(e) \/ crashes = 0 => Objects(e.file) \subseteq store
    BY <1>1, <2>1 DEF IInv, FilesOK
  <2>3. \A e : Expired(e)' <=> Expired(e)
    BY <1>1 DEF Expired
  <2> QED
    BY <1>1, <1>3, <1>4, <2>2, <2>3 DEF FilesOK
<1>8. LineOK'
  BY <1>1, <1>3, LineStays
<1> QED
  BY <1>4, <1>5, <1>6, <1>7, <1>8 DEF IInv

LEMMA SweepObjectKeeps ==
  ASSUME IInv, SweepObject
  PROVE  IInv'
<1>1. /\ command # null /\ command.step = "sweep"
      /\ UNCHANGED <<catalogs, state, kits, day, command, crashes>>
  BY DEF SweepObject, Running
<1>2. PICK object : /\ object \notin command.keep /\ object \notin Stored(Chain(state))
                    /\ store' = store \ {object}
  BY DEF SweepObject, Unkept
<1>3. /\ command.op = "gc" /\ command.files = Files
      /\ \A e \in command.files : Objects(e.file) \subseteq command.keep
  BY <1>1 DEF IInv, CommandOK
<1>4. CatalogsOK' /\ ChainsOK' /\ Files' = Files /\ DiskOK'
  BY <1>1, <1>2, SameCatalogs, DiskStays, Vault DEF IInv, DiskOK
<1>5. CommandOK' /\ GcOK' /\ SignedOK'
  BY <1>1, <1>4 DEF IInv, CommandOK, GcOK, SignedOK
<1>6. FilesOK'
  <2>1. \A e \in Files : object \notin Objects(e.file)
    BY <1>2, <1>3
  <2>2. \A e \in Files : ~Expired(e) \/ crashes = 0 => Objects(e.file) \subseteq store
    BY <1>1 DEF IInv, FilesOK, Collecting
  <2>3. \A e : Expired(e)' <=> Expired(e)
    BY <1>1 DEF Expired
  <2> QED
    BY <1>1, <1>2, <1>4, <2>1, <2>2, <2>3 DEF FilesOK
<1>7. LineOK'
  BY <1>1, LineStays
<1> QED
  BY <1>4, <1>5, <1>6, <1>7 DEF IInv

(***************************************************************************)
(* A command ends, or stops half way.                                      *)
(***************************************************************************)
LEMMA EndKeeps ==
  ASSUME IInv, EndSweep \/ Crash
  PROVE  IInv'
<1>1. /\ command # null /\ command' = null
      /\ UNCHANGED <<catalogs, store, state, kits, day>>
      /\ crashes' \in 0..MaxCrashes
      /\ crashes' = 0 => crashes = 0 /\ command.step = "sweep"
  BY BoundsAssumption DEF EndSweep, Crash, Running, IInv, DiskOK
<1>2. CatalogsOK' /\ ChainsOK' /\ Files' = Files /\ DiskOK'
  BY <1>1, SameCatalogs, DiskStays, Vault DEF IInv, DiskOK
<1>3. CommandOK' /\ GcOK' /\ SignedOK'
  BY <1>1 DEF CommandOK, GcOK, SignedOK
<1>4. FilesOK'
  <2>1. \A e : Expired(e)' <=> Expired(e)
    BY <1>1 DEF Expired
  <2>2. \A e \in Files : ~Expired(e) \/ crashes' = 0 => Objects(e.file) \subseteq store
    BY <1>1 DEF IInv, FilesOK, Collecting
  <2> QED
    BY <1>1, <1>2, <2>1, <2>2 DEF FilesOK
<1>5. LineOK'
  BY <1>1, LineStays
<1> QED
  BY <1>2, <1>3, <1>4, <1>5 DEF IInv

\* What has expired stays so.
LEMMA NextDayKeeps ==
  ASSUME IInv, NextDay
  PROVE  IInv'
<1>1. /\ day < MaxDay /\ day' = day + 1
      /\ UNCHANGED <<catalogs, store, state, kits, command, crashes>>
  BY DEF NextDay
<1>2. day' \in Day
  BY <1>1, Vault, BoundsAssumption DEF Day
<1>3. CatalogsOK' /\ ChainsOK' /\ Files' = Files /\ DiskOK'
  BY <1>1, <1>2, SameCatalogs, DiskStays, Vault DEF IInv, DiskOK
<1>4. \A e \in Entry : Expired(e) => Expired(e)'
  BY <1>1, Vault DEF Expired, Entry
<1>5. CommandOK' /\ SignedOK'
  BY <1>1, <1>3 DEF IInv, CommandOK, SignedOK
<1>6. GcOK'
  BY <1>1, <1>3, <1>4, Vault DEF IInv, GcOK, Todo
<1>7. FilesOK'
  <2>1. command # null => command.files \in SUBSET Entry
    BY CommandFields DEF IInv, CommandOK
  <2>2. (Collecting' <=> Collecting) /\ Coming' = Coming
    BY <1>1 DEF Collecting, Coming, Todo
  <2> QED
    BY <1>1, <1>3, <1>4, <2>1, <2>2, Vault DEF IInv, FilesOK
<1>8. LineOK'
  BY <1>1, LineStays
<1> QED
  BY <1>3, <1>5, <1>6, <1>7, <1>8 DEF IInv

-----------------------------------------------------------------------------
(***************************************************************************)
(* The invariant holds in every state.                                     *)
(***************************************************************************)
LEMMA FirstChain ==
  ASSUME Len(catalogs) = 1, catalogs[1].previous = 0
  PROVE  /\ \E f : Follows(f) /\ \A g : Follows(g) => g = f
         /\ Chain(1) = {1}
<1>1. PICK h : h = [j \in 0..1 |-> IF j = 0 THEN {} ELSE {1}]
  BY Zenon
<1>2. h[0] = {} /\ h[1] = {1} /\ \A j \in 0..1 : j = 0 \/ j = 1
  BY <1>1
<1>3. Follows(h)
  <2>1. \A j \in 0..1 : h[j] = IF j = 0 THEN {} ELSE {j} \cup h[catalogs[j].previous]
    BY <1>2
  <2>2. h = [j \in 0..1 |-> h[j]]
    BY <1>1, Zenon
  <2>3. h = [j \in 0..1 |-> IF j = 0 THEN {} ELSE {j} \cup h[catalogs[j].previous]]
    BY <2>1, <2>2, Zenon
  <2> QED
    BY <2>3, Zenon DEF Follows
<1>4. ASSUME NEW g, Follows(g)
      PROVE  g = h
  <2>1. g = [j \in 0..1 |-> IF j = 0 THEN {} ELSE {j} \cup g[catalogs[j].previous]]
    BY <1>4, Zenon DEF Follows
  <2>2. /\ g = [j \in 0..1 |-> g[j]]
        /\ \A j \in 0..1 : g[j] = IF j = 0 THEN {} ELSE {j} \cup g[catalogs[j].previous]
    BY <2>1
  <2>3. g[0] = {} /\ g[1] = {1}
    BY <2>2
  <2>4. \A j \in 0..1 : g[j] = h[j]
    BY <1>2, <2>3, Zenon
  <2>5. h = [j \in 0..1 |-> h[j]]
    BY <1>1, Zenon
  <2> QED
    BY <2>2, <2>4, <2>5, Zenon
<1>5. History = CHOOSE f : Follows(f)
  BY DEF History, Follows
<1>6. History = h
  BY <1>3, <1>4, <1>5
<1> QED
  BY <1>2, <1>3, <1>4, <1>6 DEF Chain

LEMMA InitKeeps ==
  ASSUME Init
  PROVE  IInv
<1> DEFINE first == [version |-> 1, previous |-> 0, files |-> {}]
<1>1. /\ catalogs = <<first>> /\ store = {<<"catalog", 1>>} /\ state = 1 /\ kits = {1}
      /\ day = 0 /\ command = null /\ crashes = 0
  BY DEF Init
<1>2. first \in Catalog /\ first.version = 1 /\ first.previous = 0 /\ first.files = {}
  BY DEF Catalog
<1> HIDE DEF first
<1>3. /\ catalogs \in Seq(Catalog) /\ Len(catalogs) = 1 /\ catalogs[1] = first
      /\ Ids = {1} /\ Files = {}
  BY <1>1, <1>2 DEF Ids, Files
<1>4. 1 \in 1..MaxCatalogs
  BY BoundsAssumption, CatalogsAssumption
<1>5. CatalogsOK
  <2>1. IsFiniteSet(first.files) /\ OnePerFile(first.files)
    BY <1>2, FS_EmptySet DEF OnePerFile
  <2>2. first.version \in 1..1 /\ first.previous \in 0..1 - 1
    BY <1>2
  <2> QED
    BY <1>3, <1>4, <2>1, <2>2 DEF CatalogsOK
<1>6. ChainsOK /\ Chain(1) = {1}
  BY <1>2, <1>3, FirstChain DEF ChainsOK
<1>7. DiskOK
  <2>1. <<"catalog", 1>> \in Object
    BY <1>4 DEF Object
  <2> QED
    BY <1>1, <1>3, <1>6, <2>1, BoundsAssumption DEF DiskOK, HistoryStays, Stored, Day
<1>8. CommandOK /\ GcOK /\ FilesOK /\ SignedOK
  BY <1>1, <1>3 DEF CommandOK, GcOK, FilesOK, SignedOK
<1>9. LineOK
  <2>1. 1..1 = {1}
    OBVIOUS
  <2> QED
    BY <1>1, <1>2, <1>3, <1>6, <2>1 DEF LineOK
<1> QED
  BY <1>5, <1>6, <1>7, <1>8, <1>9 DEF IInv

LEMMA NextKeeps ==
  ASSUME IInv, [Next]_vars
  PROVE  IInv'
<1>1. ASSUME NEW f \in File, BeginAdd(f) \/ BeginDelete(f)
      PROVE  IInv'
  BY <1>1, BeginAddKeeps, BeginDeleteKeeps
<1>2. CASE BeginGc
  BY <1>2, BeginGcKeeps
<1>3. CASE NextObject \/ PutCatalog \/ SaveState \/ RefreshKit
  BY <1>3, NextObjectKeeps, PutCatalogKeeps, SaveStateKeeps, RefreshKitKeeps
<1>4. CASE SkipCatalog \/ SweepObject \/ EndSweep \/ Crash
  BY <1>4, SkipCatalogKeeps, SweepObjectKeeps, EndKeeps
<1>5. CASE NextDay
  BY <1>5, NextDayKeeps
<1>6. CASE UNCHANGED vars
  <2>1. UNCHANGED <<catalogs, store, state, kits, day, command, crashes>>
    BY <1>6 DEF vars
  <2>2. CatalogsOK' /\ ChainsOK' /\ Files' = Files /\ DiskOK'
    BY <2>1, SameCatalogs, DiskStays, Vault DEF IInv, DiskOK
  <2>3. \A e : Expired(e)' <=> Expired(e)
    BY <2>1 DEF Expired
  <2>4. CommandOK' /\ SignedOK'
    BY <2>1, <2>2 DEF IInv, CommandOK, SignedOK
  <2>5. GcOK'
    BY <2>1, <2>2, <2>3 DEF IInv, GcOK, Todo
  <2>6. FilesOK'
    <3>1. Collecting' = Collecting /\ Coming' = Coming
      BY <2>1 DEF Collecting, Coming, Todo
    <3> QED
      BY <2>1, <2>2, <2>3, <3>1 DEF IInv, FilesOK
  <2>7. LineOK'
    BY <2>1, LineStays
  <2> QED
    BY <2>2, <2>4, <2>5, <2>6, <2>7 DEF IInv
<1> QED
  BY <1>1, <1>2, <1>3, <1>4, <1>5, <1>6 DEF Next

LEMMA Invariance == Spec => []IInv
<1>1. IInv /\ [Next]_vars => IInv'
  BY NextKeeps
<1> QED
  BY <1>1, InitKeeps, PTL DEF Spec

-----------------------------------------------------------------------------
(***************************************************************************)
(* The vault's files and the running command keep their shape, and no      *)
(* command signs more catalogs than there is room for.                     *)
(***************************************************************************)
THEOREM VaultTypes == Spec => []TypeOK
<1>1. IInv => TypeOK
  <2> SUFFICES ASSUME IInv
               PROVE  TypeOK
    OBVIOUS
  <2>1. CatalogsOK /\ DiskOK /\ ChainsOK /\ CommandOK
    BY DEF IInv
  <2>2. ASSUME NEW i \in 1..Len(catalogs)
        PROVE  catalogs[i] \in [version : 1..MaxCatalogs, previous : 0..i - 1,
                                files : SUBSET Entry]
    <3>1. /\ catalogs[i] \in Catalog
          /\ catalogs[i].version \in 1..i /\ catalogs[i].previous \in 0..i - 1
      BY <2>1 DEF CatalogsOK, Ids
    <3>2. catalogs[i].version \in 1..MaxCatalogs
      <4>1. Len(catalogs) \in 1..MaxCatalogs /\ MaxCatalogs \in Nat
        BY <2>1, BoundsAssumption DEF CatalogsOK
      <4> QED
        BY <3>1, <4>1
    <3> QED
      BY <3>1, <3>2 DEF Catalog
  <2>3. command \in Command \cup {null}
    BY <2>1 DEF CommandOK
  <2>4. kits \subseteq 1..Len(catalogs) /\ state \in 1..Len(catalogs)
    BY <2>1 DEF DiskOK, ChainsOK, Ids
  <2> QED
    BY <2>1, <2>2, <2>3, <2>4 DEF TypeOK, DiskOK
<1> QED
  BY <1>1, Invariance, PTL

(***************************************************************************)
(* Wherever a command stops, the catalog that state.json names, all it     *)
(* links back to and the catalog of every Recovery Kit ever written are    *)
(* stored.                                                                 *)
(***************************************************************************)
THEOREM HistoryIsKept == Spec => []HistoryStays
<1>1. IInv => HistoryStays
  BY DEF IInv, DiskOK
<1> QED
  BY <1>1, Invariance, PTL

(***************************************************************************)
(* Wherever a command stops, the manifest and the chunk of every file of   *)
(* the current catalog are stored until its retention has passed.          *)
(***************************************************************************)
THEOREM FilesAreKept == Spec => []RetainedFilesStay
<1>1. IInv => RetainedFilesStay
  BY DEF IInv, FilesOK, RetainedFilesStay
<1> QED
  BY <1>1, Invariance, PTL

-----------------------------------------------------------------------------
(***************************************************************************)
(* Recovery while catalogs form one line: of every version there is one    *)
(* candidate, each links to the one before it, and the scan goes on to     *)
(* the last, which is the current catalog.                                 *)
(***************************************************************************)
Line(n) ==
  /\ n \in Nat /\ n = Len(catalogs) /\ n = state /\ Present = 1..n
  /\ \A i \in 1..n : catalogs[i].version = i /\ catalogs[i].previous = i - 1

LEMMA OneCandidateEach ==
  ASSUME NEW n, Line(n), NEW kit \in 1..n, NEW c \in Candidates(kit)
  PROVE  DOMAIN c = kit + 1..n /\ \A v \in kit + 1..n : c[v] = v
<1> DEFINE newer == {i \in Present : Version(i) > Version(kit)}
           versions == {Version(i) : i \in newer}
<1>1. /\ n \in Nat /\ \A i \in 1..n : Version(i) = i
      /\ Present = 1..n
  BY DEF Line, Version
<1>2. newer = kit + 1..n
  BY <1>1
<1>3. \A i \in kit + 1..n : Version(i) = i
  BY <1>1
<1>4. versions = kit + 1..n
  BY <1>2, <1>3
<1>5. c \in [versions -> newer] /\ \A v \in versions : Version(c[v]) = v
  BY DEF Candidates
<1> HIDE DEF newer, versions
<1> QED
  BY <1>2, <1>3, <1>4, <1>5

LEMMA ScanReachesTheLast ==
  ASSUME NEW n, Line(n), NEW kit \in 1..n, NEW c \in Candidates(kit)
  PROVE  Latest(kit, c) = n
<1> DEFINE P(v) == /\ \A w \in kit + 1..v : Linked(kit, c, w)
                   /\ ~Linked(kit, c, v + 1)
           last == CHOOSE v \in kit..n : P(v)
<1>1. /\ n \in Nat /\ Version(kit) = kit /\ n = Len(catalogs)
      /\ \A i \in 1..n : catalogs[i].previous = i - 1
  BY DEF Line, Version
<1>2. DOMAIN c = kit + 1..n /\ \A v \in kit + 1..n : c[v] = v
  BY OneCandidateEach
<1>3. \A v \in kit + 1..n : Linked(kit, c, v)
  <2> SUFFICES ASSUME NEW v \in kit + 1..n
               PROVE  Linked(kit, c, v)
    OBVIOUS
  <2>1. v \in DOMAIN c /\ c[v] = v /\ catalogs[c[v]].previous = v - 1
    BY <1>1, <1>2
  <2>2. v = kit + 1 \/ (v - 1 \in DOMAIN c /\ c[v - 1] = v - 1)
    BY <1>1, <1>2
  <2> QED
    BY <1>1, <2>1, <2>2 DEF Linked
<1>4. ~Linked(kit, c, n + 1)
  BY <1>1, <1>2 DEF Linked
<1>5. n \in kit..n /\ P(n)
  BY <1>1, <1>3, <1>4
<1>6. \A v \in kit..n : v = n \/ v + 1 \in kit + 1..n
  BY <1>1
<1>7. \A v \in kit..n : P(v) => v = n
  BY <1>3, <1>6
<1> HIDE DEF P
<1>8. last = n
  BY <1>5, <1>7
<1>9. Latest(kit, c) = IF last = kit THEN kit ELSE c[last]
  BY <1>1 DEF Latest, P
<1> HIDE DEF last
<1>10. n = kit \/ c[n] = n
  BY <1>1, <1>2
<1> QED
  BY <1>8, <1>9, <1>10

(***************************************************************************)
(* As long as no command has stopped half way, every Recovery Kit ever     *)
(* written leads, when no command runs, to the current catalog, and        *)
(* recovers it with its whole history and all its files.                   *)
(***************************************************************************)
THEOREM KitsSuffice == Spec => []KitsSufficeWithoutCrash
<1>1. ASSUME IInv, crashes = 0, command = null, NEW kit \in kits
      PROVE  /\ Recovers(kit)
             /\ \A i \in Found(kit) : state \in Chain(i)
  <2>1. PICK n : n = Len(catalogs)
    OBVIOUS
  <2>2. /\ n \in Nat /\ n = state
        /\ \A i \in 1..n : /\ catalogs[i].version = i /\ catalogs[i].previous = i - 1
                           /\ Chain(i) = 1..i
    BY <1>1, <2>1, Vault DEF IInv, LineOK, Ids
  <2>3. Chain(state) = 1..n /\ state \in 1..n
    BY <2>1, <2>2, <1>1, Vault
  <2>4. \A i \in 1..n : <<"catalog", i>> \in store
    BY <1>1, <2>3 DEF IInv, DiskOK, HistoryStays, Stored
  <2>5. Present = 1..n
    BY <2>1, <2>4 DEF Present
  <2>6. Line(n)
    BY <2>1, <2>2, <2>5 DEF Line
  <2>7. kit \in 1..n
    BY <1>1, <2>3 DEF IInv, DiskOK
  <2>8. \A i \in Found(kit) : i = state
    BY <2>2, <2>6, <2>7, ScanReachesTheLast DEF Found
  <2>9. Complete(state)
    <3>1. Stored(Chain(state)) \subseteq store
      BY <1>1, Vault
    <3>2. \A e \in Files : Objects(e.file) \subseteq store
      BY <1>1 DEF IInv, FilesOK, Collecting
    <3> QED
      BY <3>1, <3>2 DEF Complete, Files
  <2> QED
    BY <2>3, <2>4, <2>7, <2>8, <2>9 DEF Recovers
<1>2. IInv => KitsSufficeWithoutCrash
  BY <1>1 DEF KitsSufficeWithoutCrash, KitsRecover, KitsFindLatest
<1> QED
  BY <1>2, Invariance, PTL
=============================================================================
