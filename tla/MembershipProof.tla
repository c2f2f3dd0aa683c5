--------------------------- MODULE MembershipProof ---------------------------
(***************************************************************************)
(* Proofs about Membership, for every set of keys, rows and handlers and   *)
(* every life of a token: the types, that challenges, nonces and invites   *)
(* work once, that memberships agree with credentials, and that a          *)
(* revocation is final.                                                    *)
(***************************************************************************)
EXTENDS Membership, FiniteSetTheorems, TLAPS

(***************************************************************************)
(* A session was made of a consumed challenge and a used nonce.            *)
(***************************************************************************)
SessionsSpendTokens ==
  \A s \in Session : session[s] # null =>
    /\ challenge[session[s].challenge] # null
    /\ challenge[session[s].challenge].consumed
    /\ session[s].nonce \in nonces

(***************************************************************************)
(* A handler that has consumed a challenge holds it alone: no other        *)
(* handler has, and no session was made of it.                             *)
(***************************************************************************)
Storing(h) == request[h] \in LoginRequest /\ request[h].step = "store"

ClaimedChallengesAreExclusive ==
  \A h \in Handler : Storing(h) =>
    /\ challenge[request[h].challenge] # null
    /\ challenge[request[h].challenge].consumed
    /\ \A s \in Session :
         session[s] # null => session[s].challenge # request[h].challenge
    /\ \A g \in Handler :
         g # h /\ Storing(g) => request[g].challenge # request[h].challenge

(***************************************************************************)
(* Sessions are made of challenges and nonces of their own.                *)
(***************************************************************************)
SessionsDiffer ==
  \A s, t \in Session : s # t /\ session[s] # null /\ session[t] # null =>
    /\ session[s].challenge # session[t].challenge
    /\ session[s].nonce # session[t].nonce

(***************************************************************************)
(* The rows that handlers have read and will change are there.             *)
(***************************************************************************)
ReadRowsStay ==
  \A h \in Handler :
    /\ request[h] \in LogoutRequest => session[request[h].session] # null
    /\ request[h] \in ApproveRequest => join[request[h].join] # null

(***************************************************************************)
(* A join request has consumed an invite of its own, from the claim on.    *)
(***************************************************************************)
Consumed(i) == invite[i] # null /\ invite[i].consumed

ClaimedInvitesAreExclusive ==
  /\ \A j \in Join : join[j] # null => Consumed(join[j].invite)
  /\ \A j, k \in Join : j # k /\ join[j] # null /\ join[k] # null
                        => join[j].invite # join[k].invite
  /\ \A h \in Handler : request[h] \in JoinRequest =>
       /\ Consumed(request[h].invite)
       /\ \A j \in Join : join[j] # null => join[j].invite # request[h].invite
       /\ \A g \in Handler : g # h /\ request[g] \in JoinRequest
                             => request[g].invite # request[h].invite

(***************************************************************************)
(* Approved requests admitted the members: one each, and all but one.      *)
(***************************************************************************)
Members == {k \in Key : member[k] # "none"}
Approved == {j \in Join : join[j] # null /\ join[j].status = "approved"}

ApprovalsAdmitOne ==
  /\ \A j, k \in Approved : j # k => join[j].key # join[k].key
  /\ \A j \in Approved : join[j].key \in Members
  /\ IsFiniteSet(Members) /\ IsFiniteSet(Approved)
  /\ Cardinality(Members) <= Cardinality(Approved) + 1

SessionInv == /\ SessionsSpendTokens
              /\ ClaimedChallengesAreExclusive
              /\ SessionsDiffer
InviteInv  == ClaimedInvitesAreExclusive
MemberInv  == ApprovalsAdmitOne /\ MembersHoldCredentials

IInv == TypeOK /\ ReadRowsStay /\ SessionInv /\ InviteInv /\ MemberInv

-----------------------------------------------------------------------------
(***************************************************************************)
(* What a handler does tells which kind of request it has read.            *)
(***************************************************************************)
LEMMA RequestKinds ==
  /\ null \notin Request
  /\ \A r \in Request :
       /\ r.op = "login"   <=> r \in LoginRequest
       /\ r.op = "logout"  <=> r \in LogoutRequest
       /\ r.op = "invite"  <=> r \in InviteRequest
       /\ r.op = "join"    <=> r \in JoinRequest
       /\ r.op = "approve" <=> r \in ApproveRequest
       /\ r.op = "revoke"  <=> r \in RevokeRequest
<1>1. null \notin Request
  BY NullAssumption
<1>2. ASSUME NEW r \in Request
      PROVE  /\ r.op = "login"   <=> r \in LoginRequest
             /\ r.op = "logout"  <=> r \in LogoutRequest
             /\ r.op = "invite"  <=> r \in InviteRequest
             /\ r.op = "join"    <=> r \in JoinRequest
             /\ r.op = "approve" <=> r \in ApproveRequest
             /\ r.op = "revoke"  <=> r \in RevokeRequest
  <2>1. CASE r \in LoginRequest
    BY <2>1 DEF LoginRequest, LogoutRequest, InviteRequest, JoinRequest,
                ApproveRequest, RevokeRequest
  <2>2. CASE r \in LogoutRequest
    BY <2>2 DEF LoginRequest, LogoutRequest, InviteRequest, JoinRequest,
                ApproveRequest, RevokeRequest
  <2>3. CASE r \in InviteRequest
    BY <2>3 DEF LoginRequest, LogoutRequest, InviteRequest, JoinRequest,
                ApproveRequest, RevokeRequest
  <2>4. CASE r \in JoinRequest
    BY <2>4 DEF LoginRequest, LogoutRequest, InviteRequest, JoinRequest,
                ApproveRequest, RevokeRequest
  <2>5. CASE r \in ApproveRequest
    BY <2>5 DEF LoginRequest, LogoutRequest, InviteRequest, JoinRequest,
                ApproveRequest, RevokeRequest
  <2>6. CASE r \in RevokeRequest
    BY <2>6 DEF LoginRequest, LogoutRequest, InviteRequest, JoinRequest,
                ApproveRequest, RevokeRequest
  <2> QED
    BY <2>1, <2>2, <2>3, <2>4, <2>5, <2>6 DEF Request
<1> QED
  BY <1>1, <1>2

\* The same of a handler in a typed state.
LEMMA DoesRequest ==
  ASSUME TypeOK, NEW h \in Handler, request[h] # null
  PROVE  /\ request[h] \in Request
         /\ Does(h, "login")   <=> request[h] \in LoginRequest
         /\ Does(h, "logout")  <=> request[h] \in LogoutRequest
         /\ Does(h, "join")    <=> request[h] \in JoinRequest
         /\ Does(h, "approve") <=> request[h] \in ApproveRequest
         /\ Does(h, "revoke")  <=> request[h] \in RevokeRequest
BY RequestKinds DEF TypeOK, Does

(***************************************************************************)
(* Parts of the invariant that an action leaves alone.                     *)
(***************************************************************************)
LEMMA SessionFrame ==
  ASSUME SessionInv, UNCHANGED <<challenge, nonces, session>>,
         \A h \in Handler : Storing(h)' => request'[h] = request[h]
  PROVE  SessionInv'
BY DEF SessionInv, SessionsSpendTokens, ClaimedChallengesAreExclusive,
       SessionsDiffer, Storing

LEMMA InviteFrame ==
  ASSUME InviteInv, UNCHANGED <<invite, join>>,
         \A h \in Handler : request'[h] \in JoinRequest => request'[h] = request[h]
  PROVE  InviteInv'
BY DEF InviteInv, ClaimedInvitesAreExclusive, Consumed

LEMMA MemberFrame ==
  ASSUME MemberInv, UNCHANGED <<member, credential, join>>
  PROVE  MemberInv'
<1>1. UNCHANGED <<Members, Approved>>
  BY DEF Members, Approved
<1>2. ApprovalsAdmitOne'
  BY <1>1 DEF MemberInv, ApprovalsAdmitOne
<1>3. MembersHoldCredentials'
  BY DEF MemberInv, MembersHoldCredentials
<1> QED
  BY <1>2, <1>3 DEF MemberInv

(***************************************************************************)
(* A handler that ends, without a change of any row, keeps everything.     *)
(***************************************************************************)
LEMMA AnswerKeeps ==
  ASSUME IInv, NEW h \in Handler, Answer(h), UNCHANGED <<now, rows>>
  PROVE  IInv'
<1> USE DEF IInv, Answer, Set, rows
<1>1. /\ TypeOK
      /\ request' = [request EXCEPT ![h] = null]
  OBVIOUS
<1>2. TypeOK'
  BY <1>1 DEF TypeOK
<1>3. \A g \in Handler : request'[g] = request[g] \/ request'[g] = null
  BY <1>1 DEF TypeOK
<1>4. null \notin LoginRequest \cup LogoutRequest \cup JoinRequest \cup ApproveRequest
  BY RequestKinds DEF Request
<1>5. ReadRowsStay'
  BY <1>3, <1>4 DEF ReadRowsStay
<1>6. SessionInv'
  BY <1>3, <1>4, SessionFrame DEF Storing
<1>7. InviteInv'
  BY <1>3, <1>4, InviteFrame
<1>8. MemberInv'
  BY MemberFrame
<1> QED
  BY <1>2, <1>5, <1>6, <1>7, <1>8

(***************************************************************************)
(* A handler that begins something else than a claim, or goes on with its  *)
(* login short of one, keeps everything when no row changes and the rows   *)
(* it relies on are there.                                                 *)
(***************************************************************************)
LEMMA ReadKeeps ==
  ASSUME IInv, NEW h \in Handler, NEW r \in Request, Set(h, r),
         UNCHANGED <<now, rows>>,
         r \notin JoinRequest,
         r \in LoginRequest => r.step # "store",
         r \in LogoutRequest => session[r.session] # null,
         r \in ApproveRequest => join[r.join] # null
  PROVE  IInv'
<1> USE DEF IInv, Set, rows
<1>1. TypeOK'
  BY DEF TypeOK
<1>2. \A g \in Handler : request'[g] = IF g = h THEN r ELSE request[g]
  BY DEF TypeOK
<1>3. ReadRowsStay'
  BY <1>2 DEF ReadRowsStay
<1>4. SessionInv'
  BY <1>2, SessionFrame DEF Storing
<1>5. InviteInv'
  BY <1>2, InviteFrame
<1>6. MemberInv'
  BY MemberFrame
<1> QED
  BY <1>1, <1>3, <1>4, <1>5, <1>6

LEMMA ReadsKeep ==
  ASSUME IInv, NEW h \in Handler,
         \/ BeginLogin(h) \/ BeginLogout(h) \/ BeginInvite(h) \/ BeginRevoke(h)
         \/ SelectPending(h)
  PROVE  IInv'
<1>1. PICK r \in Request :
        /\ Set(h, r) /\ UNCHANGED <<now, rows>>
        /\ r \notin JoinRequest
        /\ r \in LoginRequest => r.step # "store"
        /\ r \in LogoutRequest => session[r.session] # null
        /\ r \in ApproveRequest => join[r.join] # null
  <2>1. CASE BeginLogin(h)
    <3>1. PICK c \in Challenge, k \in Key, n \in Nonce :
            Set(h, [op |-> "login", step |-> "member", key |-> k,
                    challenge |-> c, nonce |-> n, at |-> now])
      BY <2>1 DEF BeginLogin
    <3>2. [op |-> "login", step |-> "member", key |-> k,
           challenge |-> c, nonce |-> n, at |-> now] \in LoginRequest
      BY LifeAssumption DEF LoginRequest, IInv, TypeOK
    <3> QED
      BY <2>1, <3>1, <3>2, RequestKinds DEF BeginLogin, Request, LoginRequest
  <2>2. CASE BeginLogout(h)
    <3>1. PICK s \in Session : Usable(s) /\ Set(h, [op |-> "logout", session |-> s])
      BY <2>2 DEF BeginLogout
    <3>2. [op |-> "logout", session |-> s] \in LogoutRequest
      BY DEF LogoutRequest
    <3> QED
      BY <2>2, <3>1, <3>2, RequestKinds DEF BeginLogout, Request, LogoutRequest, Usable
  <2>3. CASE BeginInvite(h)
    <3>1. [op |-> "invite"] \in InviteRequest
      BY DEF InviteRequest
    <3> QED
      BY <2>3, <3>1, RequestKinds DEF BeginInvite, Request
  <2>4. CASE BeginRevoke(h)
    <3>1. PICK k \in Key : Set(h, [op |-> "revoke", key |-> k])
      BY <2>4 DEF BeginRevoke
    <3>2. [op |-> "revoke", key |-> k] \in RevokeRequest
      BY DEF RevokeRequest
    <3> QED
      BY <2>4, <3>1, <3>2, RequestKinds DEF BeginRevoke, Request
  <2>5. CASE SelectPending(h)
    <3>1. PICK j \in Join, serial \in Serial,
               expires \in (now + 1)..(now + CredentialLife),
               roles \in {{"member"}, {"member", "admin"}} :
            /\ join[j] # null
            /\ Set(h, [op |-> "approve", join |-> j, serial |-> serial,
                       expires |-> expires, roles |-> roles])
      BY <2>5 DEF SelectPending
    <3>2. [op |-> "approve", join |-> j, serial |-> serial,
           expires |-> expires, roles |-> roles] \in ApproveRequest
      BY LifeAssumption DEF ApproveRequest, IInv, TypeOK
    <3> QED
      BY <2>5, <3>1, <3>2, RequestKinds DEF SelectPending, Request, ApproveRequest
  <2> QED
    BY <2>1, <2>2, <2>3, <2>4, <2>5
<1> QED
  BY <1>1, ReadKeeps

LEMMA SelectMemberKeeps ==
  ASSUME IInv, NEW h \in Handler, SelectMember(h)
  PROVE  IInv'
<1>1. CASE Answer(h)
  BY <1>1, AnswerKeeps DEF SelectMember
<1>2. CASE Set(h, [request[h] EXCEPT !.step = "claim", !.at = now])
  <2>1. request[h] \in LoginRequest
    BY DoesRequest DEF IInv, SelectMember, Logs, Does
  <2>2. ASSUME NEW r \in LoginRequest, now \in Nat
        PROVE  /\ [r EXCEPT !.step = "claim", !.at = now] \in LoginRequest
               /\ [r EXCEPT !.step = "claim", !.at = now].step = "claim"
    BY <2>2 DEF LoginRequest
  <2>3. now \in Nat
    BY LifeAssumption DEF IInv, TypeOK
  <2> QED
    BY <1>2, <2>1, <2>2, <2>3, ReadKeeps, RequestKinds DEF SelectMember, Request
<1> QED
  BY <1>1, <1>2 DEF SelectMember

\* Handlers that give up, or whose batch fails.
LEMMA EndsKeep ==
  ASSUME IInv, NEW h \in Handler,
         NonceConflict(h) \/ ApprovalConflict(h) \/ Abandon(h)
  PROVE  IInv'
BY AnswerKeeps DEF NonceConflict, ApprovalConflict, Abandon

-----------------------------------------------------------------------------
(***************************************************************************)
(* Challenges and sessions.                                                *)
(***************************************************************************)
LEMMA TickKeeps ==
  ASSUME IInv, Tick
  PROVE  IInv'
<1> USE DEF IInv, Tick, rows
<1>1. TypeOK'
  BY LifeAssumption DEF TypeOK
<1>2. ReadRowsStay'
  BY DEF ReadRowsStay
<1>3. SessionInv'
  BY SessionFrame
<1>4. InviteInv'
  BY InviteFrame
<1>5. MemberInv'
  BY MemberFrame
<1> QED
  BY <1>1, <1>2, <1>3, <1>4, <1>5

LEMMA CreateChallengeKeeps ==
  ASSUME IInv, NEW c \in Challenge, CreateChallenge(c)
  PROVE  IInv'
<1> USE DEF IInv
<1> DEFINE row == [expires |-> now + ChallengeLife, consumed |-> FALSE]
<1>1. row \in ChallengeRow /\ challenge' = [challenge EXCEPT ![c] = row]
  BY LifeAssumption DEF CreateChallenge, ChallengeRow, TypeOK
<1> HIDE DEF row
<1>2. /\ challenge[c] = null
      /\ UNCHANGED <<now, member, admin, credential, nonces, session, invite, join,
                     request>>
  BY DEF CreateChallenge
<1>3. TypeOK'
  BY <1>1, <1>2 DEF TypeOK
<1>4. ReadRowsStay'
  BY <1>2 DEF ReadRowsStay
<1>5. \A d \in Challenge : challenge[d] # null => challenge'[d] = challenge[d]
  BY <1>1, <1>2 DEF TypeOK
<1>6. SessionsSpendTokens'
  BY <1>2, <1>5 DEF SessionInv, SessionsSpendTokens, TypeOK, SessionRow
<1>7. ClaimedChallengesAreExclusive'
  BY <1>2, <1>5 DEF SessionInv, ClaimedChallengesAreExclusive, Storing, LoginRequest
<1>8. SessionsDiffer'
  BY <1>2 DEF SessionInv, SessionsDiffer
<1>9. InviteInv'
  BY <1>2, InviteFrame
<1>10. MemberInv'
  BY <1>2, MemberFrame
<1> QED
  BY <1>3, <1>4, <1>6, <1>7, <1>8, <1>9, <1>10 DEF SessionInv

(***************************************************************************)
(* The UPDATE of a challenge finds it open, so that nobody holds it yet.   *)
(***************************************************************************)
LEMMA ClaimChallengeKeeps ==
  ASSUME IInv, NEW h \in Handler, ClaimChallenge(h)
  PROVE  IInv'
<1> DEFINE c == request[h].challenge
<1> USE DEF IInv
<1>1. CASE ~ChallengeOpen(c, request[h].at)
  BY <1>1, AnswerKeeps DEF ClaimChallenge, rows
<1>2. CASE ChallengeOpen(c, request[h].at)
  <2> DEFINE r == [request[h] EXCEPT !.step = "store"]
  <2>1. request[h] \in LoginRequest /\ c \in Challenge
    BY DoesRequest DEF ClaimChallenge, Logs, Does, LoginRequest
  <2>2. /\ challenge[c] # null /\ ~challenge[c].consumed
        /\ challenge' = [challenge EXCEPT ![c].consumed = TRUE]
        /\ request' = [request EXCEPT ![h] = r]
        /\ UNCHANGED <<now, member, admin, credential, nonces, session, invite, join>>
    BY <1>2 DEF ClaimChallenge, ChallengeOpen, Set
  <2>3. r \in LoginRequest /\ r.challenge = c
    BY <2>1 DEF LoginRequest
  <2> HIDE DEF r
  <2>4. /\ \A d \in Challenge : challenge[d] # null => challenge'[d] # null
        /\ \A d \in Challenge : challenge[d] # null /\ challenge[d].consumed
                                => challenge'[d].consumed
        /\ challenge'[c] # null /\ challenge'[c].consumed
        /\ challenge' \in [Challenge -> ChallengeRow \cup {null}]
    <3>1. challenge[c] \in ChallengeRow
      BY <2>1, <2>2 DEF TypeOK
    <3>2. /\ [challenge[c] EXCEPT !.consumed = TRUE] \in ChallengeRow
          /\ [challenge[c] EXCEPT !.consumed = TRUE].consumed
      BY <3>1 DEF ChallengeRow
    <3>3. \A d \in Challenge :
            challenge'[d] = IF d = c THEN [challenge[c] EXCEPT !.consumed = TRUE]
                                     ELSE challenge[d]
      BY <2>1, <2>2 DEF TypeOK
    <3>4. null \notin ChallengeRow
      BY NullAssumption
    <3>5. challenge' \in [Challenge -> ChallengeRow \cup {null}]
      BY <2>2, <3>2, <3>3 DEF TypeOK
    <3> QED
      BY <2>1, <3>2, <3>3, <3>4, <3>5
  <2>5. \A g \in Handler : request'[g] = IF g = h THEN r ELSE request[g]
    BY <2>2 DEF TypeOK
  <2>6. TypeOK'
    BY <2>2, <2>3, <2>4 DEF TypeOK, Request
  <2>7. ReadRowsStay'
    BY <2>2, <2>3, <2>5, RequestKinds DEF ReadRowsStay, Request
  <2>8. SessionsSpendTokens'
    BY <2>2, <2>4 DEF SessionInv, SessionsSpendTokens, TypeOK, SessionRow
  <2>9. ClaimedChallengesAreExclusive'
    <3>1. \A s \in Session : session[s] # null => session[s].challenge # c
      BY <2>1, <2>2 DEF SessionInv, SessionsSpendTokens
    <3>2. \A g \in Handler : Storing(g) => request[g].challenge # c
      BY <2>1, <2>2 DEF SessionInv, ClaimedChallengesAreExclusive
    <3>3. \A g \in Handler : Storing(g)' => g = h \/ Storing(g)
      BY <2>5 DEF Storing
    <3> QED
      BY <2>2, <2>3, <2>4, <2>5, <3>1, <3>2, <3>3
      DEF SessionInv, ClaimedChallengesAreExclusive, Storing, LoginRequest
  <2>10. SessionsDiffer'
    BY <2>2 DEF SessionInv, SessionsDiffer
  <2>11. InviteInv'
    BY <2>2, <2>3, <2>5, InviteFrame, RequestKinds DEF Request
  <2>12. MemberInv'
    BY <2>2, MemberFrame
  <2> QED
    BY <2>6, <2>7, <2>8, <2>9, <2>10, <2>11, <2>12 DEF SessionInv
<1> QED
  BY <1>1, <1>2

(***************************************************************************)
(* The session that a batch stores is the first of its challenge and of    *)
(* its nonce, and its handler lets go of the challenge.                    *)
(***************************************************************************)
LEMMA InsertSessionKeeps ==
  ASSUME IInv, NEW h \in Handler, InsertSession(h)
  PROVE  IInv'
<1> USE DEF IInv
<1>1. Storing(h) /\ request[h] # null
  BY DoesRequest DEF InsertSession, Logs, Does, Storing
<1> DEFINE r == request[h]
           row == [key |-> r.key, expires |-> r.at + SessionLife, revoked |-> FALSE,
                   challenge |-> r.challenge, nonce |-> r.nonce]
<1>2. PICK s \in Session : session[s] = null /\ session' = [session EXCEPT ![s] = row]
  BY DEF InsertSession
<1>3. /\ r.nonce \notin nonces /\ nonces' = nonces \cup {r.nonce}
      /\ request' = [request EXCEPT ![h] = null]
      /\ UNCHANGED <<now, member, admin, credential, challenge, invite, join>>
  BY DEF InsertSession, NonceTaken, Answer, Set
<1>4. /\ row \in SessionRow
      /\ row.challenge = r.challenge /\ row.nonce = r.nonce
      /\ r.nonce \in Nonce
  BY <1>1, LifeAssumption DEF Storing, LoginRequest, SessionRow
<1> HIDE DEF row
<1>5. \A t \in Session : session'[t] = IF t = s THEN row ELSE session[t]
  BY <1>2 DEF TypeOK
<1>6. \A g \in Handler : request'[g] = IF g = h THEN null ELSE request[g]
  BY <1>3 DEF TypeOK
<1>7. TypeOK'
  BY <1>2, <1>3, <1>4 DEF TypeOK
<1>8. null \notin SessionRow \cup LoginRequest \cup LogoutRequest \cup JoinRequest
                   \cup ApproveRequest
  BY NullAssumption DEF Request
<1>9. ReadRowsStay'
  BY <1>3, <1>4, <1>5, <1>6, <1>8 DEF ReadRowsStay, LogoutRequest
<1>10. SessionsSpendTokens'
  BY <1>1, <1>3, <1>4, <1>5
  DEF SessionInv, SessionsSpendTokens, ClaimedChallengesAreExclusive
<1>11. ClaimedChallengesAreExclusive'
  BY <1>1, <1>3, <1>4, <1>5, <1>6, <1>8
  DEF SessionInv, ClaimedChallengesAreExclusive, Storing
<1>12. SessionsDiffer'
  BY <1>1, <1>3, <1>4, <1>5
  DEF SessionInv, SessionsDiffer, SessionsSpendTokens, ClaimedChallengesAreExclusive
<1>13. InviteInv'
  BY <1>3, <1>6, <1>8, InviteFrame
<1>14. MemberInv'
  BY <1>3, MemberFrame
<1> QED
  BY <1>7, <1>9, <1>10, <1>11, <1>12, <1>13, <1>14 DEF SessionInv

(***************************************************************************)
(* Sessions whose revoked flag changes are made of the same tokens.        *)
(***************************************************************************)
LEMMA RevokedSessionsKeep ==
  ASSUME IInv, UNCHANGED <<challenge, nonces>>,
         \A s \in Session :
           /\ session'[s] # null => session[s] # null
           /\ session'[s] # null => /\ session'[s].challenge = session[s].challenge
                                    /\ session'[s].nonce = session[s].nonce,
         \A h \in Handler : request'[h] = request[h] \/ request'[h] = null
  PROVE  SessionInv'
<1>1. null \notin LoginRequest
  BY NullAssumption DEF Request
<1>2. SessionsSpendTokens'
  BY DEF IInv, SessionInv, SessionsSpendTokens
<1>3. ClaimedChallengesAreExclusive'
  BY <1>1 DEF IInv, SessionInv, ClaimedChallengesAreExclusive, Storing
<1>4. SessionsDiffer'
  BY DEF IInv, SessionInv, SessionsDiffer
<1> QED
  BY <1>2, <1>3, <1>4 DEF SessionInv

LEMMA RevokedRow ==
  ASSUME NEW row \in SessionRow
  PROVE  /\ [row EXCEPT !.revoked = TRUE] \in SessionRow
         /\ [row EXCEPT !.revoked = TRUE].challenge = row.challenge
         /\ [row EXCEPT !.revoked = TRUE].nonce = row.nonce
BY DEF SessionRow

LEMMA RevokeSessionKeeps ==
  ASSUME IInv, NEW h \in Handler, RevokeSession(h)
  PROVE  IInv'
<1> USE DEF IInv
<1> DEFINE x == request[h].session
<1>1. request[h] \in LogoutRequest /\ x \in Session /\ session[x] # null
  BY DoesRequest DEF RevokeSession, Does, LogoutRequest, ReadRowsStay
<1>2. session[x] \in SessionRow
  BY <1>1 DEF TypeOK
<1>3. /\ request' = [request EXCEPT ![h] = null]
      /\ UNCHANGED <<now, member, admin, credential, challenge, nonces, invite, join>>
  BY DEF RevokeSession, Answer, Set
<1> DEFINE row == [session[x] EXCEPT !.revoked = TRUE]
<1>4. /\ row \in SessionRow
      /\ row.challenge = session[x].challenge /\ row.nonce = session[x].nonce
  BY <1>2, RevokedRow
<1>5. session' = [session EXCEPT ![x] = row]
  BY DEF RevokeSession
<1> HIDE DEF row
<1>6. \A s \in Session : session'[s] = IF s = x THEN row ELSE session[s]
  BY <1>5 DEF TypeOK
<1>7. \A g \in Handler : request'[g] = IF g = h THEN null ELSE request[g]
  BY <1>3 DEF TypeOK
<1>8. TypeOK'
  BY <1>3, <1>4, <1>5 DEF TypeOK
<1>9. null \notin SessionRow \cup LogoutRequest \cup JoinRequest \cup ApproveRequest
  BY NullAssumption DEF Request
<1>10. ReadRowsStay'
  BY <1>3, <1>4, <1>6, <1>7, <1>9 DEF ReadRowsStay, LogoutRequest
<1>11. SessionInv'
  BY <1>1, <1>3, <1>4, <1>6, <1>7, RevokedSessionsKeep
<1>12. InviteInv'
  BY <1>3, <1>7, <1>9, InviteFrame
<1>13. MemberInv'
  BY <1>3, MemberFrame
<1> QED
  BY <1>8, <1>10, <1>11, <1>12, <1>13

-----------------------------------------------------------------------------
(***************************************************************************)
(* Invites and join requests.                                              *)
(***************************************************************************)
LEMMA InsertInviteKeeps ==
  ASSUME IInv, NEW h \in Handler, InsertInvite(h)
  PROVE  IInv'
<1> USE DEF IInv
<1> DEFINE row == [expires |-> now + InviteLife, consumed |-> FALSE]
<1>1. PICK i \in Invite : invite[i] = null /\ invite' = [invite EXCEPT ![i] = row]
  BY DEF InsertInvite
<1>2. /\ request' = [request EXCEPT ![h] = null]
      /\ UNCHANGED <<now, member, admin, credential, challenge, nonces, session, join>>
  BY DEF InsertInvite, Answer, Set
<1>3. row \in InviteRow
  BY LifeAssumption DEF InviteRow, TypeOK
<1> HIDE DEF row
<1>4. \A k \in Invite : invite[k] # null => invite'[k] = invite[k]
  BY <1>1 DEF TypeOK
<1>5. \A g \in Handler : request'[g] = IF g = h THEN null ELSE request[g]
  BY <1>2 DEF TypeOK
<1>6. null \notin LoginRequest \cup LogoutRequest \cup JoinRequest \cup ApproveRequest
  BY NullAssumption DEF Request
<1>7. TypeOK'
  BY <1>1, <1>2, <1>3 DEF TypeOK
<1>8. ReadRowsStay'
  BY <1>2, <1>5, <1>6 DEF ReadRowsStay
<1>9. SessionInv'
  BY <1>2, <1>5, <1>6, SessionFrame DEF Storing
<1>10. InviteInv'
  BY <1>2, <1>4, <1>5, <1>6
  DEF InviteInv, ClaimedInvitesAreExclusive, Consumed, TypeOK, JoinRow, JoinRequest
<1>11. MemberInv'
  BY <1>2, MemberFrame
<1> QED
  BY <1>7, <1>8, <1>9, <1>10, <1>11

(***************************************************************************)
(* The UPDATE of an invite finds it open, so that no join request and no   *)
(* handler has claimed it.                                                 *)
(***************************************************************************)
LEMMA ConsumedRow ==
  ASSUME NEW row \in InviteRow
  PROVE  /\ [row EXCEPT !.consumed = TRUE] \in InviteRow
         /\ [row EXCEPT !.consumed = TRUE].consumed
BY DEF InviteRow

LEMMA ClaimInviteKeeps ==
  ASSUME IInv, NEW h \in Handler, ClaimInvite(h)
  PROVE  IInv'
<1> USE DEF IInv
<1>1. PICK i \in Invite, k \in Key :
        /\ InviteOpen(i)
        /\ invite' = [invite EXCEPT ![i].consumed = TRUE]
        /\ Set(h, [op |-> "join", key |-> k, invite |-> i])
  BY DEF ClaimInvite
<1> DEFINE r == [op |-> "join", key |-> k, invite |-> i]
           row == [invite[i] EXCEPT !.consumed = TRUE]
<1>2. r \in JoinRequest /\ r.invite = i
  BY DEF JoinRequest
<1>3. invite[i] \in InviteRow /\ ~invite[i].consumed
  BY <1>1 DEF TypeOK, InviteOpen
<1>4. row \in InviteRow /\ row.consumed
  BY <1>3, ConsumedRow
<1>5. /\ invite' = [invite EXCEPT ![i] = row]
      /\ request' = [request EXCEPT ![h] = r]
  BY <1>1 DEF Set
<1> HIDE DEF r, row
<1>6. UNCHANGED <<now, member, admin, credential, challenge, nonces, session, join>>
  BY DEF ClaimInvite
<1>7. \A x \in Invite : invite'[x] = IF x = i THEN row ELSE invite[x]
  BY <1>5 DEF TypeOK
<1>8. \A g \in Handler : request'[g] = IF g = h THEN r ELSE request[g]
  BY <1>5 DEF TypeOK
<1>9. /\ null \notin InviteRow \cup LoginRequest \cup LogoutRequest \cup JoinRequest
                    \cup ApproveRequest
      /\ r \notin LoginRequest \cup LogoutRequest \cup ApproveRequest
  BY <1>2, NullAssumption, RequestKinds DEF Request
<1>10. TypeOK'
  BY <1>2, <1>4, <1>5, <1>6 DEF TypeOK, Request
<1>11. ReadRowsStay'
  BY <1>6, <1>8, <1>9 DEF ReadRowsStay
<1>12. SessionInv'
  BY <1>6, <1>8, <1>9, SessionFrame DEF Storing
<1>13. \A x \in Invite : Consumed(x) => x # i /\ Consumed(x)'
  BY <1>3, <1>7 DEF Consumed
<1>14. Consumed(i)'
  BY <1>4, <1>7, <1>9 DEF Consumed
<1>15. InviteInv'
  BY <1>2, <1>6, <1>8, <1>9, <1>13, <1>14
  DEF InviteInv, ClaimedInvitesAreExclusive, TypeOK, JoinRow, JoinRequest
<1>16. MemberInv'
  BY <1>6, MemberFrame
<1> QED
  BY <1>10, <1>11, <1>12, <1>15, <1>16

(***************************************************************************)
(* A new join request is pending, and takes the invite its handler holds.  *)
(***************************************************************************)
LEMMA InsertJoinRequestKeeps ==
  ASSUME IInv, NEW h \in Handler, InsertJoinRequest(h)
  PROVE  IInv'
<1> USE DEF IInv
<1> DEFINE r == request[h]
           row == [key |-> r.key, status |-> "pending", invite |-> r.invite]
<1>1. r \in JoinRequest
  BY DoesRequest DEF InsertJoinRequest, Does
<1>2. PICK j \in Join : join[j] = null /\ join' = [join EXCEPT ![j] = row]
  BY DEF InsertJoinRequest
<1>3. row \in JoinRow /\ row.invite = r.invite /\ row.status = "pending"
  BY <1>1 DEF JoinRequest, JoinRow
<1> HIDE DEF row
<1>4. /\ request' = [request EXCEPT ![h] = null]
      /\ UNCHANGED <<now, member, admin, credential, challenge, nonces, session,
                     invite>>
  BY DEF InsertJoinRequest, Answer, Set
<1>5. \A x \in Join : join'[x] = IF x = j THEN row ELSE join[x]
  BY <1>2 DEF TypeOK
<1>6. \A g \in Handler : request'[g] = IF g = h THEN null ELSE request[g]
  BY <1>4 DEF TypeOK
<1>7. null \notin JoinRow \cup LoginRequest \cup LogoutRequest \cup JoinRequest
                  \cup ApproveRequest
  BY NullAssumption DEF Request
<1>8. TypeOK'
  BY <1>2, <1>3, <1>4 DEF TypeOK
<1>9. ReadRowsStay'
  BY <1>3, <1>4, <1>5, <1>6, <1>7 DEF ReadRowsStay, ApproveRequest
<1>10. SessionInv'
  BY <1>4, <1>6, <1>7, SessionFrame DEF Storing
<1>11. InviteInv'
  BY <1>1, <1>3, <1>4, <1>5, <1>6, <1>7
  DEF InviteInv, ClaimedInvitesAreExclusive, Consumed
<1>12. UNCHANGED <<Members, Approved>>
  BY <1>2, <1>3, <1>4, <1>5 DEF Members, Approved
<1>13. \A x \in Approved : join'[x] = join[x]
  BY <1>2, <1>5 DEF Approved
<1>14. ApprovalsAdmitOne'
  BY <1>12, <1>13 DEF MemberInv, ApprovalsAdmitOne
<1>15. MembersHoldCredentials'
  BY <1>4 DEF MemberInv, MembersHoldCredentials
<1> QED
  BY <1>8, <1>9, <1>10, <1>11, <1>14, <1>15 DEF MemberInv

-----------------------------------------------------------------------------
(***************************************************************************)
(* Members.  A new row of members comes with a credential of a new serial. *)
(***************************************************************************)
LEMMA InsertMemberAdds ==
  ASSUME TypeOK, MembersHoldCredentials,
         NEW k \in Key, NEW roles, NEW serial \in Serial, NEW expires \in Nat,
         member[k] = "none", ~SerialTaken(serial),
         InsertMember(k, roles, serial, expires)
  PROVE  /\ member' \in [Key -> {"none", "active", "revoked"}]
         /\ admin' \subseteq Key
         /\ credential' \in [Key -> CredentialRow \cup {null}]
         /\ MembersHoldCredentials'
         /\ Members' = Members \cup {k}
<1> DEFINE row == [serial |-> serial, expires |-> expires, revoked |-> FALSE]
<1>1. /\ row \in CredentialRow
      /\ row.serial = serial /\ ~row.revoked
  BY DEF CredentialRow
<1>2. /\ member' = [member EXCEPT ![k] = "active"]
      /\ credential' = [credential EXCEPT ![k] = row]
      /\ admin' \subseteq admin \cup {k}
  BY DEF InsertMember
<1> HIDE DEF row
<1>3. /\ \A l \in Key : member'[l] = IF l = k THEN "active" ELSE member[l]
      /\ \A l \in Key : credential'[l] = IF l = k THEN row ELSE credential[l]
  BY <1>2 DEF TypeOK
<1>4. null \notin CredentialRow
  BY NullAssumption
<1>5. \A l \in Key : credential[l] # null => credential[l].serial # serial
  BY DEF SerialTaken, Credentials
<1>6. /\ member' \in [Key -> {"none", "active", "revoked"}]
      /\ admin' \subseteq Key
      /\ credential' \in [Key -> CredentialRow \cup {null}]
  BY <1>1, <1>2 DEF TypeOK
<1>7. MembersHoldCredentials'
  <2>1. ASSUME NEW l \in Key
        PROVE  /\ (member'[l] = "none") <=> (credential'[l] = null)
               /\ (member'[l] = "active") => ~credential'[l].revoked
               /\ (member'[l] = "revoked") => credential'[l].revoked
    BY <1>1, <1>3, <1>4 DEF MembersHoldCredentials
  <2>2. ASSUME NEW l \in Key, NEW m \in Key, l # m,
               credential'[l] # null, credential'[m] # null
        PROVE  credential'[l].serial # credential'[m].serial
    BY <1>1, <1>3, <1>5, <2>2 DEF MembersHoldCredentials
  <2> QED
    BY <2>1, <2>2 DEF MembersHoldCredentials
<1>8. Members' = Members \cup {k}
  BY <1>3 DEF Members
<1> QED
  BY <1>6, <1>7, <1>8

(***************************************************************************)
(* The founder is the one member that no approved request admitted.        *)
(***************************************************************************)
LEMMA CreateCommunityKeeps ==
  ASSUME IInv, CreateCommunity
  PROVE  IInv'
<1> USE DEF IInv
<1>1. PICK k \in Key, serial \in Serial, expires \in (now + 1)..(now + CredentialLife) :
        InsertMember(k, {"member", "admin"}, serial, expires)
  BY DEF CreateCommunity
<1>2. /\ \A l \in Key : member[l] = "none"
      /\ UNCHANGED <<now, challenge, nonces, session, invite, join, request>>
  BY DEF CreateCommunity
<1>3. expires \in Nat
  BY LifeAssumption DEF TypeOK
<1>4. ~SerialTaken(serial)
  BY <1>2 DEF MemberInv, MembersHoldCredentials, SerialTaken, Credentials
<1>5. /\ member' \in [Key -> {"none", "active", "revoked"}]
      /\ admin' \subseteq Key
      /\ credential' \in [Key -> CredentialRow \cup {null}]
      /\ MembersHoldCredentials'
      /\ Members' = Members \cup {k}
  BY <1>1, <1>2, <1>3, <1>4, InsertMemberAdds DEF MemberInv
<1>6. TypeOK'
  BY <1>2, <1>5 DEF TypeOK
<1>7. ReadRowsStay'
  BY <1>2 DEF ReadRowsStay
<1>8. SessionInv'
  BY <1>2, SessionFrame
<1>9. InviteInv'
  BY <1>2, InviteFrame
<1>10. Members = {} /\ UNCHANGED Approved
  BY <1>2 DEF Members, Approved
<1>11. IsFiniteSet(Members') /\ Cardinality(Members') = 1
  <2>1. Members' = {k}
    BY <1>5, <1>10
  <2> QED
    BY <2>1, FS_Singleton
<1>12. Cardinality(Approved) \in Nat
  BY FS_CardinalityType DEF MemberInv, ApprovalsAdmitOne
<1>13. ApprovalsAdmitOne'
  BY <1>2, <1>5, <1>10, <1>11, <1>12 DEF MemberInv, ApprovalsAdmitOne
<1> QED
  BY <1>5, <1>6, <1>7, <1>8, <1>9, <1>13 DEF MemberInv

(***************************************************************************)
(* An approval adds one member and one approved request: its key was not a *)
(* member, so that the request had not been approved.                      *)
(***************************************************************************)
LEMMA ApprovedRow ==
  ASSUME NEW row \in JoinRow
  PROVE  /\ [row EXCEPT !.status = "approved"] \in JoinRow
         /\ [row EXCEPT !.status = "approved"].status = "approved"
         /\ [row EXCEPT !.status = "approved"].key = row.key
         /\ [row EXCEPT !.status = "approved"].invite = row.invite
BY DEF JoinRow

LEMMA ApproveJoinKeeps ==
  ASSUME IInv, NEW h \in Handler, ApproveJoin(h)
  PROVE  IInv'
<1> USE DEF IInv
<1> DEFINE r == request[h]
           j == r.join
           k == join[j].key
           row == [join[j] EXCEPT !.status = "approved"]
<1>1. r \in ApproveRequest /\ j \in Join /\ join[j] # null
  BY DoesRequest DEF ApproveJoin, Does, ApproveRequest, ReadRowsStay
<1>2. r.serial \in Serial /\ r.expires \in Nat
  BY <1>1 DEF ApproveRequest
<1>3. join[j] \in JoinRow /\ k \in Key
  BY <1>1 DEF TypeOK, JoinRow
<1>4. /\ member[k] = "none" /\ ~SerialTaken(r.serial)
      /\ InsertMember(k, r.roles, r.serial, r.expires)
  BY <1>3 DEF ApproveJoin, MemberConflict
<1>5. /\ request' = [request EXCEPT ![h] = null]
      /\ UNCHANGED <<now, challenge, nonces, session, invite>>
  BY DEF ApproveJoin, Answer, Set
<1>6. join' = [join EXCEPT ![j] = row]
  BY DEF ApproveJoin
<1>7. /\ row \in JoinRow /\ row.status = "approved"
      /\ row.key = k /\ row.invite = join[j].invite
  BY <1>3, ApprovedRow
<1>8. /\ member' \in [Key -> {"none", "active", "revoked"}]
      /\ admin' \subseteq Key
      /\ credential' \in [Key -> CredentialRow \cup {null}]
      /\ MembersHoldCredentials'
      /\ Members' = Members \cup {k}
  BY <1>2, <1>3, <1>4, InsertMemberAdds DEF MemberInv
<1> HIDE DEF row
<1>9. \A x \in Join : join'[x] = IF x = j THEN row ELSE join[x]
  BY <1>6 DEF TypeOK
<1>10. \A g \in Handler : request'[g] = IF g = h THEN null ELSE request[g]
  BY <1>5 DEF TypeOK
<1>11. null \notin JoinRow \cup LoginRequest \cup LogoutRequest \cup JoinRequest
                   \cup ApproveRequest
  BY NullAssumption DEF Request
<1>12. TypeOK'
  BY <1>5, <1>6, <1>7, <1>8 DEF TypeOK
<1>13. ReadRowsStay'
  BY <1>5, <1>7, <1>9, <1>10, <1>11 DEF ReadRowsStay, ApproveRequest
<1>14. SessionInv'
  BY <1>5, <1>10, <1>11, SessionFrame DEF Storing
<1>15. InviteInv'
  BY <1>1, <1>5, <1>7, <1>9, <1>10, <1>11
  DEF InviteInv, ClaimedInvitesAreExclusive, Consumed
<1>16. ApprovalsAdmitOne'
  <2>1. j \notin Approved /\ k \notin Members
    BY <1>3, <1>4 DEF MemberInv, ApprovalsAdmitOne, Members
  <2>2. Approved' = Approved \cup {j}
    BY <1>1, <1>7, <1>9, <1>11 DEF Approved
  <2>3. /\ \A x \in Approved : join'[x] = join[x]
        /\ join'[j].key = k
    BY <1>1, <1>7, <1>9, <2>1 DEF Approved
  <2>4. /\ \A x, y \in Approved' : x # y => join'[x].key # join'[y].key
        /\ \A x \in Approved' : join'[x].key \in Members'
    BY <1>8, <2>1, <2>2, <2>3 DEF MemberInv, ApprovalsAdmitOne
  <2>5. /\ IsFiniteSet(Members') /\ IsFiniteSet(Approved')
        /\ Cardinality(Members') = Cardinality(Members) + 1
        /\ Cardinality(Approved') = Cardinality(Approved) + 1
    BY <1>8, <2>1, <2>2, FS_AddElement DEF MemberInv, ApprovalsAdmitOne
  <2>6. Cardinality(Members) \in Nat /\ Cardinality(Approved) \in Nat
    BY FS_CardinalityType DEF MemberInv, ApprovalsAdmitOne
  <2>7. Cardinality(Members') <= Cardinality(Approved') + 1
    BY <2>5, <2>6 DEF MemberInv, ApprovalsAdmitOne
  <2> QED
    BY <2>4, <2>5, <2>7 DEF ApprovalsAdmitOne
<1> QED
  BY <1>8, <1>12, <1>13, <1>14, <1>15, <1>16 DEF MemberInv

(***************************************************************************)
(* A revocation takes the membership, the credential and the sessions of a *)
(* key together, and removes no row.                                       *)
(***************************************************************************)
LEMMA RevokedCredential ==
  ASSUME NEW row \in CredentialRow
  PROVE  /\ [row EXCEPT !.revoked = TRUE] \in CredentialRow
         /\ [row EXCEPT !.revoked = TRUE].revoked
         /\ [row EXCEPT !.revoked = TRUE].serial = row.serial
BY DEF CredentialRow

LEMMA RevokeMemberKeeps ==
  ASSUME IInv, NEW h \in Handler, RevokeMember(h)
  PROVE  IInv'
<1> USE DEF IInv
<1> DEFINE k == request[h].key
<1>1. k \in Key
  BY DoesRequest DEF RevokeMember, Does, RevokeRequest
<1>2. /\ member' = [member EXCEPT ![k] = IF @ = "none" THEN @ ELSE "revoked"]
      /\ request' = [request EXCEPT ![h] = null]
      /\ UNCHANGED <<now, admin, challenge, nonces, invite, join>>
  BY DEF RevokeMember, Answer, Set
<1>3. \A l \in Key : member'[l] = IF l = k /\ member[l] # "none" THEN "revoked"
                                  ELSE member[l]
  BY <1>2 DEF TypeOK
<1>4. member' \in [Key -> {"none", "active", "revoked"}]
  BY <1>2 DEF TypeOK
<1>5. /\ credential' \in [Key -> CredentialRow \cup {null}]
      /\ \A l \in Key : credential'[l] = null <=> credential[l] = null
      /\ \A l \in Key : credential[l] # null =>
           credential'[l].serial = credential[l].serial
      /\ \A l \in Key : l # k => credential'[l] = credential[l]
      /\ credential[k] # null => credential'[k].revoked
  <2>1. CASE credential[k] = null
    BY <2>1 DEF RevokeMember, RevokeCredential, TypeOK
  <2>2. CASE credential[k] # null
    <3> DEFINE row == [credential[k] EXCEPT !.revoked = TRUE]
    <3>1. credential[k] \in CredentialRow
      BY <1>1, <2>2 DEF TypeOK
    <3>2. /\ row \in CredentialRow
          /\ row.revoked /\ row.serial = credential[k].serial
      BY <3>1, RevokedCredential
    <3>3. credential' = [credential EXCEPT ![k] = row]
      BY <2>2 DEF RevokeMember, RevokeCredential
    <3> HIDE DEF row
    <3>4. \A l \in Key : credential'[l] = IF l = k THEN row ELSE credential[l]
      BY <3>3 DEF TypeOK
    <3>5. credential' \in [Key -> CredentialRow \cup {null}]
      BY <3>2, <3>3 DEF TypeOK
    <3>6. null \notin CredentialRow
      BY NullAssumption
    <3> QED
      BY <1>1, <2>2, <3>2, <3>4, <3>5, <3>6
  <2> QED
    BY <2>1, <2>2
<1>6. /\ session' \in [Session -> SessionRow \cup {null}]
      /\ \A s \in Session :
           /\ session'[s] # null <=> session[s] # null
           /\ session'[s] # null => /\ session'[s].challenge = session[s].challenge
                                    /\ session'[s].nonce = session[s].nonce
  <2>1. ASSUME NEW s \in Session
        PROVE  /\ session'[s] \in SessionRow \cup {null}
               /\ session'[s] # null <=> session[s] # null
               /\ session'[s] # null => /\ session'[s].challenge = session[s].challenge
                                        /\ session'[s].nonce = session[s].nonce
    <3>1. CASE session[s] # null /\ session[s].key = k
      <4>1. session'[s] = [session[s] EXCEPT !.revoked = TRUE]
        BY <3>1 DEF RevokeMember
      <4>2. session[s] \in SessionRow
        BY <3>1 DEF TypeOK
      <4>3. null \notin SessionRow
        BY NullAssumption
      <4> QED
        BY <3>1, <4>1, <4>2, <4>3, RevokedRow
    <3>2. CASE ~(session[s] # null /\ session[s].key = k)
      <4>1. session'[s] = session[s]
        BY <3>2 DEF RevokeMember
      <4> QED
        BY <4>1 DEF TypeOK
    <3> QED
      BY <3>1, <3>2
  <2>2. session' = [s \in Session |-> session'[s]]
    BY DEF RevokeMember
  <2> QED
    BY <2>1, <2>2
<1>7. \A g \in Handler : request'[g] = IF g = h THEN null ELSE request[g]
  BY <1>2 DEF TypeOK
<1>8. null \notin LogoutRequest \cup JoinRequest \cup ApproveRequest
  BY NullAssumption DEF Request
<1>9. TypeOK'
  BY <1>2, <1>4, <1>5, <1>6 DEF TypeOK
<1>10. ReadRowsStay'
  BY <1>2, <1>6, <1>7, <1>8 DEF ReadRowsStay, LogoutRequest
<1>11. SessionInv'
  BY <1>2, <1>6, <1>7, RevokedSessionsKeep
<1>12. InviteInv'
  BY <1>2, <1>7, <1>8, InviteFrame
<1>13. UNCHANGED <<Members, Approved>>
  BY <1>2, <1>3 DEF Members, Approved
<1>14. ApprovalsAdmitOne'
  BY <1>2, <1>13 DEF MemberInv, ApprovalsAdmitOne
<1>15. MembersHoldCredentials'
  <2>1. ASSUME NEW l \in Key
        PROVE  /\ (member'[l] = "none") <=> (credential'[l] = null)
               /\ (member'[l] = "active") => ~credential'[l].revoked
               /\ (member'[l] = "revoked") => credential'[l].revoked
    BY <1>1, <1>3, <1>5 DEF MemberInv, MembersHoldCredentials
  <2>2. ASSUME NEW l \in Key, NEW m \in Key, l # m,
               credential'[l] # null, credential'[m] # null
        PROVE  credential'[l].serial # credential'[m].serial
    BY <1>5, <2>2 DEF MemberInv, MembersHoldCredentials
  <2> QED
    BY <2>1, <2>2 DEF MembersHoldCredentials
<1> QED
  BY <1>9, <1>10, <1>11, <1>12, <1>14, <1>15 DEF MemberInv

-----------------------------------------------------------------------------
(***************************************************************************)
(* An empty database satisfies the invariant, and every step keeps it.     *)
(***************************************************************************)
LEMMA InitEstablishes == Init => IInv
<1> SUFFICES ASSUME Init PROVE IInv
  OBVIOUS
<1> USE DEF Init
<1>1. null \notin LoginRequest \cup LogoutRequest \cup JoinRequest \cup ApproveRequest
  BY NullAssumption DEF Request
<1>2. TypeOK
  BY LifeAssumption DEF TypeOK
<1>3. ReadRowsStay
  BY <1>1 DEF ReadRowsStay
<1>4. SessionInv
  BY <1>1 DEF SessionInv, SessionsSpendTokens, ClaimedChallengesAreExclusive,
              SessionsDiffer, Storing
<1>5. InviteInv
  BY <1>1 DEF InviteInv, ClaimedInvitesAreExclusive
<1>6. Members = {} /\ Approved = {}
  BY DEF Members, Approved
<1>7. ApprovalsAdmitOne
  BY <1>6, FS_EmptySet DEF ApprovalsAdmitOne
<1>8. MembersHoldCredentials
  BY DEF MembersHoldCredentials
<1> QED
  BY <1>2, <1>3, <1>4, <1>5, <1>7, <1>8 DEF IInv, MemberInv

LEMMA StutterKeeps ==
  ASSUME IInv, UNCHANGED vars
  PROVE  IInv'
<1> USE DEF IInv, vars, rows
<1>1. TypeOK'
  BY DEF TypeOK
<1>2. ReadRowsStay'
  BY DEF ReadRowsStay
<1>3. SessionInv'
  BY SessionFrame
<1>4. InviteInv'
  BY InviteFrame
<1>5. MemberInv'
  BY MemberFrame
<1> QED
  BY <1>1, <1>2, <1>3, <1>4, <1>5

LEMMA NextKeeps == IInv /\ [Next]_vars => IInv'
<1> SUFFICES ASSUME IInv, [Next]_vars PROVE IInv'
  OBVIOUS
<1>1. CASE Tick
  BY <1>1, TickKeeps
<1>2. CASE CreateCommunity
  BY <1>2, CreateCommunityKeeps
<1>3. ASSUME NEW c \in Challenge, CreateChallenge(c) PROVE IInv'
  BY <1>3, CreateChallengeKeeps
<1>4. ASSUME NEW h \in Handler, Handle(h) PROVE IInv'
  <2>1. CASE \/ BeginLogin(h) \/ BeginLogout(h) \/ BeginInvite(h) \/ BeginRevoke(h)
             \/ SelectPending(h)
    BY <2>1, ReadsKeep
  <2>2. CASE SelectMember(h)
    BY <2>2, SelectMemberKeeps
  <2>3. CASE ClaimChallenge(h)
    BY <2>3, ClaimChallengeKeeps
  <2>4. CASE InsertSession(h)
    BY <2>4, InsertSessionKeeps
  <2>5. CASE NonceConflict(h) \/ ApprovalConflict(h) \/ Abandon(h)
    BY <2>5, EndsKeep
  <2>6. CASE RevokeSession(h)
    BY <2>6, RevokeSessionKeeps
  <2>7. CASE InsertInvite(h)
    BY <2>7, InsertInviteKeeps
  <2>8. CASE ClaimInvite(h)
    BY <2>8, ClaimInviteKeeps
  <2>9. CASE InsertJoinRequest(h)
    BY <2>9, InsertJoinRequestKeeps
  <2>10. CASE ApproveJoin(h)
    BY <2>10, ApproveJoinKeeps
  <2>11. CASE RevokeMember(h)
    BY <2>11, RevokeMemberKeeps
  <2> QED
    BY <1>4, <2>1, <2>2, <2>3, <2>4, <2>5, <2>6, <2>7, <2>8, <2>9, <2>10, <2>11
    DEF Handle
<1>5. CASE UNCHANGED vars
  BY <1>5, StutterKeeps
<1> QED
  BY <1>1, <1>2, <1>3, <1>4, <1>5 DEF Next

(***************************************************************************)
(* A new row of members is for a key without one.                          *)
(***************************************************************************)
LEMMA RevokedStays ==
  ASSUME IInv, [Next]_vars, NEW k \in Key, member[k] = "revoked"
  PROVE  member'[k] = "revoked"
<1>1. CASE UNCHANGED member
  BY <1>1
<1>2. CASE CreateCommunity
  BY <1>2 DEF CreateCommunity
<1>3. ASSUME NEW h \in Handler, ApproveJoin(h) PROVE member'[k] = "revoked"
  <2> DEFINE l == join[request[h].join].key
  <2>1. member[l] = "none"
    BY <1>3 DEF ApproveJoin, MemberConflict
  <2>2. member' = [member EXCEPT ![l] = "active"]
    BY <1>3 DEF ApproveJoin, InsertMember
  <2> QED
    BY <2>1, <2>2 DEF IInv, TypeOK
<1>4. ASSUME NEW h \in Handler, RevokeMember(h) PROVE member'[k] = "revoked"
  BY <1>4 DEF RevokeMember, IInv, TypeOK
<1>5. ASSUME NEW h \in Handler, Handle(h), ~ApproveJoin(h), ~RevokeMember(h)
      PROVE  UNCHANGED member
  BY <1>5 DEF Handle, BeginLogin, SelectMember, ClaimChallenge, InsertSession,
     NonceConflict, BeginLogout, RevokeSession, BeginInvite, InsertInvite,
     ClaimInvite, InsertJoinRequest, SelectPending, ApprovalConflict, BeginRevoke,
     Abandon, rows
<1> QED
  BY <1>1, <1>2, <1>3, <1>4, <1>5 DEF Next, Tick, CreateChallenge, vars, rows

-----------------------------------------------------------------------------
(***************************************************************************)
(* The invariant holds in every state of the system.                       *)
(***************************************************************************)
LEMMA Invariance == Spec => []IInv
BY InitEstablishes, NextKeeps, PTL DEF Spec

(***************************************************************************)
(* Rows and what handlers have read keep their shape.                      *)
(***************************************************************************)
THEOREM TypesHold == Spec => []TypeOK
<1>1. IInv => TypeOK
  BY DEF IInv
<1> QED
  BY <1>1, Invariance, PTL

(***************************************************************************)
(* A challenge and a nonce make one session at most, and an invite admits  *)
(* one member at most: the claims of handlers that have read the same open *)
(* row exclude each other, whatever the database stores in between.        *)
(***************************************************************************)
THEOREM TokensAreSpentOnce == Spec => []TokensWorkOnce
<1>1. ASSUME IInv PROVE TokensWorkOnce
  <2>1. OneSessionPerChallenge
    BY <1>1 DEF IInv, SessionInv, SessionsDiffer, OneSessionPerChallenge, Sessions
  <2>2. Joins("approved") = Approved
    BY DEF Joins, Approved
  <2>3. \A j, k \in Joins("pending") \cup Joins("approved") :
          j # k => join[j].invite # join[k].invite
    BY <1>1 DEF IInv, InviteInv, ClaimedInvitesAreExclusive, Joins
  <2>4. /\ \A j, k \in Approved : j # k => join[j].key # join[k].key
        /\ \A j \in Approved : member[join[j].key] # "none"
        /\ Cardinality({k \in Key : member[k] # "none"}) <= Cardinality(Approved) + 1
    BY <1>1 DEF IInv, MemberInv, ApprovalsAdmitOne, Members
  <2> QED
    BY <2>1, <2>2, <2>3, <2>4 DEF TokensWorkOnce, InvitesAdmitOne
<1> QED
  BY <1>1, Invariance, PTL

(***************************************************************************)
(* Every membership has a credential of a serial of its own, which is      *)
(* revoked exactly when the membership is.                                 *)
(***************************************************************************)
THEOREM CredentialsFollowMemberships == Spec => []MembersHoldCredentials
<1>1. IInv => MembersHoldCredentials
  BY DEF IInv, MemberInv
<1> QED
  BY <1>1, Invariance, PTL

(***************************************************************************)
(* No step, of any handler, makes a revoked member active again.           *)
(***************************************************************************)
THEOREM RevokedForever == Spec => RevocationIsFinal
<1>1. IInv /\ [Next]_vars
        => [\A k \in Key : member[k] = "revoked" => member'[k] = "revoked"]_vars
  BY RevokedStays
<1> QED
  BY <1>1, Invariance, PTL DEF Spec, RevocationIsFinal
=============================================================================
