----------------------------- MODULE Membership -----------------------------
(***************************************************************************)
(* Who belongs to a community, and who is logged in: the coordinator's     *)
(* challenges, sessions, invites, join requests, approvals and             *)
(* revocations.  A handler checks in one round trip to the database and    *)
(* stores in a later one; other handlers run in between, and the worker    *)
(* may stop it at any of them.                                             *)
(*                                                                         *)
(* One community: the primary key of members is the hash of a public key,  *)
(* so that a key is a member of one community only.  A member's key is     *)
(* taken as its id.  Signatures are perfect: a client logs in with a key   *)
(* it has, and the root key signs every credential an approval presents.   *)
(***************************************************************************)
EXTENDS Naturals, FiniteSets

CONSTANTS Key, Serial, Challenge, Nonce, Session, Invite, Join, Handler, null,
          ChallengeLife, SessionLife, InviteLife, \* 5 min, 15 min, a day
          CredentialLife, \* a year, the longest a credential may be issued for
          MaxTime         \* bound: the clock stops here

\* The rows of the tables, and what a handler has read.
CredentialRow == [serial : Serial, expires : Nat, revoked : BOOLEAN]
ChallengeRow  == [expires : Nat, consumed : BOOLEAN]
SessionRow    == [key : Key, expires : Nat, revoked : BOOLEAN,
                  challenge : Challenge, nonce : Nonce]
InviteRow     == [expires : Nat, consumed : BOOLEAN]
JoinRow       == [key : Key, status : {"pending", "approved"}, invite : Invite]

LoginRequest   == [op : {"login"}, step : {"member", "claim", "store"}, key : Key,
                   challenge : Challenge, nonce : Nonce, at : Nat]
LogoutRequest  == [op : {"logout"}, session : Session]
InviteRequest  == [op : {"invite"}]
JoinRequest    == [op : {"join"}, key : Key, invite : Invite]
ApproveRequest == [op : {"approve"}, join : Join, serial : Serial, expires : Nat,
                   roles : SUBSET {"member", "admin"}]
RevokeRequest  == [op : {"revoke"}, key : Key]
Request == LoginRequest \cup LogoutRequest \cup InviteRequest \cup JoinRequest
             \cup ApproveRequest \cup RevokeRequest

ASSUME LifeAssumption ==
  {ChallengeLife, SessionLife, InviteLife, CredentialLife, MaxTime} \subseteq Nat
ASSUME NullAssumption ==
  null \notin CredentialRow \cup ChallengeRow \cup SessionRow \cup InviteRow
               \cup JoinRow \cup Request

VARIABLES
  now,
  member,      \* members.status of a key, or "none" without a row
  admin,       \* the members whose roles include "admin"
  credential,  \* each member's row of membership_credentials, or null
  challenge,   \* rows of auth_challenges, or null
  nonces,      \* rows of replay_nonces
  session,     \* rows of sessions, or null
  invite,      \* rows of invites, or null
  join,        \* rows of join_requests, or null
  request      \* what each handler is doing and has read, or null

rows == <<member, admin, credential, challenge, nonces, session, invite, join>>
vars == <<now, rows, request>>

Init ==
  /\ now = 0
  /\ member = [k \in Key |-> "none"]
  /\ admin = {}
  /\ credential = [k \in Key |-> null]
  /\ challenge = [c \in Challenge |-> null]
  /\ nonces = {}
  /\ session = [s \in Session |-> null]
  /\ invite = [i \in Invite |-> null]
  /\ join = [j \in Join |-> null]
  /\ request = [h \in Handler |-> null]

Set(h, r) == request' = [request EXCEPT ![h] = r]
Answer(h) == Set(h, null)
Does(h, op) == request[h] # null /\ request[h].op = op

Tick ==
  /\ now < MaxTime
  /\ now' = now + 1
  /\ UNCHANGED <<rows, request>>
-----------------------------------------------------------------------------
(***************************************************************************)
(* Members.  A row is inserted with its credential, and never removed.     *)
(***************************************************************************)
Credentials == {credential[k] : k \in Key} \ {null}

SerialTaken(serial) == \E c \in Credentials : c.serial = serial

\* membership_credentials.issued_at <= at < expires_at, and not revoked.
CredentialValid(k, at) ==
  /\ credential[k] # null
  /\ ~credential[k].revoked
  /\ at < credential[k].expires

\* Mutant: the member gets the status of its join request.
InsertMemberApproved(k, roles, serial, expires) ==
  /\ member' = [member EXCEPT ![k] = "approved"]
  /\ admin' = IF "admin" \in roles THEN admin \cup {k} ELSE admin
  /\ credential' = [credential EXCEPT ![k] =
                      [serial |-> serial, expires |-> expires, revoked |-> FALSE]]

InsertMember(k, roles, serial, expires) ==
  /\ member' = [member EXCEPT ![k] = "active"]
  /\ admin' = IF "admin" \in roles THEN admin \cup {k} ELSE admin
  /\ credential' = [credential EXCEPT ![k] =
                      [serial |-> serial, expires |-> expires, revoked |-> FALSE]]

\* POST /v1/communities.  A second community of the same id is a conflict.
CreateCommunity ==
  /\ \A k \in Key : member[k] = "none"
  /\ \E k \in Key, serial \in Serial, expires \in (now + 1)..(now + CredentialLife) :
       InsertMember(k, {"member", "admin"}, serial, expires)
  /\ UNCHANGED <<now, challenge, nonces, session, invite, join, request>>
-----------------------------------------------------------------------------
(***************************************************************************)
(* POST /v1/auth/challenges and /v1/auth/sessions: four round trips.       *)
(***************************************************************************)
CreateChallenge(c) ==
  /\ challenge[c] = null
  /\ challenge' = [challenge EXCEPT ![c] =
                     [expires |-> now + ChallengeLife, consumed |-> FALSE]]
  /\ UNCHANGED <<now, member, admin, credential, nonces, session, invite, join,
                 request>>

ChallengeOpen(c, at) ==
  /\ challenge[c] # null
  /\ ~challenge[c].consumed
  /\ challenge[c].expires >= at

\* getChallenge; the signature over it, the nonce and the key is valid.
BeginLogin(h) ==
  /\ request[h] = null
  /\ \E c \in Challenge, k \in Key, n \in Nonce :
       /\ ChallengeOpen(c, now)
       /\ Set(h, [op |-> "login", step |-> "member",
                  key |-> k, challenge |-> c, nonce |-> n, at |-> now])
  /\ UNCHANGED <<now, rows>>

Logs(h, step) == Does(h, "login") /\ request[h].step = step

SelectMember(h) ==
  /\ Logs(h, "member")
  /\ LET k == request[h].key
     IN  IF member[k] = "active" /\ CredentialValid(k, now)
         THEN Set(h, [request[h] EXCEPT !.step = "claim", !.at = now])
         ELSE Answer(h)
  /\ UNCHANGED <<now, rows>>

\* UPDATE auth_challenges ... WHERE consumed_at IS NULL AND expires_at >= at.
ClaimChallenge(h) ==
  /\ Logs(h, "claim")
  /\ LET c == request[h].challenge
     IN  IF ChallengeOpen(c, request[h].at)
         THEN /\ challenge' = [challenge EXCEPT ![c].consumed = TRUE]
              /\ Set(h, [request[h] EXCEPT !.step = "store"])
         ELSE Answer(h) /\ UNCHANGED challenge
  /\ UNCHANGED <<now, member, admin, credential, nonces, session, invite, join>>

NonceTaken(n) == n \in nonces

\* One batch: the nonce and the session.
InsertSession(h) ==
  /\ Logs(h, "store")
  /\ ~NonceTaken(request[h].nonce)
  /\ nonces' = nonces \cup {request[h].nonce}
  /\ \E s \in Session :
       /\ session[s] = null
       /\ session' = [session EXCEPT ![s] =
            [key |-> request[h].key, expires |-> request[h].at + SessionLife,
             revoked |-> FALSE, challenge |-> request[h].challenge,
             nonce |-> request[h].nonce]]
  /\ Answer(h)
  /\ UNCHANGED <<now, member, admin, credential, challenge, invite, join>>

\* The batch fails; the challenge stays consumed.
NonceConflict(h) ==
  /\ Logs(h, "store")
  /\ NonceTaken(request[h].nonce)
  /\ Answer(h)
  /\ UNCHANGED <<now, rows>>
-----------------------------------------------------------------------------
(***************************************************************************)
(* authenticate: the middleware of every other route.  What it returns is  *)
(* not looked up again by the handler.                                     *)
(***************************************************************************)
Usable(s) ==
  /\ session[s] # null
  /\ ~session[s].revoked /\ session[s].expires >= now
  /\ member[session[s].key] = "active"
  /\ CredentialValid(session[s].key, now)

Authenticated(k) == \E s \in Session : Usable(s) /\ session[s].key = k

\* DELETE /v1/auth/sessions/current.
BeginLogout(h) ==
  /\ request[h] = null
  /\ \E s \in Session : Usable(s) /\ Set(h, [op |-> "logout", session |-> s])
  /\ UNCHANGED <<now, rows>>

RevokeSession(h) ==
  /\ Does(h, "logout")
  /\ session' = [session EXCEPT ![request[h].session].revoked = TRUE]
  /\ Answer(h)
  /\ UNCHANGED <<now, member, admin, credential, challenge, nonces, invite, join>>
-----------------------------------------------------------------------------
(***************************************************************************)
(* Invites and join requests.                                              *)
(***************************************************************************)
BeginInvite(h) ==
  /\ request[h] = null
  /\ \E k \in admin : Authenticated(k)
  /\ Set(h, [op |-> "invite"])
  /\ UNCHANGED <<now, rows>>

InsertInvite(h) ==
  /\ Does(h, "invite")
  /\ \E i \in Invite :
       /\ invite[i] = null
       /\ invite' = [invite EXCEPT ![i] =
                       [expires |-> now + InviteLife, consumed |-> FALSE]]
  /\ Answer(h)
  /\ UNCHANGED <<now, member, admin, credential, challenge, nonces, session, join>>

\* Mutant: claims an invite that somebody else has claimed.
InviteExists(i) == invite[i] # null /\ invite[i].expires >= now

InviteOpen(i) ==
  /\ invite[i] # null
  /\ ~invite[i].consumed
  /\ invite[i].expires >= now

\* UPDATE invites SET consumed_at = ? WHERE ... consumed_at IS NULL.
ClaimInvite(h) ==
  /\ request[h] = null
  /\ \E i \in Invite, k \in Key :
       /\ InviteOpen(i)
       /\ invite' = [invite EXCEPT ![i].consumed = TRUE]
       /\ Set(h, [op |-> "join", key |-> k, invite |-> i])
  /\ UNCHANGED <<now, member, admin, credential, challenge, nonces, session, join>>

InsertJoinRequest(h) ==
  /\ Does(h, "join")
  /\ \E j \in Join :
       /\ join[j] = null
       /\ join' = [join EXCEPT ![j] = [key |-> request[h].key, status |-> "pending",
                                       invite |-> request[h].invite]]
  /\ Answer(h)
  /\ UNCHANGED <<now, member, admin, credential, challenge, nonces, session, invite>>
-----------------------------------------------------------------------------
(***************************************************************************)
(* Approvals and revocations, by an admin.                                 *)
(***************************************************************************)
\* The request is pending, and the credential it presents is the root's.
SelectPending(h) ==
  /\ request[h] = null
  /\ \E k \in admin : Authenticated(k)
  /\ \E j \in Join, serial \in Serial, expires \in (now + 1)..(now + CredentialLife),
        roles \in {{"member"}, {"member", "admin"}} :
       /\ join[j] # null
       /\ join[j].status = "pending"
       /\ Set(h, [op |-> "approve", join |-> j, serial |-> serial,
                  expires |-> expires, roles |-> roles])
  /\ UNCHANGED <<now, rows>>

\* Mutant: INSERT OR REPLACE INTO members.
SerialConflict(k, serial) == SerialTaken(serial)

\* The primary keys of members and of membership_credentials.
MemberConflict(k, serial) == member[k] # "none" \/ SerialTaken(serial)

\* One batch: the member, its credential, the request, its first credit.
ApproveJoin(h) ==
  /\ Does(h, "approve")
  /\ LET j == request[h].join
     IN  /\ ~MemberConflict(join[j].key, request[h].serial)
         /\ InsertMember(join[j].key, request[h].roles, request[h].serial,
                         request[h].expires)
         /\ join' = [join EXCEPT ![j].status = "approved"]
  /\ Answer(h)
  /\ UNCHANGED <<now, challenge, nonces, session, invite>>

ApprovalConflict(h) ==
  /\ Does(h, "approve")
  /\ MemberConflict(join[request[h].join].key, request[h].serial)
  /\ Answer(h)
  /\ UNCHANGED <<now, rows>>

BeginRevoke(h) ==
  /\ request[h] = null
  /\ \E k \in admin : Authenticated(k)
  /\ \E k \in Key : Set(h, [op |-> "revoke", key |-> k])
  /\ UNCHANGED <<now, rows>>

\* Mutant: forgets the member's credential.
RevokeNoCredential(k) == UNCHANGED credential

RevokeCredential(k) ==
  credential' = IF credential[k] = null THEN credential
                ELSE [credential EXCEPT ![k].revoked = TRUE]

\* One batch of three UPDATEs, which may find no row.
RevokeMember(h) ==
  /\ Does(h, "revoke")
  /\ LET k == request[h].key
     IN  /\ member' = [member EXCEPT ![k] = IF @ = "none" THEN @ ELSE "revoked"]
         /\ RevokeCredential(k)
         /\ session' = [s \in Session |->
              IF session[s] # null /\ session[s].key = k
              THEN [session[s] EXCEPT !.revoked = TRUE] ELSE session[s]]
  /\ Answer(h)
  /\ UNCHANGED <<now, admin, challenge, nonces, invite, join>>

\* A statement fails, or the worker is stopped: what was stored stays.
Abandon(h) ==
  /\ request[h] # null
  /\ Answer(h)
  /\ UNCHANGED <<now, rows>>
-----------------------------------------------------------------------------
Handle(h) ==
  \/ BeginLogin(h) \/ SelectMember(h) \/ ClaimChallenge(h)
  \/ InsertSession(h) \/ NonceConflict(h)
  \/ BeginLogout(h) \/ RevokeSession(h)
  \/ BeginInvite(h) \/ InsertInvite(h) \/ ClaimInvite(h) \/ InsertJoinRequest(h)
  \/ SelectPending(h) \/ ApproveJoin(h) \/ ApprovalConflict(h)
  \/ BeginRevoke(h) \/ RevokeMember(h)
  \/ Abandon(h)

Next ==
  \/ Tick
  \/ CreateCommunity
  \/ \E c \in Challenge : CreateChallenge(c)
  \/ \E h \in Handler : Handle(h)

Spec == Init /\ [][Next]_vars
-----------------------------------------------------------------------------
(***************************************************************************)
(* Rows and what handlers have read keep their shape.                      *)
(***************************************************************************)
TypeOK ==
  /\ now \in 0..MaxTime
  /\ member \in [Key -> {"none", "active", "revoked"}]
  /\ admin \subseteq Key
  /\ credential \in [Key -> CredentialRow \cup {null}]
  /\ challenge \in [Challenge -> ChallengeRow \cup {null}]
  /\ nonces \subseteq Nonce
  /\ session \in [Session -> SessionRow \cup {null}]
  /\ invite \in [Invite -> InviteRow \cup {null}]
  /\ join \in [Join -> JoinRow \cup {null}]
  /\ request \in [Handler -> Request \cup {null}]

Sessions == {s \in Session : session[s] # null}

(***************************************************************************)
(* A challenge, and a replay nonce, makes one session at most, although    *)
(* any number of handlers have read the challenge before it is consumed.   *)
(***************************************************************************)
OneSessionPerChallenge ==
  \A s, t \in Sessions : s # t =>
    /\ session[s].challenge # session[t].challenge
    /\ session[s].nonce # session[t].nonce

Joins(status) == {j \in Join : join[j] # null /\ join[j].status = status}

(***************************************************************************)
(* An invite admits at most one: join requests have claimed invites of     *)
(* their own, and every member but the founder joined by exactly one       *)
(* approved request, whatever approvals of a key interleave.               *)
(***************************************************************************)
InvitesAdmitOne ==
  /\ \A j, k \in Joins("pending") \cup Joins("approved") :
       j # k => join[j].invite # join[k].invite
  /\ \A j, k \in Joins("approved") : j # k => join[j].key # join[k].key
  /\ \A j \in Joins("approved") : member[join[j].key] # "none"
  /\ Cardinality({k \in Key : member[k] # "none"})
       <= Cardinality(Joins("approved")) + 1

(***************************************************************************)
(* What is to be used once is used once: challenges and nonces, although   *)
(* any number of handlers read them as open, and invites, although their   *)
(* claim and the join request are separate statements.                     *)
(***************************************************************************)
TokensWorkOnce == OneSessionPerChallenge /\ InvitesAdmitOne

(***************************************************************************)
(* Revocation is final: an approval of the member's key that was checked   *)
(* before, of the same join request or of another, does not readmit it.    *)
(***************************************************************************)
RevocationIsFinal ==
  [][\A k \in Key : member[k] = "revoked" => member'[k] = "revoked"]_vars

(***************************************************************************)
(* Memberships and credentials agree: a member has a credential, of a      *)
(* serial of its own, which is revoked when the membership is.             *)
(***************************************************************************)
MembersHoldCredentials ==
  /\ \A k \in Key :
       /\ (member[k] = "none") <=> (credential[k] = null)
       /\ (member[k] = "active") => ~credential[k].revoked
       /\ (member[k] = "revoked") => credential[k].revoked
  /\ \A k, l \in Key :
       k # l /\ null \notin {credential[k], credential[l]} =>
         credential[k].serial # credential[l].serial
=============================================================================
