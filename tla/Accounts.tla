------------------------------ MODULE Accounts ------------------------------
(***************************************************************************)
(* AuthService and UserService with their repositories: accounts and their *)
(* one-time passwords.  A phone number is verified by two commits, first   *)
(* the code is consumed and then the user marked.  Passwords, tokens and   *)
(* roles are left out, and an identity (e-mail, phone, student id) is one  *)
(* value; the notice a request queues is a Notify of Notifications.        *)
(***************************************************************************)
EXTENDS Integers, Sequences, FiniteSets

CONSTANTS
  Sessions,    \* the server's workers, one request each
  Identities,
  MaxUsers,    \* bound: rows of users
  MaxCodes     \* bound: rows of one_time_passwords

VARIABLES
  users,        \* the users table, in the order of the inserts
  codes,        \* the one_time_passwords table, in the order of created_at
  session,      \* the request each worker is busy with
  accepted,     \* history: how many requests each code was accepted from
  interrupted   \* history: users whose verification was cut off half-way

vars == <<users, codes, session, accepted, interrupted>>
-----------------------------------------------------------------------------
Users == [identity : Identities, is_verified : BOOLEAN, is_active : BOOLEAN]

UserIds == 1 .. MaxUsers
CodeIds == 1 .. MaxCodes

Codes == [user : UserIds, consumed : BOOLEAN, expired : BOOLEAN]

Idle == [step |-> "idle"]

Requests ==
  {Idle} \cup [step : {"registering"}, identity : Identities]
         \cup [step : {"updating"}, user : UserIds, loaded : Users, new : Users]
         \cup [step : {"requesting", "verifying", "marking"}, user : UserIds]
         \cup [step : {"consuming"}, user : UserIds, code : CodeIds]

TypeOK ==
  /\ users \in Seq(Users) /\ Len(users) <= MaxUsers
  /\ codes \in Seq(Codes) /\ Len(codes) <= MaxCodes
  /\ session \in [Sessions -> Requests]
  /\ accepted \in [CodeIds -> Nat]
  /\ interrupted \subseteq UserIds

Init ==
  /\ users = << >>
  /\ codes = << >>
  /\ session = [s \in Sessions |-> Idle]
  /\ accepted = [c \in CodeIds |-> 0]
  /\ interrupted = {}
-----------------------------------------------------------------------------
Become(s, request) == session' = [session EXCEPT ![s] = request]

\* The unique columns of users, and find_by_identity: a deactivated account
\* keeps its identity.
IdentityFree(identity, except) ==
  \A u \in DOMAIN users \ except : users[u].identity # identity

IsActive(u) == u \in DOMAIN users /\ users[u].is_active

\* The unit of work writes the attributes that were changed, over the row as it
\* is by now.
Written(row, loaded, new) ==
  [a \in DOMAIN row |-> IF loaded[a] = new[a] THEN row[a] ELSE new[a]]
-----------------------------------------------------------------------------
\* register and register_user
RegisterCheck(s, identity) ==
  /\ session[s] = Idle
  /\ IdentityFree(identity, {})
  /\ Become(s, [step |-> "registering", identity |-> identity])
  /\ UNCHANGED <<users, codes, accepted, interrupted>>

NewUser(identity) == [identity |-> identity, is_verified |-> FALSE, is_active |-> TRUE]

RegisterCommit(s) ==
  /\ session[s].step = "registering"
  /\ \/ /\ IdentityFree(session[s].identity, {})
        /\ Len(users) < MaxUsers
        /\ users' = Append(users, NewUser(session[s].identity))
     \/ /\ ~IdentityFree(session[s].identity, {})
        /\ UNCHANGED users
  /\ Become(s, Idle)
  /\ UNCHANGED <<codes, accepted, interrupted>>

\* update_user by the user, and deactivate_user by an admin: the user is read as
\* active, and an identity that changes is looked up.
ChangeLoad(s, u, new) ==
  /\ session[s] = Idle
  /\ IsActive(u)
  /\ new = [users[u] EXCEPT !.is_active = FALSE]
       \/ new = [users[u] EXCEPT !.identity = new.identity]
  /\ IdentityFree(new.identity, {u})
  /\ Become(s, [step |-> "updating", user |-> u, loaded |-> users[u], new |-> new])
  /\ UNCHANGED <<users, codes, accepted, interrupted>>

ChangeCommit(s) ==
  /\ session[s].step = "updating"
  /\ LET u == session[s].user
         row == Written(users[u], session[s].loaded, session[s].new)
     IN  \/ /\ IdentityFree(row.identity, {u})
            /\ users' = [users EXCEPT ![u] = row]
         \/ /\ ~IdentityFree(row.identity, {u})
            /\ UNCHANGED users
  /\ Become(s, Idle)
  /\ UNCHANGED <<codes, accepted, interrupted>>
-----------------------------------------------------------------------------
\* create_phone_verification_otp
RequestCode(s, u) ==
  /\ session[s] = Idle
  /\ IsActive(u)
  /\ Become(s, [step |-> "requesting", user |-> u])
  /\ UNCHANGED <<users, codes, accepted, interrupted>>

RequestCommit(s) ==
  /\ session[s].step = "requesting"
  /\ Len(codes) < MaxCodes
  /\ codes' = Append(codes, [user |-> session[s].user, consumed |-> FALSE, expired |-> FALSE])
  /\ Become(s, Idle)
  /\ UNCHANGED <<users, accepted, interrupted>>

\* Mutation: a code that was consumed is looked up like any other.
OpenCodesUsedToo(u) == {c \in DOMAIN codes : codes[c].user = u}

OpenCodes(u) == {c \in DOMAIN codes : codes[c].user = u /\ ~codes[c].consumed}

\* get_latest_open_otp
IsLatestOpen(c, u) == c \in OpenCodes(u) /\ \A d \in OpenCodes(u) : d <= c

\* verify_phone_otp: the user, the latest open code (the others are of no use any
\* more), which must not be expired and be the one that was sent; consume_otp;
\* mark_user_verified.
VerifyUser(s, u) ==
  /\ session[s] = Idle
  /\ IsActive(u)
  /\ Become(s, [step |-> "verifying", user |-> u])
  /\ UNCHANGED <<users, codes, accepted, interrupted>>

VerifyCode(s, c) ==
  /\ session[s].step = "verifying"
  /\ IsLatestOpen(c, session[s].user)
  /\ ~codes[c].expired
  /\ Become(s, [step |-> "consuming", user |-> session[s].user, code |-> c])
  /\ UNCHANGED <<users, codes, accepted, interrupted>>

\* Mutation: the user is marked without consuming the code.
ConsumedNever(row) == row

Consumed(row) == [row EXCEPT !.consumed = TRUE]

Consume(s) ==
  /\ session[s].step = "consuming"
  /\ codes' = [codes EXCEPT ![session[s].code] = Consumed(@)]
  /\ accepted' = [accepted EXCEPT ![session[s].code] = @ + 1]
  /\ Become(s, [step |-> "marking", user |-> session[s].user])
  /\ UNCHANGED <<users, interrupted>>

MarkVerified(s) ==
  /\ session[s].step = "marking"
  /\ users' = [users EXCEPT ![session[s].user].is_verified = TRUE]
  /\ Become(s, Idle)
  /\ UNCHANGED <<codes, accepted, interrupted>>

\* OTP_TTL_MINUTES are over.
Expire(c) ==
  /\ c \in DOMAIN codes
  /\ ~codes[c].expired
  /\ codes' = [codes EXCEPT ![c].expired = TRUE]
  /\ UNCHANGED <<users, session, accepted, interrupted>>

\* The request is refused, or cut off.
Die(s) ==
  /\ session[s] # Idle
  /\ interrupted' = IF session[s].step = "marking"
                    THEN interrupted \cup {session[s].user} ELSE interrupted
  /\ Become(s, Idle)
  /\ UNCHANGED <<users, codes, accepted>>

Next ==
  \/ \E s \in Sessions :
       \/ \E identity \in Identities : RegisterCheck(s, identity)
       \/ RegisterCommit(s)
       \/ \E u \in UserIds, new \in Users : ChangeLoad(s, u, new)
       \/ ChangeCommit(s)
       \/ \E u \in UserIds : RequestCode(s, u) \/ VerifyUser(s, u)
       \/ RequestCommit(s)
       \/ \E c \in CodeIds : VerifyCode(s, c)
       \/ Consume(s) \/ MarkVerified(s)
       \/ Die(s)
  \/ \E c \in CodeIds : Expire(c)

Spec == Init /\ [][Next]_vars
-----------------------------------------------------------------------------
\* A user is verified only by a code of their own that is used up, and a code is
\* used up without its user being verified only while a request is between the
\* two commits or was cut off there.  Updates and deactivations that had read
\* the user before do not undo a verification.
VerificationIsWhole ==
  \A u \in DOMAIN users :
    LET used == \E c \in DOMAIN codes : codes[c].user = u /\ codes[c].consumed
        marking == \E s \in Sessions : session[s].step = "marking" /\ session[s].user = u
    IN  /\ users[u].is_verified => used
        /\ used => users[u].is_verified \/ marking \/ u \in interrupted

\* A code is not single-use, but bounded: the requests that looked it up before it
\* was consumed are all accepted, one for each worker at most, and none later.
CodeAcceptedOncePerWorker ==
  \A c \in CodeIds : accepted[c] <= Cardinality(Sessions)

\* A deactivated account is not reactivated by an update that read it before.
DeactivatedIsForever ==
  [][\A u \in DOMAIN users : ~users[u].is_active => ~users'[u].is_active]_vars
=============================================================================
