------------------------------ MODULE Challenge ------------------------------
(***************************************************************************)
(* Registration and login (src/src/server.cpp, "认证"): HELLO, CHALLENGE,  *)
(* REGISTER, LOGIN, AUTH and the token book.                               *)
(*                                                                         *)
(* A challenge belongs to one connection and only its thread touches it.   *)
(* The threads share the users table, the token book and online_.  Random  *)
(* strings are numbers never used before; hashes are terms: PBKDF2, HMAC   *)
(* and the pepper's mask lose nothing, and nobody can build one without    *)
(* its arguments.  Clients answer challenges that were sent, with any      *)
(* password, in any frame, on any connection, at any time and as often as  *)
(* they like.  A refusal that changes nothing (E1001 and E1002 for a       *)
(* HELLO, E1005, E1008 for a HELLO, E4001 of the limiter) is no step; a    *)
(* malformed REGISTER or LOGIN (E1008) is one whose proof is wrong.        *)
(***************************************************************************)
EXTENDS Integers, Sequences, FiniteSets

CONSTANTS
  Conns, Users, Passwords,
  ChalTtl,      \* kChallengeTtlMs
  TokenTtl,     \* cfg_.token_ttl
  GcSize,       \* 100000: above it issue collects expired tokens
  OldUsers, OldPassword,   \* the users an earlier run of the server registered
  DbFaults,     \* statements on the users table that may fail
  MaxTime, MaxFresh, MaxRestarts   \* bounds of the model

ASSUME ChallengeAssumption ==
  /\ {ChalTtl, TokenTtl, GcSize, MaxRestarts} \subseteq Nat
  /\ {MaxTime, MaxFresh} \subseteq Nat \ {0}
  /\ DbFaults \subseteq {"hello", "login", "insert"}
  /\ OldUsers \subseteq Users /\ OldPassword \in Passwords

NoUser == "none"
NoRow == [salt |-> 0, stored |-> <<>>]
NoChal == [active |-> FALSE, register |-> FALSE, user |-> NoUser, salt |-> 0,
           nonce |-> 0, exp |-> 0]

VARIABLES
  clock,      \* now_ms(), now_ts()
  chal,       \* c->chal
  user,       \* c->username of an authenticated connection, or NoUser
  creating,   \* doRegister between the proof and create_user: the row
  users,      \* the users table
  tokens,     \* tokens_
  fresh,      \* random strings drawn so far
  issued,     \* the challenges sent, which the clients can answer
  accepted,   \* history: the proofs accepted
  registered, \* history: the rows created
  denied,     \* history: what the last answer denied, if it was E1003
  restarts

vars == <<clock, chal, user, creating, users, tokens, fresh, issued,
          accepted, registered, denied, restarts>>

-----------------------------------------------------------------------------
(* pwd_hash.h                                                              *)

\* random_hex: a number never drawn before.
Draw == fresh < MaxFresh /\ fresh' = fresh + 1

\* hmac_sha256 of a message that is the parts in a row.
Hmac(key, parts) == <<key>> \o parts

\* hash_password: K = PBKDF2(password, salt), a chain of HMACs under the
\* password.
Derive(password, salt) == Hmac(password, <<salt>>)

\* challenge_proof: HMAC(K, op, user, nonce).
Proof(key, op, u, nonce) == Hmac(key, <<op, u, nonce>>)

\* apply_pepper on the way into the table ...
Blind(key, u, salt) == <<key, u, salt>>

\* ... and on the way out: the same XOR undoes the mask of the same user and
\* salt; another mask leaves what is nobody's key.
Unblind(stored, u, salt) ==
  IF stored = Blind(stored[1], u, salt) THEN stored[1] ELSE <<>>

Init ==
  /\ clock = 1
  /\ chal = [c \in Conns |-> NoChal]
  /\ user = [c \in Conns |-> NoUser]
  /\ creating = [c \in Conns |-> NoRow]
  /\ users = [u \in Users |-> IF u \in OldUsers
       THEN [salt |-> 1, stored |-> Blind(Derive(OldPassword, 1), u, 1)]
       ELSE NoRow]
  /\ tokens = {}
  /\ fresh = 1
  /\ issued = <<>>
  /\ accepted = <<>> /\ registered = OldUsers \X {OldPassword} /\ denied = <<>>
  /\ restarts = 0

-----------------------------------------------------------------------------
(* Token book                                                              *)

\* Bug: the comparison is the wrong way round.
Bug_GcTokens(book) == {t \in book : t.exp < clock}

\* gc_locked.
GcTokens(book) == {t \in book : ~(t.exp < clock)}

\* issue; expired tokens go when there are many.
Issue(u) ==
  LET book == tokens \cup {[id |-> fresh + 1, user |-> u,
                           exp |-> clock + TokenTtl]}
  IN /\ Draw
     /\ tokens' = IF Cardinality(book) > GcSize THEN GcTokens(book) ELSE book

\* Bug: an expired token is removed, and was good for one last time.
Bug_Valid(id) == {t \in tokens : t.id = id}

\* validate: the entry of a token that may be used.
Valid(id) == {t \in tokens : t.id = id /\ ~(t.exp < clock)}

-----------------------------------------------------------------------------
(* Challenges                                                              *)

\* sendChallenge: an open challenge for the same purpose is sent again.
Reusable(c, u, register) ==
  /\ chal[c].active /\ chal[c].register = register /\ chal[c].user = u
  /\ chal[c].exp > clock

\* Bug: the salt of a login challenge is drawn like that of a registration.
Bug_SendChallenge(c, u, salt, register) ==
  /\ Draw
  /\ chal' = [chal EXCEPT ![c] =
       [active |-> TRUE, register |-> register, user |-> u,
        salt |-> fresh + 1, nonce |-> fresh + 1, exp |-> clock + ChalTtl]]
  /\ issued' = Append(issued, [conn |-> c, at |-> clock, chal |-> chal'[c]])

\* sendChallenge; one number serves as a new challenge's salt and nonce.
SendChallenge(c, u, salt, register) ==
  IF Reusable(c, u, register) THEN UNCHANGED <<chal, fresh, issued>> ELSE
  /\ Draw
  /\ chal' = [chal EXCEPT ![c] =
       [active |-> TRUE, register |-> register, user |-> u,
        salt |-> IF register THEN fresh + 1 ELSE salt,
        nonce |-> fresh + 1, exp |-> clock + ChalTtl]]
  /\ issued' = Append(issued, [conn |-> c, at |-> clock, chal |-> chal'[c]])

\* Bug: a challenge stays until the next one replaces it.
Bug_Take(c) == UNCHANGED chal

\* takeChallenge: whatever comes, the challenge is used up ...
Take(c) == chal' = [chal EXCEPT ![c] = NoChal]

\* Bug: the time of the challenge is not looked at.
Bug_Fits(c, u, register) ==
  chal[c].active /\ chal[c].register = register /\ chal[c].user = u

\* ... and is valid for the frame it was made for.
Fits(c, u, register) ==
  /\ chal[c].active /\ chal[c].register = register /\ chal[c].user = u
  /\ ~(chal[c].exp < clock)

-----------------------------------------------------------------------------
(* Frames                                                                  *)

\* The connection's thread is waiting for a frame, and not authenticated.
Ready(c) == user[c] = NoUser /\ creating[c] = NoRow

\* find_user, which turns a failing statement into "not found".
Finds(u, where) ==
  {users[u] # NoRow} \cup (IF where \in DbFaults THEN {FALSE} ELSE {})

\* doRegisterHello and doLoginHello.
Hello(c, u, register) ==
  /\ Ready(c) /\ (~register) \in Finds(u, "hello")
  /\ SendChallenge(c, u, users[u].salt, register)
  /\ denied' = <<>>
  /\ UNCHANGED <<clock, user, creating, users, tokens, accepted, registered,
                 restarts>>

\* What a client's frame is made of: the n-th challenge and a password.
Key(n, password) == Derive(password, issued[n].chal.salt)
Answer(n, password, op, u) ==
  Proof(Key(n, password), op, u, issued[n].chal.nonce)

Accepts(c, u, password, op) ==
  accepted' = Append(accepted, [conn |-> c, user |-> u, op |-> op, at |-> clock,
                                password |-> password, nonce |-> chal[c].nonce])

\* doRegister up to the proof.
Register(c, u) ==
  /\ Ready(c) /\ Take(c)
  /\ \/ \E n \in DOMAIN issued, password \in Passwords :
          LET key == Key(n, password)
          IN /\ Fits(c, u, TRUE)
             /\ Answer(n, password, "REGISTER", u) =
                  Proof(key, "REGISTER", u, chal[c].nonce)
             /\ creating' = [creating EXCEPT ![c] =
                  [salt |-> chal[c].salt, user |-> u, password |-> password,
                   stored |-> Blind(key, u, chal[c].salt)]]
             /\ Accepts(c, u, password, "REGISTER")
     \/ UNCHANGED <<creating, accepted>>     \* E1009, or a wrong proof
  /\ denied' = <<>>
  /\ UNCHANGED <<clock, user, users, tokens, fresh, issued, registered, restarts>>

\* The row is in the table.
Insert(row) ==
  /\ users' = [users EXCEPT ![row.user] =
                 [salt |-> row.salt, stored |-> row.stored]]
  /\ registered' = registered \cup {<<row.user, row.password>>}

\* Bug: INSERT OR REPLACE.
Bug_CreateUser(row) == Insert(row)

\* create_user: UNIQUE decides who gets the name (E1001), if the statement
\* does not fail (E9001).
CreateUser(row) ==
  \/ users[row.user] = NoRow /\ Insert(row)
  \/ (users[row.user] # NoRow \/ "insert" \in DbFaults) /\ UNCHANGED <<users, registered>>

\* doRegister from create_user on.
RegisterEnd(c) ==
  /\ creating[c] # NoRow
  /\ CreateUser(creating[c])
  /\ creating' = [creating EXCEPT ![c] = NoRow]
  /\ UNCHANGED <<clock, chal, user, tokens, fresh, issued, accepted, denied,
                 restarts>>

\* doLogin, with the check of online_ and its update in one step (Sessions
\* has what happens between them).
Login(c, u) ==
  /\ Ready(c) /\ Take(c)
  /\ \/ \E n \in DOMAIN issued, password \in Passwords :
          LET key == Unblind(users[u].stored, u, users[u].salt)
              right == Answer(n, password, "LOGIN", u) =
                         Proof(key, "LOGIN", u, chal[c].nonce)
          IN /\ Fits(c, u, FALSE) /\ users[u] # NoRow
             /\ \/ /\ right /\ \A d \in Conns : user[d] # u
                   /\ Issue(u)
                   /\ user' = [user EXCEPT ![c] = u]
                   /\ Accepts(c, u, password, "LOGIN")
                   /\ denied' = <<>>
                \/ /\ ~right                                  \* E1003
                   /\ denied' = IF issued[n].chal.nonce = chal[c].nonce
                                THEN <<u, password>> ELSE <<>>
                   /\ UNCHANGED <<user, tokens, fresh, accepted>>
     \/ /\ \/ ~Fits(c, u, FALSE)                             \* E1009
           \/ FALSE \in Finds(u, "login")                   \* E1002
           \/ \E d \in Conns : user[d] = u                   \* E1004
        /\ denied' = <<>>
        /\ UNCHANGED <<user, tokens, fresh, accepted>>
  /\ UNCHANGED <<clock, creating, users, issued, registered, restarts>>

\* doAuth: a valid token logs its user in here and ends its other connection;
\* a new token is issued and the old one stays.  An expired one is removed.
Auth(c, id) ==
  /\ Ready(c)
  /\ IF Valid(id) = {}
     THEN /\ tokens' = {t \in tokens : t.id # id}
          /\ UNCHANGED <<chal, user, fresh>>
     ELSE \E t \in Valid(id) :
       LET old == {d \in Conns : user[d] = t.user}
       IN /\ Issue(t.user)
          /\ user' = [d \in Conns |-> IF d = c THEN t.user
                        ELSE IF d \in old THEN NoUser ELSE user[d]]
          /\ chal' = [d \in Conns |-> IF d \in old THEN NoChal ELSE chal[d]]
  /\ denied' = <<>>
  /\ UNCHANGED <<clock, creating, users, issued, accepted, registered,
                 restarts>>

\* A connection ends and another takes its place.
Reconnect(c) ==
  /\ creating[c] = NoRow
  /\ chal' = [chal EXCEPT ![c] = NoChal]
  /\ user' = [user EXCEPT ![c] = NoUser]
  /\ denied' = <<>>
  /\ UNCHANGED <<clock, creating, users, tokens, fresh, issued, accepted,
                 registered, restarts>>

Tick ==
  /\ clock < MaxTime
  /\ clock' = clock + 1
  /\ denied' = <<>>
  /\ UNCHANGED <<chal, user, creating, users, tokens, fresh, issued, accepted,
                 registered, restarts>>

\* The process dies, perhaps in the middle of a registration: only the users
\* table is left.
Restart ==
  /\ restarts < MaxRestarts
  /\ restarts' = restarts + 1
  /\ tokens' = {}
  /\ chal' = [c \in Conns |-> NoChal]
  /\ user' = [c \in Conns |-> NoUser]
  /\ creating' = [c \in Conns |-> NoRow]
  /\ denied' = <<>>
  /\ UNCHANGED <<clock, users, fresh, issued, accepted, registered>>

Next ==
  \/ \E c \in Conns, u \in Users, r \in BOOLEAN : Hello(c, u, r)
  \/ \E c \in Conns, u \in Users : Register(c, u) \/ Login(c, u)
  \/ \E c \in Conns : RegisterEnd(c) \/ Reconnect(c)
  \/ \E c \in Conns, id \in 1..fresh : Auth(c, id)
  \/ Tick \/ Restart

Spec == Init /\ [][Next]_vars

-----------------------------------------------------------------------------
(* Properties                                                              *)

\* Every variable keeps its type; a challenge that is open was sent, and a token
\* was drawn (sendChallenge, issue).
TypeOK ==
  /\ clock \in 1..MaxTime /\ fresh \in 0..MaxFresh
  /\ user \in [Conns -> Users \cup {NoUser}]
  /\ \A c \in Conns : chal[c].active =>
       \E n \in DOMAIN issued : issued[n].chal = chal[c] /\ issued[n].conn = c
  /\ \A t \in tokens : t.id \in 1..fresh /\ t.user \in Users

\* A nonce verifies one proof: a proof that was accepted opens nothing a second
\* time, here or elsewhere, before or after a restart (takeChallenge).
NonceVerifiesOnce ==
  \A i, j \in DOMAIN accepted :
    accepted[i].nonce = accepted[j].nonce => i = j

\* A proof is accepted on the connection its challenge was sent on, for the
\* user and the operation it was made for, and within its time, which sending
\* it again does not extend (sendChallenge, takeChallenge).
AcceptedAsIssued ==
  \A i \in DOMAIN accepted : \E n \in DOMAIN issued :
    LET a == accepted[i]  ch == issued[n]
    IN /\ ch.chal.nonce = a.nonce /\ ch.conn = a.conn
       /\ ch.chal.user = a.user
       /\ ch.chal.register = (a.op = "REGISTER")
       /\ a.at <= ch.at + ChalTtl

\* Whatever registrations race for a name, one of them gets it and its password
\* is the only one that ever logs in under it (create_user, doLogin).
PasswordBelongsToName ==
  /\ \A r1, r2 \in registered : r1[1] = r2[1] => r1 = r2
  /\ \A i \in DOMAIN accepted : accepted[i].op = "LOGIN" =>
       <<accepted[i].user, accepted[i].password>> \in registered

\* E1003 says "密码错误": it is never the answer to the registered password,
\* derived from the challenge that is open (salt, pepper and the row fit).
WrongPasswordMeansWrong == denied \notin registered

\* A name has one password: it is the one that opens the name, and it always
\* does when the challenge is open (doRegister, doLogin).
OnePasswordPerName == PasswordBelongsToName /\ WrongPasswordMeansWrong

\* A token dies of age and of a restart alone: no login, takeover, validation
\* or collection removes one that has time left (TokenBook).
LiveTokensStay ==
  [][\A t \in tokens : t.exp >= clock => t \in tokens' \/ restarts' # restarts]_vars

\* A connection gets into a session by an accepted login or by a token that was
\* issued to that user and has not expired (doAuth, validate).
SessionsAreEarned ==
  [][\A c \in Conns : user[c] = NoUser /\ user'[c] # NoUser =>
       \/ Len(accepted') > Len(accepted)
       \/ \E t \in tokens : t.user = user'[c] /\ t.exp >= clock]_vars

\* A token is good for its time, and for not more (TokenBook, doAuth).
TokensLiveTheirTime == LiveTokensStay /\ SessionsAreEarned
=============================================================================
