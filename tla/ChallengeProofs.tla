--------------------------- MODULE ChallengeProofs ---------------------------
(***************************************************************************)
(* Theorems about Challenge, for any number of connections, names,         *)
(* passwords and restarts, any lifetimes and any failing statements.       *)
(*                                                                         *)
(* Three invariants carry them: what an open challenge is (it was sent on  *)
(* its connection, its nonce is its own and was not used), whose password  *)
(* a row of the table holds, and which name the last E1003 was about.      *)
(***************************************************************************)
EXTENDS Challenge, TLAPS

-----------------------------------------------------------------------------
(* Hashes are terms.                                                       *)

\* Equal proofs were made of the same key and the same nonce.
LEMMA ProofIsInjective ==
  ASSUME NEW k1, NEW k2, NEW op, NEW u, NEW n1, NEW n2,
         Proof(k1, op, u, n1) = Proof(k2, op, u, n2)
  PROVE  k1 = k2 /\ n1 = n2
  <1> DEFINE S == {k1, k2, op, u, n1, n2}
  <1>1. /\ <<k1>> \in Seq(S) /\ <<op, u, n1>> \in Seq(S)
        /\ <<k2>> \in Seq(S) /\ <<op, u, n2>> \in Seq(S)
    OBVIOUS
  <1>2. /\ Proof(k1, op, u, n1)[1] = k1 /\ Proof(k1, op, u, n1)[4] = n1
        /\ Proof(k2, op, u, n2)[1] = k2 /\ Proof(k2, op, u, n2)[4] = n2
    BY <1>1 DEF Proof, Hmac
  <1> QED
    BY <1>2

\* One salt makes different keys of different passwords.
LEMMA DeriveIsInjective ==
  ASSUME NEW p, NEW q, NEW salt, Derive(p, salt) = Derive(q, salt)
  PROVE  p = q
  <1>1. <<p>> \in Seq({p, q, salt}) /\ <<q>> \in Seq({p, q, salt})
        /\ <<salt>> \in Seq({p, q, salt})
    OBVIOUS
  <1>2. Derive(p, salt)[1] = p /\ Derive(q, salt)[1] = q
    BY <1>1 DEF Derive, Hmac
  <1> QED
    BY <1>2

\* The row of a name, as create_user writes it.
Row(u, password, salt) ==
  [salt |-> salt, stored |-> Blind(Derive(password, salt), u, salt)]

\* It is no empty entry, and the pepper's mask comes off it.
LEMMA RowOpens ==
  ASSUME NEW u, NEW p, NEW s
  PROVE  /\ Row(u, p, s) # NoRow
         /\ Row(u, p, s).salt = s
         /\ Unblind(Row(u, p, s).stored, u, s) = Derive(p, s)
  <1>1. Row(u, p, s).salt = s /\ Row(u, p, s).stored = <<Derive(p, s), u, s>>
    BY DEF Row, Blind
  <1>2. NoRow.stored = <<>> /\ <<>> # <<Derive(p, s), u, s>>
    BY DEF NoRow
  <1>3. Unblind(<<Derive(p, s), u, s>>, u, s) = Derive(p, s)
    BY DEF Unblind, Blind
  <1> QED
    BY <1>1, <1>2, <1>3

-----------------------------------------------------------------------------
(* The inductive invariant.                                                *)

Challenges ==
  [active : BOOLEAN, register : BOOLEAN, user : Users \cup {NoUser}, salt : Nat,
   nonce : Nat, exp : Nat]

Types ==
  /\ clock \in 1..MaxTime /\ fresh \in 1..MaxFresh /\ restarts \in Nat
  /\ chal \in [Conns -> Challenges]
  /\ user \in [Conns -> Users \cup {NoUser}]
  /\ creating = [c \in Conns |-> creating[c]]
  /\ \A c \in Conns : creating[c] # NoRow =>
       /\ creating[c].user \in Users /\ creating[c].password \in Passwords
       /\ creating[c].salt \in Nat
  /\ users = [u \in Users |-> users[u]]
  /\ \A u \in Users : users[u].salt \in Nat
  /\ tokens \subseteq [id : 1..fresh, user : Users, exp : Nat]
  /\ issued \in Seq([conn : Conns, at : Nat, chal : Challenges])
  /\ accepted \in Seq([conn : Conns, user : Users, op : {"REGISTER", "LOGIN"},
                       at : Nat, password : Passwords, nonce : Nat])
  /\ registered \subseteq Users \X Passwords

\* What was sent is at most ChalTtl old when it expires, and no two challenges
\* have a nonce in common.
IssuedInv ==
  /\ \A n \in DOMAIN issued :
       /\ issued[n].chal.nonce <= fresh
       /\ issued[n].chal.exp = issued[n].at + ChalTtl
  /\ \A m, n \in DOMAIN issued :
       issued[m].chal.nonce = issued[n].chal.nonce => m = n

\* An open challenge was sent on its connection, and nobody has used it.
OpenInv ==
  \A c \in Conns : chal[c].active =>
    /\ \E n \in DOMAIN issued : issued[n].chal = chal[c] /\ issued[n].conn = c
    /\ \A i \in DOMAIN accepted : accepted[i].nonce # chal[c].nonce

\* What was accepted was sent.
AcceptedInv ==
  /\ \A i \in DOMAIN accepted : accepted[i].nonce <= fresh
  /\ NonceVerifiesOnce /\ AcceptedAsIssued

ChallengeInv == IssuedInv /\ OpenInv /\ AcceptedInv

\* A row about to be written fits the password that was proved, the table holds
\* what was registered, and an open login
\* challenge has the salt of its row, which never changes again.
NamesInv ==
  /\ \A c \in Conns : creating[c] # NoRow =>
       creating[c].stored = Blind(Derive(creating[c].password, creating[c].salt),
                                  creating[c].user, creating[c].salt)
  /\ \A r \in registered : users[r[1]] = Row(r[1], r[2], users[r[1]].salt)
  /\ \A u \in Users : users[u] # NoRow => \E p \in Passwords : <<u, p>> \in registered
  /\ \A c \in Conns : chal[c].active /\ ~chal[c].register =>
       /\ chal[c].user \in Users /\ users[chal[c].user] # NoRow
       /\ chal[c].salt = users[chal[c].user].salt

\* A name that was refused a password has a row already.
DeniedInv ==
  denied = <<>> \/ \E u \in Users, p \in Passwords :
    denied = <<u, p>> /\ users[u] # NoRow /\ <<u, p>> \notin registered

RowsInv == NamesInv /\ DeniedInv /\ PasswordBelongsToName

IInv == Types /\ ChallengeInv /\ RowsInv

-----------------------------------------------------------------------------
(* Type correctness.                                                       *)

LEMMA InitTypes == Init => Types
  <1> SUFFICES ASSUME Init PROVE Types
    OBVIOUS
  <1>1. /\ clock \in 1..MaxTime /\ fresh \in 1..MaxFresh /\ restarts \in Nat
        /\ chal \in [Conns -> Challenges] /\ user \in [Conns -> Users \cup {NoUser}]
    BY ChallengeAssumption DEF Init, Challenges, NoChal
  <1>2. /\ users = [u \in Users |-> users[u]]
        /\ creating = [c \in Conns |-> creating[c]]
        /\ \A c \in Conns : creating[c] = NoRow
    BY DEF Init
  <1>3. \A u \in Users : users[u].salt \in Nat
    BY DEF Init, NoRow
  <1>4. tokens = {} /\ issued = <<>> /\ accepted = <<>> /\ registered \subseteq Users \X Passwords
    BY ChallengeAssumption DEF Init
  <1> QED
    BY <1>1, <1>2, <1>3, <1>4 DEF Types

\* sendChallenge keeps the types and sends what it opens.
LEMMA SendChallengeTypes ==
  ASSUME Types, NEW c \in Conns, NEW u \in Users, NEW salt \in Nat,
         NEW register \in BOOLEAN, SendChallenge(c, u, salt, register)
  PROVE  /\ fresh' \in fresh..MaxFresh /\ chal' \in [Conns -> Challenges]
         /\ issued' \in Seq([conn : Conns, at : Nat, chal : Challenges])
  <1>1. CASE UNCHANGED <<chal, fresh, issued>>
    BY <1>1 DEF Types
  <1>2. CASE ~Reusable(c, u, register)
    <2> DEFINE new == [active |-> TRUE, register |-> register, user |-> u,
                       salt |-> IF register THEN fresh + 1 ELSE salt,
                       nonce |-> fresh + 1, exp |-> clock + ChalTtl]
    <2>1. new \in Challenges
      BY ChallengeAssumption, SMTT(60) DEF Types, Challenges
    <2>2. fresh' = fresh + 1 /\ fresh < MaxFresh /\ chal' = [chal EXCEPT ![c] = new]
          /\ issued' = Append(issued, [conn |-> c, at |-> clock, chal |-> chal'[c]])
      BY <1>2 DEF SendChallenge, Draw
    <2> HIDE DEF new
    <2>3. chal' \in [Conns -> Challenges] /\ chal'[c] = new
      BY <2>1, <2>2 DEF Types
    <2>4. [conn |-> c, at |-> clock, chal |-> chal'[c]] \in
             [conn : Conns, at : Nat, chal : Challenges]
      BY <2>1, <2>3 DEF Types
    <2> QED
      BY <2>2, <2>3, <2>4, ChallengeAssumption, SMTT(60) DEF Types
  <1> QED
    BY <1>1, <1>2 DEF SendChallenge

\* issue keeps the types.
LEMMA IssueTypes ==
  ASSUME Types, NEW u \in Users, Issue(u)
  PROVE  /\ fresh' \in fresh..MaxFresh
         /\ tokens' \subseteq [id : 1..fresh', user : Users, exp : Nat]
  <1>1. fresh' = fresh + 1 /\ fresh < MaxFresh
    BY DEF Issue, Draw
  <1>2. tokens' \subseteq tokens \cup {[id |-> fresh + 1, user |-> u, exp |-> clock + TokenTtl]}
    BY DEF Issue, GcTokens
  <1>3. [id |-> fresh + 1, user |-> u, exp |-> clock + TokenTtl] \in
           [id : 1..fresh', user : Users, exp : Nat]
    BY <1>1, ChallengeAssumption, SMTT(60) DEF Types
  <1>4. \A t \in tokens : t \in [id : 1..fresh', user : Users, exp : Nat]
    BY <1>1 DEF Types
  <1> QED
    BY <1>1, <1>2, <1>3, <1>4, ChallengeAssumption, SMTT(60) DEF Types

LEMMA AcceptsTypes ==
  ASSUME Types, NEW c \in Conns, NEW u \in Users, NEW password \in Passwords,
         NEW op \in {"REGISTER", "LOGIN"}, Accepts(c, u, password, op)
  PROVE  accepted' \in Seq([conn : Conns, user : Users, op : {"REGISTER", "LOGIN"},
                            at : Nat, password : Passwords, nonce : Nat])
  <1>1. chal[c].nonce \in Nat
    BY DEF Types, Challenges
  <1> QED
    BY <1>1 DEF Types, Accepts

LEMMA NextTypes == Types /\ [Next]_vars => Types'
  <1> SUFFICES ASSUME Types, [Next]_vars PROVE Types'
    OBVIOUS
  <1> USE ChallengeAssumption
  <1>0. NoChal \in Challenges
    BY DEF NoChal, Challenges
  <1>1. ASSUME NEW c \in Conns, NEW u \in Users, NEW r \in BOOLEAN, Hello(c, u, r)
        PROVE  Types'
    <2>1. users[u].salt \in Nat /\ SendChallenge(c, u, users[u].salt, r)
          /\ UNCHANGED <<clock, user, creating, users, tokens, accepted, registered, restarts>>
      BY <1>1 DEF Types, Hello
    <2>2. /\ fresh' \in fresh..MaxFresh /\ chal' \in [Conns -> Challenges]
          /\ issued' \in Seq([conn : Conns, at : Nat, chal : Challenges])
      BY <2>1, SendChallengeTypes
    <2>3. tokens' \subseteq [id : 1..fresh', user : Users, exp : Nat]
      BY <2>1, <2>2, SMTT(60) DEF Types
    <2> QED
      BY <2>1, <2>2, <2>3, SMTT(60) DEF Types
  <1>2. ASSUME NEW c \in Conns, NEW u \in Users, Register(c, u)
        PROVE  Types'
    <2>1. chal' \in [Conns -> Challenges] /\ chal[c].salt \in Nat
          /\ UNCHANGED <<clock, user, users, tokens, fresh, issued, registered, restarts>>
      BY <1>0, <1>2 DEF Types, Register, Take, Challenges
    <2>2. CASE UNCHANGED <<creating, accepted>>
      BY <2>1, <2>2 DEF Types
    <2>3. ASSUME NEW password \in Passwords, NEW stored,
                 creating' = [creating EXCEPT ![c] =
                   [salt |-> chal[c].salt, user |-> u, password |-> password,
                    stored |-> stored]],
                 Accepts(c, u, password, "REGISTER")
          PROVE  Types'
      <3>1. /\ creating' = [d \in Conns |-> creating'[d]]
            /\ \A d \in Conns : creating'[d] # NoRow =>
                 /\ creating'[d].user \in Users /\ creating'[d].password \in Passwords
                 /\ creating'[d].salt \in Nat
        BY <2>1, <2>3 DEF Types
      <3> QED
        BY <2>1, <2>3, <3>1, AcceptsTypes DEF Types
    <2> QED
      BY <1>2, <2>2, <2>3 DEF Register
  <1>3. ASSUME NEW c \in Conns, NEW u \in Users, Login(c, u)
        PROVE  Types'
    <2>1. chal' \in [Conns -> Challenges]
          /\ UNCHANGED <<clock, creating, users, issued, registered, restarts>>
      BY <1>0, <1>3 DEF Types, Login, Take
    <2>2. CASE UNCHANGED <<user, tokens, fresh, accepted>>
      BY <2>1, <2>2 DEF Types
    <2>3. ASSUME NEW password \in Passwords, Issue(u), user' = [user EXCEPT ![c] = u],
                 Accepts(c, u, password, "LOGIN")
          PROVE  Types'
      <3>1. /\ fresh' \in fresh..MaxFresh
            /\ tokens' \subseteq [id : 1..fresh', user : Users, exp : Nat]
        BY <2>3, IssueTypes
      <3>2. accepted' \in Seq([conn : Conns, user : Users, op : {"REGISTER", "LOGIN"},
                               at : Nat, password : Passwords, nonce : Nat])
        BY <2>3, AcceptsTypes
      <3>3. user' \in [Conns -> Users \cup {NoUser}]
        BY <2>3 DEF Types
      <3> QED
        BY <2>1, <3>1, <3>2, <3>3, SMTT(60) DEF Types
    <2> QED
      BY <1>3, <2>2, <2>3 DEF Login
  <1>4. ASSUME NEW c \in Conns, RegisterEnd(c)
        PROVE  Types'
    <2>1. /\ creating' = [d \in Conns |-> creating'[d]]
          /\ \A d \in Conns : creating'[d] # NoRow => creating'[d] = creating[d]
          /\ UNCHANGED <<clock, chal, user, tokens, fresh, issued, accepted, restarts>>
      BY <1>4 DEF Types, RegisterEnd
    <2>2. creating[c].user \in Users /\ creating[c].password \in Passwords
          /\ creating[c].salt \in Nat
      BY <1>4 DEF Types, RegisterEnd
    <2>3. /\ users' = [u \in Users |-> users'[u]]
          /\ \A u \in Users : users'[u].salt \in Nat
          /\ registered' \subseteq Users \X Passwords
      <3>1. CASE UNCHANGED <<users, registered>>
        BY <3>1 DEF Types
      <3>2. CASE Insert(creating[c])
        <4>1. /\ users' = [users EXCEPT ![creating[c].user] =
                             [salt |-> creating[c].salt, stored |-> creating[c].stored]]
              /\ registered' = registered \cup {<<creating[c].user, creating[c].password>>}
          BY <3>2 DEF Insert
        <4> DEFINE row == [salt |-> creating[c].salt, stored |-> creating[c].stored]
        <4>2. row.salt \in Nat
          BY <2>2
        <4> HIDE DEF row
        <4>3. users' = [u \in Users |-> IF u = creating[c].user THEN row ELSE users[u]]
          BY <4>1 DEF Types, row
        <4>4. registered' \subseteq Users \X Passwords
          BY <2>2, <4>1 DEF Types
        <4> QED
          BY <4>2, <4>3, <4>4 DEF Types
      <3> QED
        BY <1>4, <3>1, <3>2 DEF RegisterEnd, CreateUser
    <2> QED
      BY <2>1, <2>3 DEF Types
  <1>5. ASSUME NEW c \in Conns, NEW id \in 1..fresh, Auth(c, id)
        PROVE  Types'
    <2>1. UNCHANGED <<clock, creating, users, issued, accepted, registered, restarts>>
      BY <1>5 DEF Auth
    <2>2. CASE Valid(id) = {}
      BY <1>5, <2>1, <2>2 DEF Auth, Types
    <2>3. ASSUME NEW t \in Valid(id), NEW old, Issue(t.user),
                 user' = [d \in Conns |-> IF d = c THEN t.user
                            ELSE IF d \in old THEN NoUser ELSE user[d]],
                 chal' = [d \in Conns |-> IF d \in old THEN NoChal ELSE chal[d]]
          PROVE  Types'
      <3>1. t.user \in Users
        BY DEF Types, Valid
      <3>2. user' \in [Conns -> Users \cup {NoUser}] /\ chal' \in [Conns -> Challenges]
        BY <1>0, <2>3, <3>1 DEF Types
      <3> QED
        BY <2>1, <2>3, <3>1, <3>2, IssueTypes, SMTT(60) DEF Types
    <2> QED
      BY <1>5, <2>2, <2>3, ZenonT(60) DEF Auth
  <1>6. ASSUME NEW c \in Conns, Reconnect(c)
        PROVE  Types'
    BY <1>0, <1>6 DEF Types, Reconnect
  <1>7. CASE Tick
    BY <1>7, SMTT(60) DEF Types, Tick
  <1>8. CASE Restart
    BY <1>0, <1>8 DEF Types, Restart
  <1>9. CASE UNCHANGED vars
    BY <1>9 DEF Types, vars
  <1> QED
    BY <1>1, <1>2, <1>3, <1>4, <1>5, <1>6, <1>7, <1>8, <1>9 DEF Next

-----------------------------------------------------------------------------
(* Challenges.                                                             *)

LEMMA InitChallenges == Init => ChallengeInv
  BY DEF Init, NoChal, ChallengeInv, IssuedInv, OpenInv, AcceptedInv,
         NonceVerifiesOnce, AcceptedAsIssued

LEMMA ElementOfSeq ==
  ASSUME NEW S, NEW seq \in Seq(S), NEW n \in DOMAIN seq
  PROVE  seq[n] \in S
  OBVIOUS

\* What the types say of the numbers compared here.
LEMMA Numbers ==
  ASSUME Types
  PROVE  /\ clock \in Nat /\ fresh \in Nat
         /\ \A c \in Conns : chal[c].nonce \in Nat /\ chal[c].exp \in Nat
         /\ \A n \in DOMAIN issued :
              issued[n].chal.nonce \in Nat /\ issued[n].chal.exp \in Nat /\ issued[n].at \in Nat
         /\ \A i \in DOMAIN accepted : accepted[i].nonce \in Nat /\ accepted[i].at \in Nat
  <1>1. clock \in Nat /\ fresh \in Nat
    BY ChallengeAssumption DEF Types
  <1>2. \A x \in Challenges : x.nonce \in Nat /\ x.exp \in Nat
    BY DEF Challenges
  <1>3. \A c \in Conns : chal[c] \in Challenges
    BY DEF Types
  <1>4. \A n \in DOMAIN issued : issued[n] \in [conn : Conns, at : Nat, chal : Challenges]
    <2>1. issued \in Seq([conn : Conns, at : Nat, chal : Challenges])
      BY DEF Types
    <2> QED
      BY <2>1, ElementOfSeq, Zenon
  <1>5. \A i \in DOMAIN accepted : accepted[i] \in
          [conn : Conns, user : Users, op : {"REGISTER", "LOGIN"},
           at : Nat, password : Passwords, nonce : Nat]
    <2>1. accepted \in Seq([conn : Conns, user : Users, op : {"REGISTER", "LOGIN"},
                            at : Nat, password : Passwords, nonce : Nat])
      BY DEF Types
    <2> QED
      BY <2>1, ElementOfSeq, Zenon
  <1> QED
    BY <1>1, <1>2, <1>3, <1>4, <1>5

\* An open challenge keeps its record and what is issued and accepted grows by
\* nothing: the invariant needs no more of a step.
LEMMA QuietStep ==
  ASSUME Types, ChallengeInv, fresh' >= fresh, fresh' \in Nat,
         UNCHANGED <<issued, accepted>>,
         \A d \in Conns : chal'[d].active => chal'[d] = chal[d]
  PROVE  ChallengeInv'
  <1>1. IssuedInv'
    BY Numbers DEF ChallengeInv, IssuedInv
  <1>2. OpenInv'
    BY DEF ChallengeInv, OpenInv
  <1>3. AcceptedInv'
    BY Numbers DEF ChallengeInv, AcceptedInv, NonceVerifiesOnce, AcceptedAsIssued
  <1> QED
    BY <1>1, <1>2, <1>3 DEF ChallengeInv

\* A challenge that is sent has a nonce nobody has seen.
LEMMA SendStep ==
  ASSUME Types, ChallengeInv, NEW c \in Conns, NEW u \in Users, NEW salt \in Nat,
         NEW register \in BOOLEAN, SendChallenge(c, u, salt, register),
         UNCHANGED <<accepted, clock>>
  PROVE  ChallengeInv'
  <1>1. CASE UNCHANGED <<chal, fresh, issued>>
    BY <1>1, QuietStep DEF Types
  <1>2. CASE ~Reusable(c, u, register)
    <2> DEFINE new == [active |-> TRUE, register |-> register, user |-> u,
                       salt |-> IF register THEN fresh + 1 ELSE salt,
                       nonce |-> fresh + 1, exp |-> clock + ChalTtl]
               sent == [conn |-> c, at |-> clock, chal |-> new]
    <2>1. /\ fresh' = fresh + 1 /\ chal' = [chal EXCEPT ![c] = new]
          /\ issued' = Append(issued, [conn |-> c, at |-> clock, chal |-> chal'[c]])
      BY <1>2 DEF SendChallenge, Draw
    <2>2. new \in Challenges /\ new.nonce = fresh + 1 /\ new.exp = clock + ChalTtl
      BY ChallengeAssumption, SMTT(60) DEF Types, Challenges
    <2>3. sent.conn = c /\ sent.at = clock /\ sent.chal = new
      OBVIOUS
    <2>4. chal'[c] = new /\ \A d \in Conns \ {c} : chal'[d] = chal[d]
      BY <2>1 DEF Types
    <2>5. issued' = Append(issued, sent)
      BY <2>1, <2>4
    <2> HIDE DEF new, sent
    <2>6. /\ DOMAIN issued = 1..Len(issued) /\ DOMAIN issued' = 1..(Len(issued) + 1)
          /\ Len(issued) \in Nat
          /\ issued'[Len(issued) + 1] = sent
          /\ \A n \in DOMAIN issued : issued'[n] = issued[n]
      BY <2>5 DEF Types
    <2>7. \A n \in DOMAIN issued : issued[n].chal.nonce \in Nat /\ issued[n].chal.nonce <= fresh
      BY Numbers DEF ChallengeInv, IssuedInv
    <2>8. IssuedInv'
      <3>1. \A n \in DOMAIN issued' :
              /\ issued'[n].chal.nonce <= fresh'
              /\ issued'[n].chal.exp = issued'[n].at + ChalTtl
        BY <2>1, <2>2, <2>3, <2>6, <2>7, Numbers DEF ChallengeInv, IssuedInv
      <3>2. ASSUME NEW m \in DOMAIN issued', NEW n \in DOMAIN issued',
                   issued'[m].chal.nonce = issued'[n].chal.nonce
            PROVE  m = n
        BY <2>2, <2>3, <2>6, <2>7, <3>2, Numbers DEF ChallengeInv, IssuedInv
      <3> QED
        BY <3>1, <3>2 DEF IssuedInv
    <2>9. OpenInv'
      <3> SUFFICES ASSUME NEW d \in Conns, chal'[d].active
                   PROVE  /\ \E n \in DOMAIN issued' : issued'[n].chal = chal'[d] /\ issued'[n].conn = d
                          /\ \A i \in DOMAIN accepted : accepted[i].nonce # chal'[d].nonce
        BY DEF OpenInv
      <3>1. CASE d = c
        <4>1. \A i \in DOMAIN accepted : accepted[i].nonce \in Nat /\ accepted[i].nonce <= fresh
          BY Numbers DEF ChallengeInv, AcceptedInv
        <4>2. \A i \in DOMAIN accepted : accepted[i].nonce # fresh + 1
          BY <4>1, Numbers
        <4> QED
          BY <2>2, <2>3, <2>4, <2>6, <3>1, <4>2
      <3>2. CASE d # c
        BY <2>4, <2>6, <3>2 DEF ChallengeInv, OpenInv
      <3> QED
        BY <3>1, <3>2
    <2>10. AcceptedInv'
      <3>1. \A i \in DOMAIN accepted : accepted[i].nonce <= fresh'
        BY <2>1, Numbers DEF ChallengeInv, AcceptedInv
      <3>2. NonceVerifiesOnce'
        BY DEF ChallengeInv, AcceptedInv, NonceVerifiesOnce
      <3>3. AcceptedAsIssued'
        BY <2>6 DEF ChallengeInv, AcceptedInv, AcceptedAsIssued
      <3> QED
        BY <3>1, <3>2, <3>3 DEF AcceptedInv
    <2> QED
      BY <2>8, <2>9, <2>10 DEF ChallengeInv
  <1> QED
    BY <1>1, <1>2 DEF SendChallenge

\* Accepting a proof uses its challenge up.
LEMMA AcceptStep ==
  ASSUME Types, ChallengeInv, fresh' >= fresh, fresh' \in Nat, UNCHANGED issued,
         NEW c \in Conns, NEW u \in Users, NEW password \in Passwords,
         NEW op \in {"REGISTER", "LOGIN"}, Fits(c, u, op = "REGISTER"),
         Take(c), Accepts(c, u, password, op)
  PROVE  ChallengeInv'
  <1> DEFINE new == [conn |-> c, user |-> u, op |-> op, at |-> clock,
                     password |-> password, nonce |-> chal[c].nonce]
  <1>1. /\ new.conn = c /\ new.user = u /\ new.op = op /\ new.at = clock
        /\ new.nonce = chal[c].nonce /\ accepted' = Append(accepted, new)
    BY DEF Accepts
  <1> HIDE DEF new
  <1>2. /\ DOMAIN accepted = 1..Len(accepted) /\ DOMAIN accepted' = 1..(Len(accepted) + 1)
        /\ Len(accepted) \in Nat
        /\ accepted'[Len(accepted) + 1] = new
        /\ \A i \in DOMAIN accepted : accepted'[i] = accepted[i]
    BY <1>1, SMTT(60) DEF Types
  <1>3. ~chal'[c].active /\ \A d \in Conns \ {c} : chal'[d] = chal[d]
    BY DEF Types, Take, NoChal
  <1>4. PICK n \in DOMAIN issued : issued[n].chal = chal[c] /\ issued[n].conn = c
    BY DEF ChallengeInv, OpenInv, Fits
  <1>5. \A i \in DOMAIN accepted : accepted[i].nonce # chal[c].nonce
    BY DEF ChallengeInv, OpenInv, Fits
  <1>6. IssuedInv'
    BY Numbers DEF ChallengeInv, IssuedInv
  <1>7. OpenInv'
    <2> SUFFICES ASSUME NEW d \in Conns, chal'[d].active
                 PROVE  /\ \E m \in DOMAIN issued : issued[m].chal = chal'[d] /\ issued[m].conn = d
                        /\ \A i \in DOMAIN accepted' : accepted'[i].nonce # chal'[d].nonce
      BY DEF OpenInv
    <2>1. d # c /\ chal'[d] = chal[d]
      BY <1>3
    <2>2. PICK m \in DOMAIN issued : issued[m].chal = chal[d] /\ issued[m].conn = d
      BY <2>1 DEF ChallengeInv, OpenInv
    <2>3. chal[d].nonce # chal[c].nonce
      BY <1>4, <2>1, <2>2 DEF ChallengeInv, IssuedInv
    <2>4. \A i \in DOMAIN accepted : accepted[i].nonce # chal[d].nonce
      BY <2>1 DEF ChallengeInv, OpenInv
    <2> QED
      BY <1>1, <1>2, <2>1, <2>2, <2>3, <2>4
  <1>8. AcceptedInv'
    <2>1. chal[c].nonce <= fresh /\ chal[c].nonce \in Nat
      BY <1>4, Numbers DEF ChallengeInv, IssuedInv
    <2>2. \A i \in DOMAIN accepted' : accepted'[i].nonce <= fresh'
      BY <1>1, <1>2, <2>1, Numbers DEF ChallengeInv, AcceptedInv
    <2>3. NonceVerifiesOnce'
      BY <1>1, <1>2, <1>5 DEF ChallengeInv, AcceptedInv, NonceVerifiesOnce
    <2>4. /\ issued[n].chal.nonce = new.nonce /\ issued[n].conn = new.conn
          /\ issued[n].chal.user = new.user
          /\ issued[n].chal.register = (new.op = "REGISTER")
      BY <1>1, <1>4 DEF Fits
    <2>5. new.at <= issued[n].at + ChalTtl
      BY <1>1, <1>4, Numbers DEF ChallengeInv, IssuedInv, Fits
    <2>6. AcceptedAsIssued'
      <3> SUFFICES ASSUME NEW i \in DOMAIN accepted'
                   PROVE  \E m \in DOMAIN issued :
                     LET a == accepted'[i]  ch == issued[m]
                     IN /\ ch.chal.nonce = a.nonce /\ ch.conn = a.conn
                        /\ ch.chal.user = a.user
                        /\ ch.chal.register = (a.op = "REGISTER")
                        /\ a.at <= ch.at + ChalTtl
        BY DEF AcceptedAsIssued
      <3>1. CASE i = Len(accepted) + 1
        BY <1>2, <2>4, <2>5, <3>1
      <3>2. CASE i \in DOMAIN accepted
        BY <1>2, <3>2 DEF ChallengeInv, AcceptedInv, AcceptedAsIssued
      <3> QED
        BY <1>2, <3>1, <3>2
    <2> QED
      BY <2>2, <2>3, <2>6 DEF AcceptedInv
  <1> QED
    BY <1>6, <1>7, <1>8 DEF ChallengeInv

LEMMA NextChallenges == Types /\ ChallengeInv /\ [Next]_vars => ChallengeInv'
  <1> SUFFICES ASSUME Types, ChallengeInv, [Next]_vars PROVE ChallengeInv'
    OBVIOUS
  <1>0. fresh \in Nat /\ NoChal.active = FALSE
    BY DEF Types, NoChal
  <1>1. ASSUME NEW c \in Conns, NEW u \in Users, NEW r \in BOOLEAN, Hello(c, u, r)
        PROVE  ChallengeInv'
    BY <1>1, SendStep DEF Types, Hello
  <1>2. ASSUME NEW c \in Conns, NEW u \in Users, Register(c, u)
        PROVE  ChallengeInv'
    <2>1. Take(c) /\ UNCHANGED <<fresh, issued>>
          /\ \A d \in Conns : chal'[d].active => chal'[d] = chal[d]
      BY <1>0, <1>2 DEF Types, Register, Take
    <2>2. CASE UNCHANGED accepted
      BY <1>0, <2>1, <2>2, QuietStep
    <2>3. ASSUME NEW password \in Passwords, Fits(c, u, TRUE),
                 Accepts(c, u, password, "REGISTER")
          PROVE  ChallengeInv'
      <3>1. Fits(c, u, "REGISTER" = "REGISTER")
        BY <2>3
      <3>2. fresh' >= fresh /\ fresh' \in Nat
        BY <1>0, <2>1
      <3> QED
        BY <2>1, <2>3, <3>1, <3>2, AcceptStep
    <2> QED
      BY <1>2, <2>2, <2>3 DEF Register
  <1>3. ASSUME NEW c \in Conns, NEW u \in Users, Login(c, u)
        PROVE  ChallengeInv'
    <2>1. Take(c) /\ UNCHANGED issued
          /\ \A d \in Conns : chal'[d].active => chal'[d] = chal[d]
      BY <1>0, <1>3 DEF Types, Login, Take
    <2>2. CASE UNCHANGED <<fresh, accepted>>
      BY <1>0, <2>1, <2>2, QuietStep
    <2>3. ASSUME NEW password \in Passwords, Fits(c, u, FALSE), Issue(u),
                 Accepts(c, u, password, "LOGIN")
          PROVE  ChallengeInv'
      <3>1. fresh' >= fresh /\ fresh' \in Nat
        BY <1>0, <2>3 DEF Issue, Draw
      <3> QED
        BY <2>1, <2>3, <3>1, AcceptStep
    <2> QED
      BY <1>3, <2>2, <2>3 DEF Login
  <1>4. ASSUME NEW c \in Conns, RegisterEnd(c)
        PROVE  ChallengeInv'
    BY <1>0, <1>4, QuietStep DEF RegisterEnd
  <1>5. ASSUME NEW c \in Conns, NEW id \in 1..fresh, Auth(c, id)
        PROVE  ChallengeInv'
    <2>1. /\ fresh' >= fresh /\ fresh' \in Nat /\ UNCHANGED <<issued, accepted>>
          /\ \A d \in Conns : chal'[d].active => chal'[d] = chal[d]
      <3>1. CASE UNCHANGED <<chal, fresh>>
        BY <1>0, <1>5, <3>1 DEF Auth
      <3>2. ASSUME NEW t, NEW old, Issue(t.user),
                   chal' = [d \in Conns |-> IF d \in old THEN NoChal ELSE chal[d]]
            PROVE  /\ fresh' >= fresh /\ fresh' \in Nat
                   /\ \A d \in Conns : chal'[d].active => chal'[d] = chal[d]
        BY <1>0, <3>2 DEF Issue, Draw
      <3> QED
        BY <1>5, <3>1, <3>2 DEF Auth
    <2> QED
      BY <2>1, QuietStep
  <1>6. ASSUME NEW c \in Conns, Reconnect(c)
        PROVE  ChallengeInv'
    <2>1. /\ UNCHANGED <<issued, accepted, fresh>>
          /\ \A d \in Conns : chal'[d].active => chal'[d] = chal[d]
      BY <1>0, <1>6 DEF Types, Reconnect
    <2> QED
      BY <1>0, <2>1, QuietStep
  <1>7. CASE Tick
    BY <1>0, <1>7, QuietStep DEF Tick
  <1>8. CASE Restart
    BY <1>0, <1>8, QuietStep DEF Restart
  <1>9. CASE UNCHANGED vars
    BY <1>0, <1>9, QuietStep DEF vars
  <1> QED
    BY <1>1, <1>2, <1>3, <1>4, <1>5, <1>6, <1>7, <1>8, <1>9 DEF Next

-----------------------------------------------------------------------------
(* Names and passwords.                                                    *)

LEMMA InitRows == Init => RowsInv
  <1> SUFFICES ASSUME Init PROVE RowsInv
    OBVIOUS
  <1>1. ASSUME NEW r \in registered
        PROVE  users[r[1]] = Row(r[1], r[2], users[r[1]].salt)
    <2>1. r[1] \in OldUsers /\ r[2] = OldPassword /\ r[1] \in Users
      BY <1>1, ChallengeAssumption DEF Init
    <2>2. users[r[1]] = [salt |-> 1, stored |-> Blind(Derive(OldPassword, 1), r[1], 1)]
      BY <2>1 DEF Init
    <2> QED
      BY <2>1, <2>2 DEF Row
  <1>2. \A u \in Users : users[u] # NoRow => \E p \in Passwords : <<u, p>> \in registered
    BY ChallengeAssumption DEF Init
  <1>3. /\ \A c \in Conns : ~chal[c].active /\ creating[c] = NoRow
        /\ denied = <<>> /\ accepted = <<>>
        /\ \A r1, r2 \in registered : r1[1] = r2[1] => r1 = r2
    BY DEF Init, NoChal
  <1> QED
    BY <1>1, <1>2, <1>3 DEF RowsInv, NamesInv, DeniedInv, PasswordBelongsToName

\* One challenge has one nonce, also when it was sent twice.
LEMMA OpenIsIssued ==
  ASSUME ChallengeInv, NEW c \in Conns, chal[c].active, NEW n \in DOMAIN issued,
         issued[n].chal.nonce = chal[c].nonce
  PROVE  issued[n].chal = chal[c]
  BY DEF ChallengeInv, OpenInv, IssuedInv

\* find_user never invents a row.
LEMMA FoundIsThere ==
  ASSUME NEW u \in Users, NEW where, TRUE \in Finds(u, where)
  PROVE  users[u] # NoRow
  BY DEF Finds

\* What the server checks a login against is the registered password's key.
LEMMA KeyOfRow ==
  ASSUME NamesInv, NEW u \in Users, users[u] # NoRow
  PROVE  \E q \in Passwords :
           /\ <<u, q>> \in registered
           /\ Unblind(users[u].stored, u, users[u].salt) = Derive(q, users[u].salt)
  <1>1. PICK q \in Passwords : <<u, q>> \in registered
    BY DEF NamesInv
  <1>2. users[u] = Row(u, q, users[u].salt)
    BY <1>1 DEF NamesInv
  <1> QED
    BY <1>1, <1>2, RowOpens

\* An accepted proof is appended to those before.
LEMMA AcceptsOne ==
  ASSUME Types, NEW c, NEW u, NEW password, NEW op, Accepts(c, u, password, op),
         NEW i \in DOMAIN accepted'
  PROVE  \/ i \in DOMAIN accepted /\ accepted'[i] = accepted[i]
         \/ /\ accepted'[i].op = op /\ accepted'[i].user = u
            /\ accepted'[i].password = password
  <1> DEFINE new == [conn |-> c, user |-> u, op |-> op, at |-> clock,
                     password |-> password, nonce |-> chal[c].nonce]
  <1>1. accepted' = Append(accepted, new)
    BY DEF Accepts
  <1>2. new.op = op /\ new.user = u /\ new.password = password
    OBVIOUS
  <1> HIDE DEF new
  <1>3. /\ DOMAIN accepted = 1..Len(accepted) /\ DOMAIN accepted' = 1..(Len(accepted) + 1)
        /\ Len(accepted) \in Nat
        /\ accepted'[Len(accepted) + 1] = new
        /\ \A j \in DOMAIN accepted : accepted'[j] = accepted[j]
    BY <1>1, SMTT(60) DEF Types
  <1>4. i = Len(accepted) + 1 \/ i \in DOMAIN accepted
    BY <1>3
  <1> QED
    BY <1>2, <1>3, <1>4

\* A step that writes no row and accepts no login.
LEMMA RowsQuietStep ==
  ASSUME RowsInv, UNCHANGED <<users, registered>>,
         \A c \in Conns : creating'[c] # NoRow => creating'[c] = creating[c],
         \A d \in Conns : chal'[d].active => chal'[d] = chal[d],
         UNCHANGED accepted, DeniedInv'
  PROVE  RowsInv'
  <1>1. NamesInv'
    BY DEF RowsInv, NamesInv
  <1>2. PasswordBelongsToName'
    BY DEF RowsInv, PasswordBelongsToName
  <1> QED
    BY <1>1, <1>2 DEF RowsInv

LEMMA HelloRows ==
  ASSUME Types, RowsInv, NEW c \in Conns, NEW u \in Users, NEW r \in BOOLEAN,
         Hello(c, u, r)
  PROVE  RowsInv'
  <1>1. /\ (~r) \in Finds(u, "hello") /\ SendChallenge(c, u, users[u].salt, r)
        /\ denied' = <<>> /\ UNCHANGED <<creating, users, accepted, registered>>
    BY DEF Hello
  <1>2. DeniedInv'
    BY <1>1 DEF DeniedInv
  <1>3. CASE UNCHANGED chal
    BY <1>1, <1>2, <1>3, RowsQuietStep
  <1>4. CASE ~Reusable(c, u, r)
    <2> DEFINE new == [active |-> TRUE, register |-> r, user |-> u,
                       salt |-> IF r THEN fresh + 1 ELSE users[u].salt,
                       nonce |-> fresh + 1, exp |-> clock + ChalTtl]
    <2>1. new.register = r /\ new.user = u /\ (~r => new.salt = users[u].salt)
      OBVIOUS
    <2>2. chal' = [chal EXCEPT ![c] = new]
      BY <1>1, <1>4 DEF SendChallenge
    <2> HIDE DEF new
    <2>3. chal'[c] = new /\ \A d \in Conns \ {c} : chal'[d] = chal[d]
      BY <2>2 DEF Types
    <2>4. ~r => users[u] # NoRow
      BY <1>1, FoundIsThere
    <2>5. NamesInv'
      BY <1>1, <2>1, <2>3, <2>4 DEF RowsInv, NamesInv
    <2>6. PasswordBelongsToName'
      BY <1>1 DEF RowsInv, PasswordBelongsToName
    <2> QED
      BY <1>2, <2>5, <2>6 DEF RowsInv
  <1> QED
    BY <1>1, <1>3, <1>4 DEF SendChallenge

LEMMA RegisterRows ==
  ASSUME Types, ChallengeInv, RowsInv, NEW c \in Conns, NEW u \in Users, Register(c, u)
  PROVE  RowsInv'
  <1>1. /\ denied' = <<>> /\ UNCHANGED <<users, registered>>
        /\ \A d \in Conns : chal'[d].active => chal'[d] = chal[d]
    BY DEF Types, Register, Take, NoChal
  <1>2. DeniedInv'
    BY <1>1 DEF DeniedInv
  <1>3. CASE UNCHANGED <<creating, accepted>>
    BY <1>1, <1>2, <1>3, RowsQuietStep
  <1>4. ASSUME NEW n \in DOMAIN issued, NEW password \in Passwords, Fits(c, u, TRUE),
               Answer(n, password, "REGISTER", u) =
                 Proof(Key(n, password), "REGISTER", u, chal[c].nonce),
               creating' = [creating EXCEPT ![c] =
                 [salt |-> chal[c].salt, user |-> u, password |-> password,
                  stored |-> Blind(Key(n, password), u, chal[c].salt)]],
               Accepts(c, u, password, "REGISTER")
        PROVE  RowsInv'
    <2>1. issued[n].chal.nonce = chal[c].nonce
      <3>1. Proof(Key(n, password), "REGISTER", u, issued[n].chal.nonce) =
              Proof(Key(n, password), "REGISTER", u, chal[c].nonce)
        BY <1>4 DEF Answer
      <3> QED
        BY <3>1, ProofIsInjective
    <2>2. issued[n].chal = chal[c]
      BY <1>4, <2>1, OpenIsIssued DEF Fits
    <2>3. Key(n, password) = Derive(password, chal[c].salt)
      BY <2>2 DEF Key
    <2>4. \A d \in Conns : creating'[d] # NoRow =>
            creating'[d].stored = Blind(Derive(creating'[d].password, creating'[d].salt),
                                        creating'[d].user, creating'[d].salt)
      <3> DEFINE row == [salt |-> chal[c].salt, user |-> u, password |-> password,
                         stored |-> Blind(Key(n, password), u, chal[c].salt)]
      <3>1. row.stored = Blind(Derive(row.password, row.salt), row.user, row.salt)
        BY <2>3
      <3>2. creating' = [creating EXCEPT ![c] = row]
        BY <1>4
      <3> HIDE DEF row
      <3>3. creating'[c] = row /\ \A d \in Conns \ {c} : creating'[d] = creating[d]
        BY <3>2 DEF Types
      <3> QED
        BY <3>1, <3>3 DEF RowsInv, NamesInv
    <2>5. NamesInv'
      BY <1>1, <2>4 DEF RowsInv, NamesInv
    <2>6. PasswordBelongsToName'
      <3>1. \A i \in DOMAIN accepted' : accepted'[i].op = "LOGIN" =>
              i \in DOMAIN accepted /\ accepted'[i] = accepted[i]
        BY <1>4, AcceptsOne
      <3> QED
        BY <1>1, <3>1 DEF RowsInv, PasswordBelongsToName
    <2> QED
      BY <1>2, <2>5, <2>6 DEF RowsInv
  <1> QED
    BY <1>3, <1>4 DEF Register

\* The proof of another password, or for another challenge, is not the right one.
LEMMA LoginIsDecided ==
  ASSUME ChallengeInv, RowsInv, NEW c \in Conns, NEW u \in Users,
         Fits(c, u, FALSE), users[u] # NoRow,
         NEW n \in DOMAIN issued, NEW password \in Passwords
  PROVE  LET right == Answer(n, password, "LOGIN", u) =
               Proof(Unblind(users[u].stored, u, users[u].salt), "LOGIN", u, chal[c].nonce)
         IN /\ right => <<u, password>> \in registered
            /\ <<u, password>> \in registered /\ issued[n].chal.nonce = chal[c].nonce
                 => right
  <1>1. PICK q \in Passwords :
          /\ <<u, q>> \in registered
          /\ Unblind(users[u].stored, u, users[u].salt) = Derive(q, users[u].salt)
    BY KeyOfRow DEF RowsInv
  <1>2. chal[c].active /\ chal[c].salt = users[u].salt
    BY DEF RowsInv, NamesInv, Fits
  <1>3. ASSUME Answer(n, password, "LOGIN", u) =
                 Proof(Derive(q, users[u].salt), "LOGIN", u, chal[c].nonce)
        PROVE  <<u, password>> \in registered
    <2>1. /\ Key(n, password) = Derive(q, users[u].salt)
          /\ issued[n].chal.nonce = chal[c].nonce
      <3>1. Proof(Key(n, password), "LOGIN", u, issued[n].chal.nonce) =
              Proof(Derive(q, users[u].salt), "LOGIN", u, chal[c].nonce)
        BY <1>3 DEF Answer
      <3> QED
        BY <3>1, ProofIsInjective
    <2>2. issued[n].chal.salt = users[u].salt
      BY <1>2, <2>1, OpenIsIssued
    <2>3. Derive(password, users[u].salt) = Derive(q, users[u].salt)
      BY <2>1, <2>2 DEF Key
    <2> QED
      BY <1>1, <2>3, DeriveIsInjective
  <1>4. ASSUME <<u, password>> \in registered, issued[n].chal.nonce = chal[c].nonce
        PROVE  Answer(n, password, "LOGIN", u) =
                 Proof(Derive(q, users[u].salt), "LOGIN", u, chal[c].nonce)
    <2>1. <<u, password>> = <<u, q>>
      BY <1>1, <1>4 DEF RowsInv, PasswordBelongsToName
    <2>2. issued[n].chal.salt = users[u].salt
      BY <1>2, <1>4, OpenIsIssued
    <2> QED
      BY <1>4, <2>1, <2>2 DEF Answer, Key
  <1> QED
    BY <1>1, <1>3, <1>4

LEMMA LoginRows ==
  ASSUME Types, ChallengeInv, RowsInv, NEW c \in Conns, NEW u \in Users, Login(c, u)
  PROVE  RowsInv'
  <1>1. /\ UNCHANGED <<creating, users, registered>>
        /\ \A d \in Conns : chal'[d].active => chal'[d] = chal[d]
    BY DEF Types, Login, Take, NoChal
  <1> DEFINE Right(n, password) == Answer(n, password, "LOGIN", u) =
               Proof(Unblind(users[u].stored, u, users[u].salt), "LOGIN", u, chal[c].nonce)
  <1>2. CASE denied' = <<>> /\ UNCHANGED accepted
    <2>1. DeniedInv'
      BY <1>2 DEF DeniedInv
    <2> QED
      BY <1>1, <1>2, <2>1, RowsQuietStep
  <1>3. ASSUME NEW n \in DOMAIN issued, NEW password \in Passwords,
               Fits(c, u, FALSE), users[u] # NoRow, Right(n, password),
               Accepts(c, u, password, "LOGIN"), denied' = <<>>
        PROVE  RowsInv'
    <2>1. <<u, password>> \in registered
      BY <1>3, LoginIsDecided
    <2>2. \A i \in DOMAIN accepted' :
            \/ accepted'[i].user = u /\ accepted'[i].password = password
            \/ i \in DOMAIN accepted /\ accepted'[i] = accepted[i]
      BY <1>3, AcceptsOne
    <2>3. PasswordBelongsToName'
      BY <1>1, <2>1, <2>2 DEF RowsInv, PasswordBelongsToName
    <2>4. NamesInv' /\ DeniedInv'
      BY <1>1, <1>3 DEF RowsInv, NamesInv, DeniedInv
    <2> QED
      BY <2>3, <2>4 DEF RowsInv
  <1>4. ASSUME NEW n \in DOMAIN issued, NEW password \in Passwords,
               Fits(c, u, FALSE), users[u] # NoRow, ~Right(n, password),
               denied' = IF issued[n].chal.nonce = chal[c].nonce
                         THEN <<u, password>> ELSE <<>>,
               UNCHANGED accepted
        PROVE  RowsInv'
    <2>1. issued[n].chal.nonce = chal[c].nonce => <<u, password>> \notin registered
      BY <1>4, LoginIsDecided
    <2>2. DeniedInv'
      BY <1>1, <1>4, <2>1 DEF DeniedInv
    <2> QED
      BY <1>1, <1>4, <2>2, RowsQuietStep
  <1> QED
    BY <1>2, <1>3, <1>4 DEF Login

LEMMA RegisterEndRows ==
  ASSUME Types, RowsInv, NEW c \in Conns, RegisterEnd(c)
  PROVE  RowsInv'
  <1> DEFINE row == creating[c]
  <1>1. /\ UNCHANGED <<chal, accepted, denied>>
        /\ \A d \in Conns : creating'[d] # NoRow => creating'[d] = creating[d]
    BY DEF Types, RegisterEnd
  <1>2. /\ row.user \in Users /\ row.password \in Passwords
        /\ row.stored = Blind(Derive(row.password, row.salt), row.user, row.salt)
    BY DEF Types, RowsInv, NamesInv, RegisterEnd
  <1>3. CASE UNCHANGED <<users, registered>>
    <2>1. DeniedInv'
      BY <1>1, <1>3 DEF RowsInv, DeniedInv
    <2> QED
      BY <1>1, <1>3, <2>1, RowsQuietStep
  <1>4. CASE users[row.user] = NoRow /\ Insert(row)
    <2>1. users'[row.user] = Row(row.user, row.password, row.salt)
      BY <1>2, <1>4 DEF Types, Insert, Row
    <2>2. \A u \in Users : u # row.user => users'[u] = users[u]
      BY <1>4 DEF Types, Insert
    <2>3. registered' = registered \cup {<<row.user, row.password>>}
      BY <1>4 DEF Insert
    <2>4. \A r \in registered : r[1] # row.user /\ r[1] \in Users /\ r = <<r[1], r[2]>>
      <3> SUFFICES ASSUME NEW r \in registered
                   PROVE  r[1] # row.user /\ r[1] \in Users /\ r = <<r[1], r[2]>>
        OBVIOUS
      <3>1. users[r[1]] = Row(r[1], r[2], users[r[1]].salt)
        BY DEF RowsInv, NamesInv
      <3>2. users[r[1]] # NoRow
        BY <3>1, RowOpens
      <3> QED
        BY <1>4, <3>2 DEF Types
    <2>5. /\ Row(row.user, row.password, row.salt) # NoRow
          /\ Row(row.user, row.password, row.salt).salt = row.salt
      BY RowOpens
    <2> HIDE DEF row
    <2>6. \A r \in registered' : users'[r[1]] = Row(r[1], r[2], users'[r[1]].salt)
      BY <2>1, <2>2, <2>3, <2>4, <2>5 DEF RowsInv, NamesInv
    <2>7. \A u \in Users : users'[u] # NoRow => \E p \in Passwords : <<u, p>> \in registered'
      BY <1>2, <2>2, <2>3 DEF RowsInv, NamesInv
    <2>8. NamesInv'
      <3>1. \A d \in Conns : creating'[d] # NoRow =>
              creating'[d].stored = Blind(Derive(creating'[d].password, creating'[d].salt),
                                          creating'[d].user, creating'[d].salt)
        BY <1>1 DEF RowsInv, NamesInv
      <3>2. \A d \in Conns : chal'[d].active /\ ~chal'[d].register =>
              /\ chal'[d].user \in Users /\ users'[chal'[d].user] # NoRow
              /\ chal'[d].salt = users'[chal'[d].user].salt
        BY <1>1, <1>4, <2>2 DEF RowsInv, NamesInv
      <3> QED
        BY <2>6, <2>7, <3>1, <3>2 DEF NamesInv
    <2>9. DeniedInv'
      <3>1. CASE denied = <<>>
        BY <1>1, <3>1 DEF DeniedInv
      <3>2. ASSUME NEW u \in Users, NEW p \in Passwords, denied = <<u, p>>,
                   users[u] # NoRow, <<u, p>> \notin registered
            PROVE  DeniedInv'
        <4>1. u # row.user
          BY <1>4, <3>2
        <4>2. users'[u] # NoRow /\ <<u, p>> \notin registered'
          BY <2>2, <2>3, <3>2, <4>1
        <4> QED
          BY <1>1, <3>2, <4>2 DEF DeniedInv
      <3> QED
        BY <3>1, <3>2 DEF RowsInv, DeniedInv
    <2>10. PasswordBelongsToName'
      <3>1. \A r1, r2 \in registered' : r1[1] = r2[1] => r1 = r2
        BY <2>3, <2>4 DEF RowsInv, PasswordBelongsToName
      <3> QED
        BY <1>1, <2>3, <3>1 DEF RowsInv, PasswordBelongsToName
    <2> QED
      BY <2>8, <2>9, <2>10 DEF RowsInv
  <1> QED
    BY <1>3, <1>4 DEF RegisterEnd, CreateUser

LEMMA NextRows == Types /\ ChallengeInv /\ RowsInv /\ [Next]_vars => RowsInv'
  <1> SUFFICES ASSUME Types, ChallengeInv, RowsInv, [Next]_vars PROVE RowsInv'
    OBVIOUS
  <1>0. denied' = <<>> => DeniedInv'
    BY DEF DeniedInv
  <1>1. ASSUME NEW c \in Conns, NEW id \in 1..fresh, Auth(c, id)
        PROVE  RowsInv'
    <2>1. \A d \in Conns : chal'[d].active => chal'[d] = chal[d]
      BY <1>1 DEF Auth, NoChal
    <2> QED
      BY <1>0, <1>1, <2>1, RowsQuietStep DEF Auth
  <1>2. ASSUME NEW c \in Conns, Reconnect(c)
        PROVE  RowsInv'
    <2>1. \A d \in Conns : chal'[d].active => chal'[d] = chal[d]
      BY <1>2 DEF Types, Reconnect, NoChal
    <2> QED
      BY <1>0, <1>2, <2>1, RowsQuietStep DEF Reconnect
  <1>3. CASE Tick
    BY <1>0, <1>3, RowsQuietStep DEF Tick
  <1>4. CASE Restart
    <2>1. \A d \in Conns : ~chal'[d].active /\ creating'[d] = NoRow
      BY <1>4 DEF Restart, NoChal
    <2> QED
      BY <1>0, <1>4, <2>1, RowsQuietStep DEF Restart
  <1>5. CASE UNCHANGED vars
    <2>1. DeniedInv'
      BY <1>5 DEF RowsInv, DeniedInv, vars
    <2> QED
      BY <1>5, <2>1, RowsQuietStep DEF vars
  <1> QED
    BY <1>1, <1>2, <1>3, <1>4, <1>5, HelloRows, RegisterRows, LoginRows, RegisterEndRows
    DEF Next

-----------------------------------------------------------------------------
(* The theorems.                                                           *)

\* The challenges, proofs and rows of any number of connections fit each other
\* (sendChallenge, takeChallenge, create_user).
LEMMA InvariantHolds == Spec => []IInv
  <1>1. Init => IInv
    BY InitTypes, InitChallenges, InitRows DEF IInv
  <1>2. IInv /\ [Next]_vars => IInv'
    BY NextTypes, NextChallenges, NextRows DEF IInv
  <1> QED
    BY <1>1, <1>2, PTL DEF Spec

\* Every variable keeps its type, and an open challenge is one that was sent on
\* its connection (sendChallenge, takeChallenge, TokenBook::issue).
THEOREM TypeCorrect == Spec => []TypeOK
  <1>1. IInv => TypeOK
    BY ChallengeAssumption DEF IInv, Types, ChallengeInv, OpenInv, TypeOK
  <1> QED
    BY <1>1, InvariantHolds, PTL

\* Whatever connections, names, restarts and repetitions, a nonce verifies one
\* proof (takeChallenge).
THEOREM NoncesVerifyOnce == Spec => []NonceVerifiesOnce
  <1>1. IInv => NonceVerifiesOnce
    BY DEF IInv, ChallengeInv, AcceptedInv
  <1> QED
    BY <1>1, InvariantHolds, PTL

\* A proof counts on its challenge's connection, for its user and operation, and
\* within ChalTtl of the first time the challenge was sent (sendChallenge).
THEOREM ProofsAreForTheirChallenge == Spec => []AcceptedAsIssued
  <1>1. IInv => AcceptedAsIssued
    BY DEF IInv, ChallengeInv, AcceptedInv
  <1> QED
    BY <1>1, InvariantHolds, PTL

\* Of racing registrations one gets the name, and its password is the one that
\* opens it and is never called wrong (create_user, doLogin).
THEOREM NamesHaveOnePassword == Spec => []OnePasswordPerName
  <1>1. IInv => OnePasswordPerName
    <2> SUFFICES ASSUME IInv PROVE OnePasswordPerName
      OBVIOUS
    <2>1. PasswordBelongsToName /\ DeniedInv
      BY DEF IInv, RowsInv
    <2>2. <<>> \notin registered
      <3>1. registered \subseteq Users \X Passwords
        BY DEF IInv, Types
      <3>2. \A r \in Users \X Passwords : r # <<>>
        OBVIOUS
      <3> QED
        BY <3>1, <3>2, Zenon
    <2> QED
      BY <2>1, <2>2 DEF DeniedInv, OnePasswordPerName, WrongPasswordMeansWrong
  <1> QED
    BY <1>1, InvariantHolds, PTL

-----------------------------------------------------------------------------
(* The token book.                                                         *)

\* issue throws away nothing that has time left.
LEMMA IssueKeepsLiveTokens ==
  ASSUME Types, NEW u \in Users, Issue(u), NEW t \in tokens, t.exp >= clock
  PROVE  t \in tokens'
  <1>1. t.exp \in Nat /\ clock \in Nat
    BY ChallengeAssumption DEF Types
  <1> QED
    BY <1>1 DEF Issue, GcTokens

\* A token is good for its time, in any table size, and for not more
\* (TokenBook::validate, issue, gc_locked, doAuth).
THEOREM TokensLastTheirTime == Spec => TokensLiveTheirTime
  <1>1. ASSUME Types, Next, NEW t \in tokens, t.exp >= clock, restarts' = restarts
        PROVE  t \in tokens'
    <2>1. ASSUME NEW c \in Conns, NEW u \in Users, Login(c, u)
          PROVE  t \in tokens'
      BY <1>1, <2>1, IssueKeepsLiveTokens DEF Login
    <2>2. ASSUME NEW c \in Conns, NEW id \in 1..fresh, Auth(c, id)
          PROVE  t \in tokens'
      <3>1. CASE Valid(id) = {}
        <4>1. ~(t.exp < clock)
          BY <1>1, ChallengeAssumption DEF Types
        <4>2. t.id # id
          BY <1>1, <3>1, <4>1 DEF Valid
        <4> QED
          BY <1>1, <2>2, <3>1, <4>2 DEF Auth
      <3>2. ASSUME NEW v \in Valid(id), Issue(v.user)
            PROVE  t \in tokens'
        BY <1>1, <3>2, IssueKeepsLiveTokens DEF Types, Valid
      <3> QED
        BY <2>2, <3>1, <3>2 DEF Auth
    <2>3. CASE \E c \in Conns, u \in Users, r \in BOOLEAN : Hello(c, u, r)
      BY <1>1, <2>3 DEF Hello
    <2>4. CASE \E c \in Conns, u \in Users : Register(c, u)
      BY <1>1, <2>4 DEF Register
    <2>5. CASE \E c \in Conns : RegisterEnd(c) \/ Reconnect(c)
      BY <1>1, <2>5 DEF RegisterEnd, Reconnect
    <2>6. CASE Tick \/ Restart
      BY <1>1, <2>6 DEF Tick, Restart, Types
    <2> QED
      BY <1>1, <2>1, <2>2, <2>3, <2>4, <2>5, <2>6 DEF Next
  <1>2. ASSUME Types, Next, NEW c \in Conns, user[c] = NoUser, user'[c] # NoUser
        PROVE  \/ Len(accepted') > Len(accepted)
               \/ \E t \in tokens : t.user = user'[c] /\ t.exp >= clock
    <2>1. ASSUME NEW d \in Conns, NEW u \in Users, Login(d, u)
          PROVE  Len(accepted') > Len(accepted)
      <3>1. CASE UNCHANGED user
        BY <1>2, <3>1
      <3>2. ASSUME NEW password, Accepts(d, u, password, "LOGIN")
            PROVE  Len(accepted') > Len(accepted)
        BY <1>2, <3>2 DEF Types, Accepts
      <3> QED
        BY <2>1, <3>1, <3>2 DEF Login
    <2>2. ASSUME NEW d \in Conns, NEW id \in 1..fresh, Auth(d, id)
          PROVE  \E t \in tokens : t.user = user'[c] /\ t.exp >= clock
      <3>1. CASE Valid(id) = {}
        BY <1>2, <2>2, <3>1 DEF Auth
      <3>2. ASSUME NEW v \in Valid(id), NEW old,
                   user' = [e \in Conns |-> IF e = d THEN v.user
                              ELSE IF e \in old THEN NoUser ELSE user[e]]
            PROVE  \E t \in tokens : t.user = user'[c] /\ t.exp >= clock
        <4>1. v \in tokens /\ v.exp >= clock
          BY <1>2, ChallengeAssumption DEF Types, Valid
        <4>2. user'[c] = v.user
          BY <1>2, <3>2
        <4> QED
          BY <4>1, <4>2
      <3> QED
        BY <2>2, <3>1, <3>2 DEF Auth
    <2>3. CASE \E d \in Conns, u \in Users, r \in BOOLEAN : Hello(d, u, r)
      BY <1>2, <2>3 DEF Hello
    <2>4. CASE \E d \in Conns, u \in Users : Register(d, u)
      BY <1>2, <2>4 DEF Register
    <2>5. CASE \E d \in Conns : RegisterEnd(d) \/ Reconnect(d)
      BY <1>2, <2>5 DEF RegisterEnd, Reconnect, Types
    <2>6. CASE Tick \/ Restart
      BY <1>2, <2>6 DEF Tick, Restart
    <2> QED
      BY <1>2, <2>1, <2>2, <2>3, <2>4, <2>5, <2>6 DEF Next
  <1>3. ASSUME IInv, Next
        PROVE  /\ \A t \in tokens : t.exp >= clock => t \in tokens' \/ restarts' # restarts
               /\ \A c \in Conns : user[c] = NoUser /\ user'[c] # NoUser =>
                    \/ Len(accepted') > Len(accepted)
                    \/ \E t \in tokens : t.user = user'[c] /\ t.exp >= clock
    BY <1>1, <1>2, <1>3 DEF IInv
  <1>4. IInv /\ [Next]_vars =>
          [/\ \A t \in tokens : t.exp >= clock => t \in tokens' \/ restarts' # restarts
           /\ \A c \in Conns : user[c] = NoUser /\ user'[c] # NoUser =>
                \/ Len(accepted') > Len(accepted)
                \/ \E t \in tokens : t.user = user'[c] /\ t.exp >= clock]_vars
    BY <1>3
  <1> QED
    BY <1>4, InvariantHolds, PTL
    DEF Spec, TokensLiveTheirTime, LiveTokensStay, SessionsAreEarned
=============================================================================
