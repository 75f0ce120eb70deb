------------------------- MODULE OAuthService_proofs -------------------------
(***************************************************************************)
(* Proofs about the OAuth service, for all requests, clients, users and    *)
(* scopes and every bound: under the lock each mutation changes the file   *)
(* as it is, so a code or refresh token is traded once, a family of tokens *)
(* has one live member, scopes only narrow, a revocation stands and what a *)
(* client was told is kept.                                                *)
(***************************************************************************)
EXTENDS OAuthService, TLAPS

-----------------------------------------------------------------------------
(* What the variables hold.                                                *)

InFlight(r) == pc[r] # "idle"
Asks(r) == op[r].request
Secret(r) == op[r].secret

OAuthTyped ==
  /\ file \in Files
  /\ copy \in [Requests -> Files]
  /\ now \in Nat /\ drawn \in 0..MaxSecrets
  /\ origin \in [Secrets -> 0..MaxSecrets] /\ family \in [Secrets -> Secrets]
  /\ pc \in [Requests -> PCs]
  /\ op = [r \in Requests |-> op[r]]
  /\ \A r \in Requests : InFlight(r) => Asks(r) \in Ops(0..now)
  /\ granted \in [Secrets -> Grants \cup {Null}]
  /\ revoked \subseteq {"refresh", "access"} \X Secrets
  /\ registered \subseteq Clients

(* Only the maker of the lock directory is between taking and dropping it. *)
Inside(r) == pc[r] \in {"reading", "writing", "returning"}
LockInv == \A r \in Requests : Inside(r) => lockdir = r

-----------------------------------------------------------------------------
(* Secrets.                                                                *)

Given(s) == granted[s] # Null

(* What a request in flight draws is its own, and it presents what its     *)
(* caller was given.                                                       *)
AskedInv ==
  \A r \in Requests : InFlight(r) =>
    LET rq == Asks(r)
        s == Secret(r)
    IN /\ Draws(rq) => s \in 1..drawn /\ ~Given(s) /\ origin[s] = Presented(rq)
       /\ rq.kind = "authorize" => rq.scopes \subseteq Allowed[rq.subject]
       /\ rq.kind = "exchange" => Given(rq.code)
       /\ rq.kind \in {"refresh", "revoke_refresh"} => Given(rq.token)

OwnInv ==
  \A q, r \in Requests :
    InFlight(q) /\ InFlight(r) /\ Draws(Asks(q)) /\ Draws(Asks(r)) /\ q # r =>
      Secret(q) # Secret(r)

(* A secret that others descend from was given to a client. *)
SecretInv ==
  \A s \in Secrets :
    /\ s > drawn => ~Given(s) /\ origin[s] = 0
    /\ origin[s] # 0 => Given(origin[s])
    /\ family[s] = IF origin[s] = 0 THEN s ELSE family[origin[s]]
    /\ family[s] = s \/ Given(family[s])

-----------------------------------------------------------------------------
(* The file.                                                               *)

Has(f, s) == (\E c \in f.codes : c.digest = s) \/ \E t \in f.tokens : t.digest = s
Usable(f, s) ==
  \/ \E c \in f.codes : c.digest = s /\ ~c.consumed
  \/ \E t \in f.tokens : t.digest = s /\ ~t.revoked

(* One record per secret. *)
Distinct(f) ==
  /\ \A c, d \in f.codes : c.digest = d.digest => c = d
  /\ \A t, u \in f.tokens : t.digest = u.digest => t = u
  /\ \A c \in f.codes, t \in f.tokens : c.digest # t.digest

(* A secret is in the file only once its request has renamed. *)
FreshInv ==
  /\ \A s \in Secrets : Has(file, s) => s <= drawn
  /\ \A r \in Requests :
       pc[r] \in {"waiting", "reading", "writing"} /\ Draws(Asks(r)) => ~Has(file, Secret(r))

(* A record says what the client was told. *)
Tells(x, code) ==
  /\ x.scopes \subseteq Allowed[x.subject]
  /\ (origin[x.digest] = 0) = code
  /\ Given(x.digest) =>
       LET g == granted[x.digest] IN
       g.scopes = x.scopes /\ g.expires_at = x.expires_at /\ g.code = code
RecordInv ==
  /\ Distinct(file)
  /\ \A c \in file.codes : Tells(c, TRUE)
  /\ \A t \in file.tokens : Tells(t, FALSE)

(* What a secret was traded for leaves it unusable, in whoever's hands. *)
Issued(s) == Given(s) \/ Has(file, s)
SpentInv ==
  /\ \A s \in Secrets : Issued(s) /\ origin[s] # 0 => ~Usable(file, origin[s])
  /\ \A s, t \in Secrets : Issued(s) /\ Issued(t) /\ origin[s] = origin[t] /\ origin[s] # 0 => s = t
FamilyInv ==
  \A s, t \in Secrets : Usable(file, s) /\ Usable(file, t) /\ family[s] = family[t] => s = t

-----------------------------------------------------------------------------
(* Operations under the lock.                                              *)

(* The copy is one mutation away from the file as it is now. *)
CopyInv ==
  \A r \in Requests : pc[r] = "writing" => copy[r] \in Written(file, Asks(r), Secret(r))

Told(rq) ==
  IF rq.kind = "authorize" \/ (rq.kind = "refresh" /\ rq.scopes # Null) THEN rq.scopes
  ELSE granted[Presented(rq)].scopes

(* What is about to be answered is in the file. *)
DoneInv ==
  \A r \in Requests : pc[r] = "returning" =>
    LET rq == Asks(r)
        s == Secret(r)
    IN /\ rq.kind = "authorize" =>
            \E c \in file.codes : c.digest = s /\ c.scopes = Told(rq)
                                  /\ c.expires_at = rq.at + CodeTtl
       /\ rq.kind \in {"exchange", "refresh"} =>
            /\ \E t \in file.tokens : t.digest = s /\ t.scopes = Told(rq)
                                      /\ t.expires_at = rq.at + RefreshTtl
            /\ Told(rq) \subseteq granted[Presented(rq)].scopes
       /\ rq.kind = "register" => rq.client \in file.clients
       /\ rq.kind = "revoke_refresh" =>
            \A t \in file.tokens : t.digest = rq.token => t.revoked
       /\ rq.kind = "revoke_access" => rq.token \in file.revoked_access

(* A revocation that was acknowledged is in the file. *)
RevokedInv ==
  \A s \in Secrets :
    /\ <<"refresh", s>> \in revoked => Given(s) /\ \A t \in file.tokens : t.digest = s => t.revoked
    /\ <<"access", s>> \in revoked => s \in file.revoked_access

NarrowInv == \A s \in Secrets : Given(s) /\ origin[s] # 0 =>
                granted[s].scopes \subseteq granted[origin[s]].scopes

OAuthInv ==
  /\ OAuthTyped /\ LockInv
  /\ AskedInv /\ OwnInv /\ SecretInv /\ FreshInv
  /\ RecordInv /\ SpentInv /\ FamilyInv
  /\ CopyInv /\ DoneInv
  /\ RevokedInv /\ NarrowInv /\ AcknowledgedIsStored

-----------------------------------------------------------------------------
(* What a mutation does to the records.                                    *)

(* What a request asks for, by its kind. *)
LEMMA AskTyped ==
  ASSUME NEW at, NEW rq \in Ops(at)
  PROVE  /\ rq.at \in at
         /\ rq.kind \in {"authorize", "exchange", "refresh", "register", "revoke_refresh",
                         "revoke_access"}
         /\ rq.kind = "authorize" => /\ rq.client \in Clients /\ rq.binding \in Bindings
                                     /\ rq.subject \in Users /\ rq.scopes \in SUBSET Supported
         /\ rq.kind = "exchange" => rq.code \in Secrets
         /\ rq.kind = "refresh" => /\ rq.token \in Secrets
                                   /\ rq.scopes = Null \/ rq.scopes \in SUBSET Supported
         /\ rq.kind = "register" => rq.client \in Clients
         /\ rq.kind \in {"revoke_refresh", "revoke_access"} => rq.token \in Secrets
<1>1. CASE rq \in [kind : {"authorize"}, client : Clients, binding : Bindings, subject : Users,
                   scopes : Requestable, at : at]
  BY <1>1, OAuthAssumption
<1>2. CASE rq \in [kind : {"exchange"}, code : Secrets, client : Clients, binding : Bindings,
                   at : at]
  BY <1>2
<1>3. CASE rq \in [kind : {"refresh"}, token : Secrets, client : Clients,
                   scopes : {Null} \cup Requestable, at : at]
  BY <1>3, OAuthAssumption
<1>4. CASE rq \in [kind : {"register"}, client : Clients \ Static, at : at]
  BY <1>4
<1>5. CASE rq \in [kind : {"revoke_refresh", "revoke_access"}, token : Secrets, at : at]
  BY <1>5
<1> QED
  BY <1>1, <1>2, <1>3, <1>4, <1>5 DEF Ops

(* A record of the new file was in the old one, or is the one drawn for.   *)
OldCode(f, c) ==
  \E d \in f.codes : /\ c.digest = d.digest /\ c.subject = d.subject /\ c.scopes = d.scopes
                     /\ c.expires_at = d.expires_at /\ (d.consumed => c.consumed)
OldToken(f, t) ==
  \E u \in f.tokens : /\ t.digest = u.digest /\ t.subject = u.subject /\ t.scopes = u.scopes
                      /\ t.expires_at = u.expires_at /\ (u.revoked => t.revoked)
DrawnCode(c, rq, s) ==
  /\ rq.kind = "authorize" /\ c.digest = s /\ c.subject = rq.subject /\ c.scopes = rq.scopes
  /\ c.expires_at = rq.at + CodeTtl
DrawnToken(f, t, rq, s) ==
  /\ t.digest = s /\ t.expires_at = rq.at + RefreshTtl
  /\ \/ /\ rq.kind = "exchange"
        /\ \E c \in CodeRecords(f, rq) : t.subject = c.subject /\ t.scopes = c.scopes
     \/ /\ rq.kind = "refresh"
        /\ \E u \in TokenRecords(f, rq) :
             /\ t.subject = u.subject /\ t.scopes \subseteq u.scopes
             /\ t.scopes = IF rq.scopes = Null THEN u.scopes ELSE rq.scopes

(* Nothing is lost but records that have been expired for Grace. *)
Keeps(f, g, at) ==
  /\ f.clients \subseteq g.clients /\ f.revoked_access \subseteq g.revoked_access
  /\ \A c \in f.codes : c.expires_at + Grace >= at => \E d \in g.codes : d.digest = c.digest
  /\ \A t \in f.tokens : t.expires_at + Grace >= at => \E u \in g.tokens : u.digest = t.digest

Evolves(f, g, rq, s) ==
  /\ g \in Files /\ Distinct(g) /\ Keeps(f, g, rq.at)
  /\ \A c \in g.codes : OldCode(f, c) \/ DrawnCode(c, rq, s)
  /\ \A t \in g.tokens : OldToken(f, t) \/ DrawnToken(f, t, rq, s)
  /\ rq.kind = "authorize" => \E c \in g.codes : DrawnCode(c, rq, s)
  /\ rq.kind \in {"exchange", "refresh"} =>
       /\ \E t \in g.tokens : DrawnToken(f, t, rq, s)
       /\ Usable(f, Presented(rq)) /\ ~Usable(g, Presented(rq))
  /\ rq.kind = "register" => rq.client \in g.clients
  /\ rq.kind = "revoke_refresh" => \A t \in g.tokens : t.digest = rq.token => t.revoked
  /\ rq.kind = "revoke_access" => rq.token \in g.revoked_access

(* Pruning leaves what has not been expired for Grace. *)
LEMMA PrunedKeeps ==
  ASSUME NEW f \in Files, NEW at \in Nat, Distinct(f)
  PROVE  LET g == Pruned(f, at) IN
         /\ g \in Files /\ Distinct(g)
         /\ g.clients = f.clients /\ g.revoked_access = f.revoked_access
         /\ g.codes = {c \in f.codes : c.expires_at + Grace >= at}
         /\ g.tokens = {t \in f.tokens : t.expires_at + Grace >= at}
<1> DEFINE g == Pruned(f, at)
<1>1. /\ g.clients = f.clients /\ g.revoked_access = f.revoked_access
      /\ g.codes = {c \in f.codes : c.expires_at + Grace >= at}
      /\ g.tokens = {t \in f.tokens : t.expires_at + Grace >= at}
      /\ g \in Files
  BY DEF Pruned, Prune, Files
<1> HIDE DEF g
<1>2. Distinct(g)
  BY <1>1 DEF Distinct
<1> QED
  BY <1>1, <1>2 DEF g

(* A new code among the others. *)
LEMMA AuthorizedEvolves ==
  ASSUME NEW f \in Files, Distinct(f), NEW at, at \subseteq Nat, NEW rq \in Ops(at),
         rq.kind = "authorize", NEW s \in Secrets, ~Has(f, s)
  PROVE  Evolves(f, Authorized(f, rq, s), rq, s)
<1> DEFINE code == [digest |-> s, client |-> rq.client, binding |-> rq.binding,
                    subject |-> rq.subject, scopes |-> rq.scopes,
                    expires_at |-> rq.at + CodeTtl, consumed |-> FALSE]
           h == [f EXCEPT !.codes = @ \cup {code}]
           g == Pruned(h, rq.at)
<1>1. /\ rq.at \in Nat /\ CodeTtl \in Nat /\ Grace \in Nat
      /\ rq.client \in Clients /\ rq.binding \in Bindings /\ rq.subject \in Users
      /\ rq.scopes \in SUBSET Supported
  BY AskTyped, OAuthAssumption
<1>2. code \in Codes /\ DrawnCode(code, rq, s) /\ code.digest = s
  BY <1>1 DEF Codes, DrawnCode
<1>3. code.expires_at + Grace >= rq.at
  BY <1>1
<1> HIDE DEF code
<1>4. /\ h \in Files /\ h.codes = f.codes \cup {code} /\ h.tokens = f.tokens
      /\ h.clients = f.clients /\ h.revoked_access = f.revoked_access
  BY <1>2 DEF Files
<1> HIDE DEF h
<1>5. Distinct(h)
  BY <1>2, <1>4 DEF Distinct, Has
<1>a. h \in Files /\ rq.at \in Nat
  BY <1>1, <1>4
<1>6. /\ g \in Files /\ Distinct(g)
      /\ g.clients = f.clients /\ g.revoked_access = f.revoked_access
      /\ g.codes = {c \in h.codes : c.expires_at + Grace >= rq.at}
      /\ g.tokens = {t \in f.tokens : t.expires_at + Grace >= rq.at}
  BY <1>a, <1>4, <1>5, PrunedKeeps
<1>7. Authorized(f, rq, s) = g
  BY DEF Authorized, g, h, code
<1> HIDE DEF g
<1>8. Keeps(f, g, rq.at)
  BY <1>4, <1>6 DEF Keeps
<1>9. \A c \in g.codes : OldCode(f, c) \/ DrawnCode(c, rq, s)
  BY <1>2, <1>4, <1>6 DEF OldCode
<1>10. \A t \in g.tokens : OldToken(f, t)
  BY <1>6 DEF OldToken
<1>11. code \in g.codes
  BY <1>3, <1>4, <1>6
<1> QED
  BY <1>2, <1>6, <1>7, <1>8, <1>9, <1>10, <1>11 DEF Evolves

(* A code is consumed and a first refresh token added. *)
LEMMA ExchangedEvolves ==
  ASSUME NEW f \in Files, Distinct(f), NEW at, at \subseteq Nat, NEW rq \in Ops(at),
         rq.kind = "exchange", NEW s \in Secrets, ~Has(f, s), NEW c \in CodeRecords(f, rq)
  PROVE  Evolves(f, Exchanged(f, c, s, rq.at), rq, s)
<1> DEFINE spent == [c EXCEPT !.consumed = TRUE]
           token == NewToken(c, s, c.scopes, rq.at)
           h == [f EXCEPT !.codes = (@ \ {c}) \cup {spent}, !.tokens = @ \cup {token}]
           g == Pruned(h, rq.at)
<1>1. /\ rq.at \in Nat /\ RefreshTtl \in Nat /\ Grace \in Nat /\ Presented(rq) = rq.code
  BY AskTyped, OAuthAssumption DEF Presented
<1>2. c \in f.codes /\ c \in Codes /\ c.digest = rq.code /\ ~c.consumed
  BY DEF CodeRecords, Files
<1>3. /\ spent \in Codes /\ spent.digest = c.digest /\ spent.subject = c.subject
      /\ spent.scopes = c.scopes /\ spent.expires_at = c.expires_at /\ spent.consumed
  BY <1>2 DEF Codes
<1>4. /\ token \in Tokens /\ token.digest = s /\ token.subject = c.subject
      /\ token.scopes = c.scopes /\ token.expires_at = rq.at + RefreshTtl
  BY <1>1, <1>2 DEF NewToken, Codes, Tokens
<1> HIDE DEF spent, token
<1>5. /\ h \in Files /\ h.codes = (f.codes \ {c}) \cup {spent} /\ h.tokens = f.tokens \cup {token}
      /\ h.clients = f.clients /\ h.revoked_access = f.revoked_access
  BY <1>2, <1>3, <1>4 DEF Files
<1> HIDE DEF h
<1>6. Distinct(h)
  BY <1>2, <1>3, <1>4, <1>5 DEF Distinct, Has
<1>7. /\ g \in Files /\ Distinct(g)
      /\ g.clients = f.clients /\ g.revoked_access = f.revoked_access
      /\ g.codes = {d \in h.codes : d.expires_at + Grace >= rq.at}
      /\ g.tokens = {t \in h.tokens : t.expires_at + Grace >= rq.at}
  BY <1>1, <1>5, <1>6, PrunedKeeps
<1>8. Exchanged(f, c, s, rq.at) = g
  BY DEF Exchanged, g, h, token, spent
<1> HIDE DEF g
<1>9. Keeps(f, g, rq.at)
  BY <1>2, <1>3, <1>5, <1>7 DEF Keeps
<1>10. \A d \in g.codes : OldCode(f, d)
  BY <1>2, <1>3, <1>5, <1>7 DEF OldCode
<1>11. DrawnToken(f, token, rq, s)
  BY <1>4 DEF DrawnToken
<1>12. \A t \in g.tokens : OldToken(f, t) \/ DrawnToken(f, t, rq, s)
  BY <1>5, <1>7, <1>11 DEF OldToken
<1>13. token \in g.tokens
  BY <1>1, <1>4, <1>5, <1>7
<1>14. Usable(f, rq.code)
  BY <1>2 DEF Usable
<1>15. ~Usable(g, rq.code)
  BY <1>2, <1>3, <1>4, <1>5, <1>7 DEF Usable, Distinct, Has
<1> QED
  BY <1>1, <1>7, <1>8, <1>9, <1>10, <1>11, <1>12, <1>13, <1>14, <1>15 DEF Evolves

(* A refresh token is revoked and its successor added. *)
LEMMA RefreshedEvolves ==
  ASSUME NEW f \in Files, Distinct(f), NEW at, at \subseteq Nat, NEW rq \in Ops(at),
         rq.kind = "refresh", NEW s \in Secrets, ~Has(f, s), NEW u \in TokenRecords(f, rq),
         NEW scopes \in RefreshScopes(u, rq)
  PROVE  Evolves(f, Refreshed(f, u, scopes, s, rq.at), rq, s)
<1> DEFINE spent == [u EXCEPT !.revoked = TRUE]
           token == NewToken(u, s, scopes, rq.at)
           h == [f EXCEPT !.tokens = (@ \ {u}) \cup {spent, token}]
           g == Pruned(h, rq.at)
<1>1. /\ rq.at \in Nat /\ RefreshTtl \in Nat /\ Grace \in Nat /\ Presented(rq) = rq.token
  BY AskTyped, OAuthAssumption DEF Presented
<1>2. u \in f.tokens /\ u \in Tokens /\ u.digest = rq.token /\ ~u.revoked
  BY DEF TokenRecords, Files
<1>3. /\ spent \in Tokens /\ spent.digest = u.digest /\ spent.subject = u.subject
      /\ spent.scopes = u.scopes /\ spent.expires_at = u.expires_at /\ spent.revoked
  BY <1>2 DEF Tokens
<1>4. /\ scopes \subseteq u.scopes
      /\ scopes = IF rq.scopes = Null THEN u.scopes ELSE rq.scopes
  BY DEF RefreshScopes
<1>5. /\ token \in Tokens /\ token.digest = s /\ token.subject = u.subject
      /\ token.scopes = scopes /\ token.expires_at = rq.at + RefreshTtl
  BY <1>1, <1>2, <1>4 DEF NewToken, Tokens
<1> HIDE DEF spent, token
<1>6. /\ h \in Files /\ h.codes = f.codes /\ h.tokens = (f.tokens \ {u}) \cup {spent, token}
      /\ h.clients = f.clients /\ h.revoked_access = f.revoked_access
  BY <1>2, <1>3, <1>5 DEF Files
<1> HIDE DEF h
<1>7. Distinct(h)
  BY <1>2, <1>3, <1>5, <1>6 DEF Distinct, Has
<1>8. /\ g \in Files /\ Distinct(g)
      /\ g.clients = f.clients /\ g.revoked_access = f.revoked_access
      /\ g.codes = {d \in f.codes : d.expires_at + Grace >= rq.at}
      /\ g.tokens = {t \in h.tokens : t.expires_at + Grace >= rq.at}
  <2>1. /\ g \in Files /\ Distinct(g)
        /\ g.clients = h.clients /\ g.revoked_access = h.revoked_access
        /\ g.codes = {d \in h.codes : d.expires_at + Grace >= rq.at}
        /\ g.tokens = {t \in h.tokens : t.expires_at + Grace >= rq.at}
    BY <1>1, <1>6, <1>7, PrunedKeeps
  <2> QED
    BY <1>6, <2>1
<1>9. Refreshed(f, u, scopes, s, rq.at) = g
  BY DEF Refreshed, g, h, token, spent
<1> HIDE DEF g
<1>10. Keeps(f, g, rq.at)
  BY <1>2, <1>3, <1>6, <1>8 DEF Keeps
<1>11. \A d \in g.codes : OldCode(f, d)
  BY <1>8 DEF OldCode
<1>12. DrawnToken(f, token, rq, s)
  BY <1>4, <1>5 DEF DrawnToken
<1>13. \A t \in g.tokens : OldToken(f, t) \/ DrawnToken(f, t, rq, s)
  BY <1>2, <1>3, <1>6, <1>8, <1>12 DEF OldToken
<1>14. token \in g.tokens
  BY <1>1, <1>5, <1>6, <1>8
<1>15. Usable(f, rq.token)
  BY <1>2 DEF Usable
<1>16. ~Usable(g, rq.token)
  BY <1>2, <1>3, <1>5, <1>6, <1>8 DEF Usable, Distinct, Has
<1> QED
  BY <1>1, <1>8, <1>9, <1>10, <1>11, <1>12, <1>13, <1>14, <1>15, <1>16 DEF Evolves

(* Whatever a mutation writes is the file it read, evolved. *)
LEMMA WrittenEvolves ==
  ASSUME NEW f \in Files, Distinct(f), NEW at, at \subseteq Nat, NEW rq \in Ops(at), NEW s,
         Draws(rq) => s \in Secrets /\ ~Has(f, s), NEW g \in Written(f, rq, s)
  PROVE  Evolves(f, g, rq, s)
<1>a. Grace \in Nat /\ rq.at \in Nat
  BY AskTyped, OAuthAssumption
<1>1. CASE rq.kind = "authorize"
  BY <1>1, AuthorizedEvolves DEF Written, Draws
<1>2. CASE rq.kind = "exchange"
  <2>1. PICK c \in CodeRecords(f, rq) : g = Exchanged(f, c, s, rq.at)
    BY <1>2 DEF Written
  <2> QED
    BY <1>2, <2>1, ExchangedEvolves DEF Draws
<1>3. CASE rq.kind = "refresh"
  <2>1. PICK u \in TokenRecords(f, rq) : \E scopes \in RefreshScopes(u, rq) :
          g = Refreshed(f, u, scopes, s, rq.at)
    BY <1>3 DEF Written
  <2>2. PICK scopes \in RefreshScopes(u, rq) : g = Refreshed(f, u, scopes, s, rq.at)
    BY <2>1
  <2> QED
    BY <1>3, <2>2, RefreshedEvolves DEF Draws
<1>4. CASE rq.kind = "register"
  <2>1. g = [f EXCEPT !.clients = @ \cup {rq.client}] /\ rq.client \in Clients
    BY <1>4, AskTyped DEF Written
  <2>2. /\ g \in Files /\ g.clients = f.clients \cup {rq.client} /\ g.codes = f.codes
        /\ g.tokens = f.tokens /\ g.revoked_access = f.revoked_access
    BY <2>1 DEF Files
  <2> QED
    BY <1>4, <2>2 DEF Evolves, Distinct, Keeps, OldCode, OldToken
<1>5. CASE rq.kind = "revoke_refresh"
  <2>1. g = RevokedIn(f, rq.token)
    BY <1>5 DEF Written
  <2> DEFINE kill(t) == IF t.digest = rq.token THEN [t EXCEPT !.revoked = TRUE] ELSE t
  <2>2. ASSUME NEW t \in f.tokens
        PROVE  /\ kill(t) \in Tokens /\ kill(t).digest = t.digest /\ kill(t).subject = t.subject
               /\ kill(t).scopes = t.scopes /\ kill(t).expires_at = t.expires_at
               /\ t.revoked => kill(t).revoked
               /\ t.digest = rq.token => kill(t).revoked
    <3>1. t \in Tokens
      BY DEF Files
    <3>2. CASE t.digest = rq.token
      BY <3>1, <3>2 DEF Tokens
    <3>3. CASE t.digest # rq.token
      BY <3>1, <3>3
    <3> QED
      BY <3>2, <3>3
  <2> HIDE DEF kill
  <2>3. /\ g.codes = f.codes /\ g.clients = f.clients /\ g.revoked_access = f.revoked_access
        /\ g.tokens = {kill(t) : t \in f.tokens} /\ g = [f EXCEPT !.tokens = {kill(t) : t \in f.tokens}]
    BY <2>1 DEF RevokedIn, Files, kill
  <2>4. g \in Files
    BY <2>2, <2>3 DEF Files
  <2>5. Distinct(g)
    BY <2>2, <2>3 DEF Distinct
  <2>6. Keeps(f, g, rq.at)
    BY <2>2, <2>3 DEF Keeps
  <2>7. /\ \A c \in g.codes : OldCode(f, c)
        /\ \A t \in g.tokens : OldToken(f, t)
        /\ \A t \in g.tokens : t.digest = rq.token => t.revoked
    BY <2>2, <2>3 DEF OldCode, OldToken
  <2> QED
    BY <1>5, <2>4, <2>5, <2>6, <2>7 DEF Evolves
<1>6. CASE rq.kind = "revoke_access"
  <2>1. g = [f EXCEPT !.revoked_access = @ \cup {rq.token}] /\ rq.token \in Secrets
    BY <1>6, AskTyped DEF Written
  <2>2. /\ g \in Files /\ g.revoked_access = f.revoked_access \cup {rq.token}
        /\ g.codes = f.codes /\ g.tokens = f.tokens /\ g.clients = f.clients
    BY <2>1 DEF Files
  <2> QED
    BY <1>6, <2>2 DEF Evolves, Distinct, Keeps, OldCode, OldToken
<1> QED
  BY <1>1, <1>2, <1>3, <1>4, <1>5, <1>6, AskTyped
-----------------------------------------------------------------------------
(* Types.                                                                  *)

(* The variables keep their shape. *)
LEMMA TypesStep ==
  ASSUME OAuthTyped, RecordInv, FreshInv, CopyInv, AskedInv, LockInv, SecretInv, DoneInv, [Next]_vars
  PROVE  OAuthTyped'
<1>0. /\ OAuthAssumption /\ Empty \in Files
  BY OAuthAssumption DEF Empty, Files
<1>1. CASE UNCHANGED vars
  BY <1>1 DEF vars, storeVars, clientVars, OAuthTyped, InFlight, Asks
<1>2. ASSUME NEW r \in Requests, NEW rq \in Ops({now}), Begin(r, rq)
      PROVE  OAuthTyped'
  <2>1. rq.at = now /\ rq \in Ops(0..now)
    BY DEF Ops, OAuthTyped
  <2>2. pc' \in [Requests -> PCs] /\ op' = [q \in Requests |-> op'[q]]
    BY <1>2 DEF Begin, OAuthTyped, PCs
  <2>3. \A q \in Requests : InFlight(q)' => op'[q].request \in Ops(0..now)
    BY <1>2, <2>1 DEF Begin, OAuthTyped, InFlight, Asks
  <2>4. /\ drawn' \in 0..MaxSecrets /\ origin' \in [Secrets -> 0..MaxSecrets]
        /\ family' \in [Secrets -> Secrets]
    <3>1. Presented(rq) \in 0..MaxSecrets /\ (Presented(rq) # 0 => Presented(rq) \in Secrets)
      BY <2>1, AskTyped, <1>0 DEF Presented, Secrets, OAuthAssumption
    <3>2. CASE Draws(rq)
      <4>1. drawn' = drawn + 1 /\ drawn < MaxSecrets
        BY <1>2, <3>2 DEF Begin
      <4>2. origin' = [origin EXCEPT ![drawn + 1] = Presented(rq)]
        BY <1>2, <3>2 DEF Begin
      <4>3. family' = IF Presented(rq) = 0 THEN family
                      ELSE [family EXCEPT ![drawn + 1] = family[Presented(rq)]]
        BY <1>2, <3>2 DEF Begin
      <4>4. drawn' \in 0..MaxSecrets
        BY <1>0, <4>1 DEF OAuthTyped, OAuthAssumption
      <4>5. origin' \in [Secrets -> 0..MaxSecrets]
        BY <3>1, <4>2 DEF OAuthTyped
      <4>6. family' \in [Secrets -> Secrets]
        <5>1. CASE Presented(rq) = 0
          BY <4>3, <5>1 DEF OAuthTyped
        <5>2. CASE Presented(rq) # 0
          <6>1. family[Presented(rq)] \in Secrets
            BY <3>1, <5>2 DEF OAuthTyped
          <6> QED
            BY <4>3, <5>2, <6>1 DEF OAuthTyped
        <5> QED
          BY <5>1, <5>2
      <4> QED
        BY <4>4, <4>5, <4>6
    <3>3. CASE ~Draws(rq)
      BY <1>2, <3>3 DEF Begin, OAuthTyped
    <3> QED
      BY <3>2, <3>3
  <2>5. UNCHANGED <<file, copy, now, granted, revoked, registered>>
    BY <1>2 DEF Begin, storeVars
  <2> QED
    BY <2>2, <2>3, <2>4, <2>5 DEF OAuthTyped, Asks
<1>3. ASSUME NEW r \in Requests, AcquireLock(r)
      PROVE  OAuthTyped'
  BY <1>3 DEF AcquireLock, clientVars, OAuthTyped, InFlight, Asks, PCs
<1>4. ASSUME NEW r \in Requests, LockTimeout(r)
      PROVE  OAuthTyped'
  BY <1>4 DEF LockTimeout, storeVars, clientVars, OAuthTyped, InFlight, Asks, PCs
<1>5. ASSUME NEW r \in Requests, Mutate(r)
      PROVE  OAuthTyped'
  <2>1. PICK g \in Written(file, op[r].request, op[r].secret) : copy' = [copy EXCEPT ![r] = g]
    BY <1>5 DEF Mutate
  <2>2. /\ Asks(r) \in Ops(0..now) /\ 0..now \subseteq Nat
        /\ Draws(Asks(r)) => Secret(r) \in Secrets /\ ~Has(file, Secret(r))
    BY <1>5, <1>0 DEF Mutate, OAuthTyped, AskedInv, FreshInv, InFlight, Secrets, OAuthAssumption
  <2>3. g \in Files
    BY <2>1, <2>2, WrittenEvolves DEF RecordInv, OAuthTyped, Evolves, Asks, Secret
  <2> QED
    BY <1>5, <2>1, <2>3 DEF Mutate, clientVars, OAuthTyped, InFlight, Asks, PCs
<1>6. ASSUME NEW r \in Requests, Rename(r)
      PROVE  OAuthTyped'
  BY <1>0, <1>6 DEF Rename, clientVars, OAuthTyped, InFlight, Asks, PCs
<1>7. ASSUME NEW r \in Requests, Throw(r)
      PROVE  OAuthTyped'
  BY <1>7 DEF Throw, Unlock, OAuthTyped, InFlight, Asks, PCs
<1>8. ASSUME NEW r \in Requests, Crash(r)
      PROVE  OAuthTyped'
  BY <1>0, <1>8 DEF Crash, clientVars, OAuthTyped, InFlight, Asks, PCs
<1>9. ASSUME Tick
      PROVE  OAuthTyped'
  <2>1. Ops(0..now) \subseteq Ops(0..now')
    BY <1>9 DEF Tick, Ops, OAuthTyped
  <2> QED
    BY <1>9, <2>1 DEF Tick, storeVars, clientVars, OAuthTyped, InFlight, Asks
<1>10. ASSUME NEW r \in Requests, Return(r)
       PROVE  OAuthTyped'
  <2> DEFINE rq == op[r].request
             s == op[r].secret
  <2>1. /\ rq \in Ops(0..now) /\ rq.at \in Nat /\ {CodeTtl, RefreshTtl, AccessTtl} \subseteq Nat
        /\ (Draws(rq) => s \in Secrets)
    <3>1. InFlight(r) /\ rq \in Ops(0..now)
      BY <1>10, <1>0 DEF Return, OAuthTyped, InFlight, Asks
    <3>2. Draws(rq) => s \in Secrets
      BY <1>0, <3>1 DEF OAuthTyped, AskedInv, Asks, Secret, Secrets
    <3>3. rq.at \in 0..now
      BY <3>1, AskTyped
    <3> QED
      BY <1>0, <3>1, <3>2, <3>3, OAuthAssumption DEF OAuthTyped
  <2>2. granted' \in [Secrets -> Grants \cup {Null}]
    <3>1. CASE rq.kind = "authorize"
      <4>1. granted' = [granted EXCEPT ![s] = [scopes |-> rq.scopes, expires_at |-> rq.at + CodeTtl,
                                               access_until |-> 0, code |-> TRUE]]
        BY <1>10, <3>1 DEF Return
      <4>2. [scopes |-> rq.scopes, expires_at |-> rq.at + CodeTtl,
             access_until |-> 0, code |-> TRUE] \in Grants
        BY <2>1, <3>1, AskTyped DEF Grants
      <4> QED
        BY <4>1, <4>2 DEF OAuthTyped
    <3>2. CASE rq.kind # "authorize" /\ Draws(rq)
      <4> DEFINE told == IF rq.kind = "refresh" /\ rq.scopes # Null THEN rq.scopes
                         ELSE granted[Presented(rq)].scopes
      <4>1. granted' = [granted EXCEPT ![s] = [scopes |-> told, expires_at |-> rq.at + RefreshTtl,
                                               access_until |-> rq.at + AccessTtl, code |-> FALSE]]
        BY <1>10, <3>2 DEF Return
      <4>2. told \in SUBSET Supported
        <5>1. Presented(rq) \in Secrets /\ Given(Presented(rq))
          BY <1>10, <2>1, <3>2, AskTyped DEF Return, Draws, Presented, AskedInv, InFlight, Asks
        <5>2. granted[Presented(rq)] \in Grants
          BY <5>1 DEF OAuthTyped, Given
        <5>3. rq.kind = "refresh" => rq.scopes = Null \/ rq.scopes \in SUBSET Supported
          BY <2>1, AskTyped
        <5> QED
          BY <5>2, <5>3 DEF Grants
      <4> HIDE DEF told
      <4>3. [scopes |-> told, expires_at |-> rq.at + RefreshTtl,
             access_until |-> rq.at + AccessTtl, code |-> FALSE] \in Grants
        BY <2>1, <4>2 DEF Grants
      <4> QED
        BY <4>1, <4>3 DEF OAuthTyped
    <3>3. CASE ~Draws(rq)
      BY <1>10, <3>3 DEF Return, Draws, OAuthTyped
    <3> QED
      BY <3>1, <3>2, <3>3
  <2>3. /\ revoked' \subseteq {"refresh", "access"} \X Secrets
        /\ registered' \subseteq Clients
    <3>1. Revokes(rq) => rq.token \in Secrets
      BY <2>1, AskTyped DEF Revokes
    <3>2. rq.kind = "register" => rq.client \in Clients
      BY <2>1, AskTyped
    <3> QED
      BY <1>10, <3>1, <3>2 DEF Return, OAuthTyped
  <2>4. /\ file' = file /\ copy' = copy /\ now' = now /\ drawn' = drawn /\ origin' = origin
        /\ family' = family /\ pc' = [pc EXCEPT ![r] = "idle"] /\ op' = [op EXCEPT ![r] = NoOp]
    BY <1>10 DEF Return, Unlock
  <2> QED
    BY <2>2, <2>3, <2>4 DEF OAuthTyped, InFlight, Asks, PCs
<1> QED
  BY <1>1, <1>2, <1>3, <1>4, <1>5, <1>6, <1>7, <1>8, <1>9, <1>10 DEF Next, BeginAny, Step
-----------------------------------------------------------------------------
(* What the steps change.                                                  *)

Begins(r) == \E rq \in Ops({now}) : Begin(r, rq)

(* Taking the lock, mutating the copy, giving up, throwing and dying       *)
(* change neither the file nor what clients were told.                     *)
LEMMA QuietStep ==
  ASSUME OAuthTyped, [Next]_vars,
         \A r \in Requests : ~Begins(r) /\ ~Rename(r) /\ ~Return(r)
  PROVE  /\ UNCHANGED <<file, granted, drawn, origin, family, revoked, registered>>
         /\ now' \in Nat /\ now' >= now
         /\ \A q \in Requests : pc'[q] # "idle" =>
              /\ pc[q] # "idle" /\ op'[q] = op[q]
              /\ pc'[q] = "returning" <=> pc[q] = "returning"
<1>1. CASE UNCHANGED vars
  BY <1>1 DEF vars, storeVars, clientVars, OAuthTyped
<1>2. ASSUME NEW r \in Requests,
             AcquireLock(r) \/ LockTimeout(r) \/ Mutate(r) \/ Throw(r) \/ Crash(r)
      PROVE  /\ UNCHANGED <<file, granted, drawn, origin, family, revoked, registered, now>>
             /\ \A q \in Requests : pc'[q] # "idle" =>
                  /\ pc[q] # "idle" /\ op'[q] = op[q]
                  /\ pc'[q] = "returning" <=> pc[q] = "returning"
  <2>1. UNCHANGED <<file, granted, drawn, origin, family, revoked, registered, now>>
    BY <1>2 DEF AcquireLock, LockTimeout, Mutate, Throw, Unlock, Crash, storeVars, clientVars
  <2>2. CASE AcquireLock(r)
    BY <2>1, <2>2 DEF AcquireLock, OAuthTyped
  <2>3. CASE LockTimeout(r)
    BY <2>1, <2>3 DEF LockTimeout, OAuthTyped
  <2>4. CASE Mutate(r)
    BY <2>1, <2>4 DEF Mutate, OAuthTyped
  <2>5. CASE Throw(r)
    BY <2>1, <2>5 DEF Throw, Unlock, OAuthTyped
  <2>6. CASE Crash(r)
    BY <2>1, <2>6 DEF Crash, OAuthTyped
  <2> QED
    BY <1>2, <2>2, <2>3, <2>4, <2>5, <2>6
<1>3. CASE Tick
  BY <1>3 DEF Tick, storeVars, clientVars, OAuthTyped
<1>4. now \in Nat
  BY DEF OAuthTyped
<1> QED
  BY <1>1, <1>2, <1>3, <1>4 DEF Next, BeginAny, Begins, Step

(* A request begins: its secret, if it draws one, is the next. *)
LEMMA BeginStep ==
  ASSUME OAuthTyped, NEW r \in Requests, NEW rq \in Ops({now}), Begin(r, rq)
  PROVE  /\ UNCHANGED <<file, copy, lockdir, granted, revoked, registered, now>>
         /\ pc[r] = "idle" /\ pc'[r] = "waiting" /\ op'[r].request = rq /\ Admissible(rq)
         /\ rq.at = now
         /\ \A q \in Requests \ {r} : pc'[q] = pc[q] /\ op'[q] = op[q]
         /\ Draws(rq) =>
              /\ drawn' = drawn + 1 /\ drawn' \in Secrets /\ op'[r].secret = drawn'
              /\ origin'[drawn'] = Presented(rq)
              /\ family'[drawn'] = IF Presented(rq) = 0 THEN family[drawn'] ELSE family[Presented(rq)]
              /\ \A s \in Secrets : s # drawn' => origin'[s] = origin[s] /\ family'[s] = family[s]
         /\ ~Draws(rq) => UNCHANGED <<drawn, origin, family>>
<1>1. /\ UNCHANGED <<file, copy, lockdir, granted, revoked, registered, now>>
      /\ pc[r] = "idle" /\ pc'[r] = "waiting" /\ Admissible(rq)
      /\ \A q \in Requests \ {r} : pc'[q] = pc[q]
  BY DEF Begin, storeVars, OAuthTyped
<1>2. rq.at = now
  BY DEF Ops
<1>3. DOMAIN op = Requests
  BY DEF OAuthTyped
<1>4. op'[r].request = rq /\ \A q \in Requests \ {r} : op'[q] = op[q]
  <2>1. CASE Draws(rq)
    BY <1>3, <2>1 DEF Begin
  <2>2. CASE ~Draws(rq)
    BY <1>3, <2>2 DEF Begin
  <2> QED
    BY <2>1, <2>2
<1>5. ASSUME Draws(rq)
      PROVE  /\ drawn' = drawn + 1 /\ drawn' \in Secrets /\ op'[r].secret = drawn'
             /\ origin'[drawn'] = Presented(rq)
             /\ family'[drawn'] = IF Presented(rq) = 0 THEN family[drawn'] ELSE family[Presented(rq)]
             /\ \A s \in Secrets : s # drawn' => origin'[s] = origin[s] /\ family'[s] = family[s]
  <2>1. /\ drawn' = drawn + 1 /\ drawn < MaxSecrets
        /\ origin' = [origin EXCEPT ![drawn + 1] = Presented(rq)]
        /\ family' = IF Presented(rq) = 0 THEN family
                     ELSE [family EXCEPT ![drawn + 1] = family[Presented(rq)]]
        /\ op' = [op EXCEPT ![r] = [request |-> rq, secret |-> drawn + 1]]
    BY <1>5 DEF Begin
  <2>2. drawn' \in Secrets
    BY <2>1, OAuthAssumption DEF OAuthTyped, Secrets
  <2>3. DOMAIN origin = Secrets /\ DOMAIN family = Secrets
    BY DEF OAuthTyped
  <2>4. op'[r].secret = drawn' /\ origin'[drawn'] = Presented(rq)
    BY <1>3, <2>1, <2>2, <2>3
  <2>5. family'[drawn'] = IF Presented(rq) = 0 THEN family[drawn'] ELSE family[Presented(rq)]
    BY <2>1, <2>2, <2>3
  <2>6. ASSUME NEW s \in Secrets, s # drawn'
        PROVE  origin'[s] = origin[s] /\ family'[s] = family[s]
    BY <2>1, <2>3, <2>6
  <2> QED
    BY <2>1, <2>2, <2>4, <2>5, <2>6
<1>6. ~Draws(rq) => UNCHANGED <<drawn, origin, family>>
  BY DEF Begin
<1> QED
  BY <1>1, <1>2, <1>4, <1>5, <1>6

(* A rename replaces the file by one mutation of it. *)
LEMMA RenameStep ==
  ASSUME OAuthInv, NEW r \in Requests, Rename(r)
  PROVE  /\ UNCHANGED <<granted, drawn, origin, family, revoked, registered, now, op, lockdir>>
         /\ pc[r] = "writing" /\ pc'[r] = "returning" /\ pc' = [pc EXCEPT ![r] = "returning"]
         /\ \A q \in Requests \ {r} : pc'[q] = pc[q] /\ ~Inside(q)
         /\ Asks(r) \in Ops(0..now) /\ Asks(r).at \in 0..now
         /\ Draws(Asks(r)) => Secret(r) \in Secrets /\ ~Has(file, Secret(r))
         /\ Evolves(file, file', Asks(r), Secret(r))
<1>1. /\ UNCHANGED <<granted, drawn, origin, family, revoked, registered, now, op, lockdir>>
      /\ pc[r] = "writing" /\ file' = copy[r]
      /\ pc' = [pc EXCEPT ![r] = "returning"]
  BY DEF Rename, clientVars
<1>2. \A q \in Requests \ {r} : pc'[q] = pc[q] /\ ~Inside(q)
  BY <1>1 DEF OAuthInv, OAuthTyped, LockInv, Inside
<1>3. pc'[r] = "returning"
  BY <1>1 DEF OAuthInv, OAuthTyped
<1>4. Asks(r) \in Ops(0..now) /\ 0..now \subseteq Nat /\ Asks(r).at \in 0..now
  BY <1>1, AskTyped DEF OAuthInv, OAuthTyped, InFlight
<1>5. Draws(Asks(r)) => Secret(r) \in Secrets /\ ~Has(file, Secret(r))
  BY <1>1, OAuthAssumption DEF OAuthInv, OAuthTyped, AskedInv, FreshInv, InFlight, Secrets
<1>6. copy[r] \in Written(file, Asks(r), Secret(r)) /\ file \in Files /\ Distinct(file)
  BY <1>1 DEF OAuthInv, OAuthTyped, CopyInv, RecordInv
<1>7. Evolves(file, file', Asks(r), Secret(r))
  BY <1>1, <1>4, <1>5, <1>6, WrittenEvolves
<1> QED
  BY <1>1, <1>2, <1>3, <1>4, <1>5, <1>7

(* A return tells the client what is in the file. *)
LEMMA ReturnStep ==
  ASSUME OAuthInv, NEW r \in Requests, Return(r)
  PROVE  /\ UNCHANGED <<file, drawn, origin, family, now>>
         /\ pc[r] = "returning" /\ pc'[r] = "idle"
         /\ \A q \in Requests \ {r} : pc'[q] = pc[q] /\ op'[q] = op[q] /\ ~Inside(q)
         /\ Asks(r) \in Ops(0..now)
         /\ \A s \in Secrets : s # Secret(r) => granted'[s] = granted[s]
         /\ ~Draws(Asks(r)) => granted' = granted
         /\ Draws(Asks(r)) =>
              /\ Secret(r) \in Secrets /\ Secret(r) \in 1..drawn /\ ~Given(Secret(r))
              /\ origin[Secret(r)] = Presented(Asks(r)) /\ Has(file, Secret(r))
              /\ granted'[Secret(r)].scopes = Told(Asks(r))
              /\ granted'[Secret(r)].code = (Asks(r).kind = "authorize")
              /\ granted'[Secret(r)].expires_at =
                   Asks(r).at + IF Asks(r).kind = "authorize" THEN CodeTtl ELSE RefreshTtl
         /\ revoked' = IF Revokes(Asks(r))
                       THEN revoked \cup {<<IF Asks(r).kind = "revoke_access" THEN "access"
                                            ELSE "refresh", Asks(r).token>>}
                       ELSE revoked
         /\ registered' = IF Asks(r).kind = "register" THEN registered \cup {Asks(r).client}
                          ELSE registered
<1> DEFINE rq == Asks(r)
           s == Secret(r)
<1>1. /\ UNCHANGED <<file, drawn, origin, family, now>> /\ pc[r] = "returning"
      /\ pc' = [pc EXCEPT ![r] = "idle"] /\ op' = [op EXCEPT ![r] = NoOp]
  BY DEF Return, Unlock
<1>2. \A q \in Requests \ {r} : pc'[q] = pc[q] /\ op'[q] = op[q] /\ ~Inside(q)
  BY <1>1 DEF OAuthInv, OAuthTyped, LockInv, Inside
<1>3. pc'[r] = "idle" /\ rq \in Ops(0..now) /\ DOMAIN granted = Secrets
  BY <1>1 DEF OAuthInv, OAuthTyped, InFlight
<1>4. ASSUME Draws(rq)
      PROVE  s \in Secrets /\ s \in 1..drawn /\ ~Given(s) /\ origin[s] = Presented(rq) /\ Has(file, s)
  <2>1. s \in Secrets /\ s \in 1..drawn /\ ~Given(s) /\ origin[s] = Presented(rq)
    BY <1>1, <1>4, OAuthAssumption DEF OAuthInv, OAuthTyped, AskedInv, InFlight, Secrets
  <2>2. Has(file, s)
    BY <1>1, <1>4 DEF OAuthInv, DoneInv, Has, Draws
  <2> QED
    BY <2>1, <2>2
<1>5. /\ revoked' = IF Revokes(rq)
                    THEN revoked \cup {<<IF rq.kind = "revoke_access" THEN "access" ELSE "refresh",
                                         rq.token>>}
                    ELSE revoked
      /\ registered' = IF rq.kind = "register" THEN registered \cup {rq.client} ELSE registered
  BY DEF Return, Asks
<1>6. CASE rq.kind = "authorize"
  <2>1. granted' = [granted EXCEPT ![s] = [scopes |-> rq.scopes, expires_at |-> rq.at + CodeTtl,
                                           access_until |-> 0, code |-> TRUE]]
    BY <1>6 DEF Return, Asks, Secret
  <2>2. Told(rq) = rq.scopes /\ Draws(rq)
    BY <1>6 DEF Told, Draws
  <2> QED
    BY <1>1, <1>2, <1>3, <1>4, <1>5, <1>6, <2>1, <2>2
<1>7. CASE rq.kind # "authorize" /\ Draws(rq)
  <2> DEFINE told == IF rq.kind = "refresh" /\ rq.scopes # Null THEN rq.scopes
                     ELSE granted[Presented(rq)].scopes
  <2>1. granted' = [granted EXCEPT ![s] = [scopes |-> told, expires_at |-> rq.at + RefreshTtl,
                                           access_until |-> rq.at + AccessTtl, code |-> FALSE]]
    BY <1>7 DEF Return, Asks, Secret
  <2>2. Told(rq) = told
    BY <1>7 DEF Told
  <2> HIDE DEF told
  <2> QED
    BY <1>1, <1>2, <1>3, <1>4, <1>5, <1>7, <2>1, <2>2
<1>8. CASE ~Draws(rq)
  <2>1. granted' = granted
    BY <1>8 DEF Return, Asks, Draws
  <2> QED
    BY <1>1, <1>2, <1>3, <1>5, <1>8, <2>1
<1> QED
  BY <1>6, <1>7, <1>8
-----------------------------------------------------------------------------
(* The invariants, one by one.                                             *)

(* The lock directory has one maker, whoever takes, drops or leaves it. *)
LEMMA LockKept ==
  ASSUME OAuthTyped, LockInv, [Next]_vars
  PROVE  LockInv'
<1>1. CASE UNCHANGED vars
  BY <1>1 DEF vars, storeVars, LockInv, Inside
<1>2. ASSUME NEW r \in Requests, NEW rq \in Ops({now}), Begin(r, rq)
      PROVE  LockInv'
  BY <1>2 DEF Begin, storeVars, OAuthTyped, LockInv, Inside
<1>3. ASSUME NEW r \in Requests, AcquireLock(r)
      PROVE  LockInv'
  BY <1>3, OAuthAssumption DEF AcquireLock, OAuthTyped, LockInv, Inside
<1>4. ASSUME NEW r \in Requests, LockTimeout(r)
      PROVE  LockInv'
  BY <1>4 DEF LockTimeout, storeVars, OAuthTyped, LockInv, Inside
<1>5. ASSUME NEW r \in Requests, Mutate(r)
      PROVE  LockInv'
  BY <1>5 DEF Mutate, OAuthTyped, LockInv, Inside
<1>6. ASSUME NEW r \in Requests, Rename(r)
      PROVE  LockInv'
  BY <1>6 DEF Rename, OAuthTyped, LockInv, Inside
<1>7. ASSUME NEW r \in Requests, pc[r] \in {"reading", "returning"}, Unlock(r)
      PROVE  LockInv'
  BY <1>7 DEF Unlock, OAuthTyped, LockInv, Inside
<1>8. ASSUME NEW r \in Requests, Crash(r)
      PROVE  LockInv'
  BY <1>8 DEF Crash, OAuthTyped, LockInv, Inside
<1>9. CASE Tick
  BY <1>9 DEF Tick, storeVars, LockInv, Inside
<1> QED
  BY <1>1, <1>2, <1>3, <1>4, <1>5, <1>6, <1>7, <1>8, <1>9
  DEF Next, BeginAny, Step, Return, Throw

(* What a client was told does not change. *)
LEMMA GrantsStand ==
  ASSUME OAuthInv, [Next]_vars, NEW s \in Secrets, Given(s)
  PROVE  granted'[s] = granted[s] /\ Given(s)'
<1>1. CASE \A r \in Requests : ~Begins(r) /\ ~Rename(r) /\ ~Return(r)
  BY <1>1, QuietStep DEF OAuthInv, Given
<1>2. ASSUME NEW r \in Requests, NEW rq \in Ops({now}), Begin(r, rq)
      PROVE  granted' = granted
  BY <1>2, BeginStep DEF OAuthInv
<1>3. ASSUME NEW r \in Requests, Rename(r)
      PROVE  granted' = granted
  BY <1>3, RenameStep
<1>4. ASSUME NEW r \in Requests, Return(r)
      PROVE  granted'[s] = granted[s]
  <2>1. /\ s # Secret(r) => granted'[s] = granted[s]
        /\ ~Draws(Asks(r)) => granted' = granted
        /\ Draws(Asks(r)) => ~Given(Secret(r))
    BY <1>4, ReturnStep
  <2> QED
    BY <2>1
<1> QED
  BY <1>1, <1>2, <1>3, <1>4 DEF Begins, Given

(* A request keeps what it drew and presents what was given. *)
LEMMA AskedKept ==
  ASSUME OAuthInv, [Next]_vars
  PROVE  AskedInv'
<1>0. /\ OAuthTyped /\ AskedInv /\ OwnInv /\ SecretInv
      /\ drawn \in Nat /\ 1..drawn \subseteq Secrets
  BY OAuthAssumption DEF OAuthInv, OAuthTyped, Secrets
<1>1. CASE \A r \in Requests : ~Begins(r) /\ ~Rename(r) /\ ~Return(r)
  BY <1>0, <1>1, QuietStep DEF AskedInv, InFlight, Asks, Secret, Given
<1>2. ASSUME NEW r \in Requests, NEW rq \in Ops({now}), Begin(r, rq)
      PROVE  AskedInv'
  <2>1. /\ granted' = granted
        /\ pc[r] = "idle" /\ op'[r].request = rq /\ Admissible(rq)
        /\ \A q \in Requests \ {r} : pc'[q] = pc[q] /\ op'[q] = op[q]
        /\ Draws(rq) => /\ drawn' = drawn + 1 /\ drawn' \in Secrets /\ op'[r].secret = drawn'
                        /\ origin'[drawn'] = Presented(rq)
                        /\ \A s \in Secrets : s # drawn' => origin'[s] = origin[s]
        /\ ~Draws(rq) => drawn' = drawn /\ origin' = origin
    BY <1>0, <1>2, BeginStep
  <2>2. /\ rq.kind = "authorize" => rq.scopes \subseteq Allowed[rq.subject]
        /\ rq.kind = "exchange" => Given(rq.code)
        /\ rq.kind \in {"refresh", "revoke_refresh"} => Given(rq.token)
    BY <2>1 DEF Admissible, Given
  <2>3. Draws(rq) => drawn' \in 1..drawn' /\ ~Given(drawn')
    BY <1>0, <2>1 DEF SecretInv
  <2>4. ASSUME NEW q \in Requests \ {r}, InFlight(q), Draws(Asks(q))
        PROVE  Secret(q) \in 1..drawn' /\ origin'[Secret(q)] = origin[Secret(q)]
    <3>1. Secret(q) \in 1..drawn
      BY <1>0, <2>4 DEF AskedInv
    <3> QED
      BY <1>0, <2>1, <3>1
  <2>5. ASSUME NEW q \in Requests \ {r}
        PROVE  InFlight(q)' = InFlight(q) /\ Asks(q)' = Asks(q) /\ Secret(q)' = Secret(q)
    BY <2>1 DEF InFlight, Asks, Secret
  <2>6. Asks(r)' = rq /\ (Draws(rq) => Secret(r)' = drawn')
    BY <2>1 DEF Asks, Secret
  <2> QED
    BY <1>0, <2>1, <2>2, <2>3, <2>4, <2>5, <2>6 DEF AskedInv, Given
<1>3. ASSUME NEW r \in Requests, Rename(r)
      PROVE  AskedInv'
  BY <1>0, <1>3, RenameStep DEF AskedInv, InFlight, Asks, Secret, Given
<1>4. ASSUME NEW r \in Requests, Return(r)
      PROVE  AskedInv'
  <2>1. /\ UNCHANGED <<drawn, origin>> /\ pc[r] # "idle" /\ pc'[r] = "idle"
        /\ \A q \in Requests \ {r} : pc'[q] = pc[q] /\ op'[q] = op[q]
        /\ \A s \in Secrets : s # Secret(r) => granted'[s] = granted[s]
        /\ ~Draws(Asks(r)) => granted' = granted
    BY <1>4, ReturnStep
  <2>2. ASSUME NEW s \in Secrets, Given(s)
        PROVE  granted'[s] # Null
    BY <2>2, GrantsStand DEF Given
  <2>3. ASSUME NEW q \in Requests, InFlight(q)'
        PROVE  /\ Asks(q)' = Asks(q) /\ Secret(q)' = Secret(q) /\ InFlight(q)
               /\ Draws(Asks(q)) => /\ Secret(q) \in 1..drawn /\ granted'[Secret(q)] = Null
                                    /\ origin[Secret(q)] = Presented(Asks(q))
               /\ Asks(q).kind = "authorize" => Asks(q).scopes \subseteq Allowed[Asks(q).subject]
               /\ Asks(q).kind = "exchange" => granted'[Asks(q).code] # Null
               /\ Asks(q).kind \in {"refresh", "revoke_refresh"} => granted'[Asks(q).token] # Null
    <3>1. q # r /\ InFlight(q) /\ Asks(q)' = Asks(q) /\ Secret(q)' = Secret(q) /\ InFlight(r)
      BY <2>1, <2>3 DEF InFlight, Asks, Secret
    <3>2. Asks(q) \in Ops(0..now)
      BY <1>0, <3>1 DEF OAuthTyped
    <3>3. /\ Asks(q).kind = "exchange" => Asks(q).code \in Secrets
          /\ Asks(q).kind \in {"refresh", "revoke_refresh"} => Asks(q).token \in Secrets
      BY <3>2, AskTyped
    <3>4. Draws(Asks(q)) => granted'[Secret(q)] = Null
      BY <1>0, <2>1, <3>1 DEF AskedInv, OwnInv, Given
    <3> QED
      BY <1>0, <2>2, <3>1, <3>3, <3>4 DEF AskedInv
  <2> QED
    BY <2>1, <2>3 DEF AskedInv, Given
<1> QED
  BY <1>1, <1>2, <1>3, <1>4 DEF Begins

(* No two requests in flight drew the same secret. *)
LEMMA OwnKept ==
  ASSUME OAuthInv, [Next]_vars
  PROVE  OwnInv'
<1>0. /\ OAuthTyped /\ AskedInv /\ OwnInv /\ SecretInv
      /\ drawn \in Nat /\ 1..drawn \subseteq Secrets
  BY OAuthAssumption DEF OAuthInv, OAuthTyped, Secrets
<1>1. CASE \A r \in Requests : ~Begins(r) /\ ~Rename(r) /\ ~Return(r)
  BY <1>0, <1>1, QuietStep DEF OwnInv, InFlight, Asks, Secret
<1>2. ASSUME NEW r \in Requests, NEW rq \in Ops({now}), Begin(r, rq)
      PROVE  OwnInv'
  <2>1. /\ op'[r].request = rq
        /\ \A q \in Requests \ {r} : pc'[q] = pc[q] /\ op'[q] = op[q]
        /\ Draws(rq) => drawn' = drawn + 1 /\ op'[r].secret = drawn'
    BY <1>0, <1>2, BeginStep
  <2>2. ASSUME NEW q \in Requests \ {r}
        PROVE  /\ InFlight(q)' = InFlight(q) /\ Asks(q)' = Asks(q) /\ Secret(q)' = Secret(q)
               /\ InFlight(q) /\ Draws(Asks(q)) => Secret(q) \in 1..drawn
    BY <1>0, <2>1 DEF InFlight, Asks, Secret, AskedInv
  <2>3. Asks(r)' = rq /\ (Draws(rq) => Secret(r)' = drawn + 1)
    BY <2>1 DEF Asks, Secret
  <2> QED
    BY <1>0, <2>2, <2>3 DEF OwnInv
<1>3. ASSUME NEW r \in Requests, Rename(r)
      PROVE  OwnInv'
  BY <1>0, <1>3, RenameStep DEF OwnInv, InFlight, Asks, Secret
<1>4. ASSUME NEW r \in Requests, Return(r)
      PROVE  OwnInv'
  BY <1>0, <1>4, ReturnStep DEF OwnInv, InFlight, Asks, Secret
<1> QED
  BY <1>1, <1>2, <1>3, <1>4 DEF Begins

(* A new secret descends from one that was given. *)
LEMMA SecretKept ==
  ASSUME OAuthInv, [Next]_vars
  PROVE  SecretInv'
<1>0. /\ OAuthTyped /\ AskedInv /\ SecretInv /\ drawn \in Nat /\ 0 \notin Secrets
      /\ origin \in [Secrets -> 0..MaxSecrets] /\ family \in [Secrets -> Secrets]
      /\ 1..MaxSecrets = Secrets /\ MaxSecrets \in Nat
  BY OAuthAssumption DEF OAuthInv, OAuthTyped, Secrets
<1>1. CASE \A r \in Requests : ~Begins(r) /\ ~Rename(r) /\ ~Return(r)
  BY <1>0, <1>1, QuietStep DEF SecretInv, Given
<1>2. ASSUME NEW r \in Requests, NEW rq \in Ops({now}), Begin(r, rq)
      PROVE  SecretInv'
  <2>1. /\ granted' = granted /\ Admissible(rq)
        /\ Draws(rq) =>
             /\ drawn' = drawn + 1 /\ drawn' \in Secrets
             /\ origin'[drawn'] = Presented(rq)
             /\ family'[drawn'] = IF Presented(rq) = 0 THEN family[drawn'] ELSE family[Presented(rq)]
             /\ \A s \in Secrets : s # drawn' => origin'[s] = origin[s] /\ family'[s] = family[s]
        /\ ~Draws(rq) => UNCHANGED <<drawn, origin, family>>
    BY <1>0, <1>2, BeginStep
  <2>2. CASE ~Draws(rq)
    BY <1>0, <2>1, <2>2 DEF SecretInv, Given
  <2>3. CASE Draws(rq)
    <3>1. Presented(rq) # 0 => Presented(rq) \in Secrets /\ Given(Presented(rq))
      BY <2>1, <2>3, AskTyped DEF Presented, Admissible, Draws, Given
    <3>2. PICK n \in Secrets : n = drawn'
      BY <2>1, <2>3
    <3>3. ~Given(n) /\ origin[n] = 0 /\ family[n] = n
      BY <1>0, <2>1, <2>3, <3>2 DEF SecretInv
    <3>4. PICK p : p = Presented(rq)
      OBVIOUS
    <3>5. /\ origin'[n] = p /\ (p # 0 => p \in Secrets /\ Given(p) /\ p # n)
          /\ family'[n] = IF p = 0 THEN n ELSE family[p]
      BY <2>1, <2>3, <3>1, <3>2, <3>3, <3>4
    <3>6. p # 0 => family'[p] = family[p] /\ (family[p] = p \/ Given(family[p]))
      BY <1>0, <2>1, <2>3, <3>2, <3>5 DEF SecretInv
    <3>7. ASSUME NEW s \in Secrets, s # n
          PROVE  /\ origin'[s] = origin[s] /\ family'[s] = family[s]
                 /\ s > drawn' => s > drawn
                 /\ origin[s] # 0 => origin[s] # n /\ origin[s] \in Secrets
      BY <1>0, <2>1, <2>3, <3>2, <3>3, <3>7 DEF SecretInv
    <3>8. ASSUME NEW s \in Secrets, s # n, origin[s] # 0
          PROVE  family'[origin[s]] = family[origin[s]]
      BY <2>1, <2>3, <3>2, <3>7, <3>8
    <3>9. /\ n > drawn' => ~Given(n) /\ origin'[n] = 0
          /\ origin'[n] # 0 => Given(origin'[n])
          /\ family'[n] = IF origin'[n] = 0 THEN n ELSE family'[origin'[n]]
          /\ family'[n] = n \/ Given(family'[n])
      BY <1>0, <2>1, <2>3, <3>2, <3>5, <3>6
    <3>10. ASSUME NEW s \in Secrets, s # n
           PROVE  /\ s > drawn' => ~Given(s) /\ origin'[s] = 0
                  /\ origin'[s] # 0 => Given(origin'[s])
                  /\ family'[s] = IF origin'[s] = 0 THEN s ELSE family'[origin'[s]]
                  /\ family'[s] = s \/ Given(family'[s])
      BY <1>0, <3>7, <3>8, <3>10 DEF SecretInv
    <3> QED
      BY <2>1, <3>9, <3>10 DEF SecretInv, Given
  <2> QED
    BY <2>2, <2>3
<1>3. ASSUME NEW r \in Requests, Rename(r)
      PROVE  SecretInv'
  BY <1>0, <1>3, RenameStep DEF SecretInv, Given
<1>4. ASSUME NEW r \in Requests, Return(r)
      PROVE  SecretInv'
  <2>1. /\ UNCHANGED <<drawn, origin, family>>
        /\ \A s \in Secrets : s # Secret(r) => granted'[s] = granted[s]
        /\ ~Draws(Asks(r)) => granted' = granted
        /\ Draws(Asks(r)) => Secret(r) \in 1..drawn
    BY <1>4, ReturnStep
  <2>2. ASSUME NEW s \in Secrets, Given(s)
        PROVE  granted'[s] # Null
    BY <2>2, GrantsStand DEF Given
  <2>3. ASSUME NEW s \in Secrets, s > drawn
        PROVE  granted'[s] = Null
    BY <1>0, <2>1, <2>3 DEF SecretInv, Given
  <2>4. \A s \in Secrets : origin[s] # 0 => origin[s] \in Secrets
    BY <1>0
  <2> QED
    BY <1>0, <2>1, <2>2, <2>3, <2>4 DEF SecretInv, Given
<1> QED
  BY <1>1, <1>2, <1>3, <1>4 DEF Begins

(* What a rename puts into the file was there or is its request's secret. *)
LEMMA RenamedRecords ==
  ASSUME OAuthInv, NEW r \in Requests, Rename(r), NEW s, Has(file', s)
  PROVE  Has(file, s) \/ (Draws(Asks(r)) /\ s = Secret(r))
<1>1. /\ \A c \in file'.codes : OldCode(file, c) \/ DrawnCode(c, Asks(r), Secret(r))
      /\ \A t \in file'.tokens : OldToken(file, t) \/ DrawnToken(file, t, Asks(r), Secret(r))
  BY RenameStep DEF Evolves
<1> QED
  BY <1>1 DEF Has, OldCode, OldToken, DrawnCode, DrawnToken, Draws

(* What a request drew is not in the file before it renames. *)
LEMMA FreshKept ==
  ASSUME OAuthInv, [Next]_vars
  PROVE  FreshInv'
<1>0. /\ OAuthTyped /\ AskedInv /\ OwnInv /\ FreshInv /\ drawn \in Nat
      /\ Secrets \subseteq Nat
  BY OAuthAssumption DEF OAuthInv, OAuthTyped, Secrets
<1>1. CASE \A r \in Requests : ~Begins(r) /\ ~Rename(r) /\ ~Return(r)
  <2>1. /\ UNCHANGED <<file, drawn>>
        /\ \A q \in Requests : pc'[q] # "idle" =>
              /\ pc[q] # "idle" /\ op'[q] = op[q]
              /\ pc'[q] = "returning" <=> pc[q] = "returning"
    BY <1>0, <1>1, QuietStep
  <2>2. \A q \in Requests : pc'[q] \in {"waiting", "reading", "writing"} =>
           pc[q] \in {"waiting", "reading", "writing"} /\ op'[q] = op[q]
    BY <1>0, <2>1 DEF OAuthTyped, PCs
  <2> QED
    BY <1>0, <2>1, <2>2 DEF FreshInv, Asks, Secret, Has
<1>2. ASSUME NEW r \in Requests, NEW rq \in Ops({now}), Begin(r, rq)
      PROVE  FreshInv'
  <2>1. /\ file' = file /\ op'[r].request = rq
        /\ \A q \in Requests \ {r} : pc'[q] = pc[q] /\ op'[q] = op[q]
        /\ Draws(rq) => drawn' = drawn + 1 /\ op'[r].secret = drawn' /\ drawn' \in Secrets
        /\ ~Draws(rq) => drawn' = drawn
    BY <1>0, <1>2, BeginStep
  <2>2. ASSUME Draws(rq)
        PROVE  ~Has(file, drawn')
    BY <1>0, <2>1, <2>2 DEF FreshInv
  <2>3. ASSUME NEW s \in Secrets, Has(file, s)
        PROVE  s <= drawn'
    BY <1>0, <2>1, <2>3 DEF FreshInv
  <2>4. ASSUME NEW q \in Requests, pc'[q] \in {"waiting", "reading", "writing"}, Draws(op'[q].request)
        PROVE  ~Has(file, op'[q].secret)
    <3>1. CASE q = r
      BY <2>1, <2>2, <2>4, <3>1
    <3>2. CASE q # r
      BY <1>0, <2>1, <2>4, <3>2 DEF FreshInv, Asks, Secret
    <3> QED
      BY <3>1, <3>2
  <2> QED
    BY <2>1, <2>3, <2>4 DEF FreshInv, Asks, Secret, Has
<1>3. ASSUME NEW r \in Requests, Rename(r)
      PROVE  FreshInv'
  <2>1. /\ drawn' = drawn /\ op' = op /\ pc[r] = "writing" /\ pc'[r] = "returning"
        /\ \A q \in Requests \ {r} : pc'[q] = pc[q]
    BY <1>3, RenameStep
  <2>2. \A s : Has(file', s) => Has(file, s) \/ (Draws(Asks(r)) /\ s = Secret(r))
    BY <1>3, RenamedRecords
  <2>3. Draws(Asks(r)) => Secret(r) \in 1..drawn
    BY <1>0, <2>1 DEF AskedInv, InFlight
  <2>4. ASSUME NEW s \in Secrets, Has(file', s)
        PROVE  s <= drawn
    BY <1>0, <2>2, <2>3, <2>4 DEF FreshInv
  <2>5. ASSUME NEW q \in Requests, pc'[q] \in {"waiting", "reading", "writing"}, Draws(Asks(q))
        PROVE  ~Has(file', Secret(q))
    <3>1. q # r /\ InFlight(q) /\ InFlight(r) /\ ~Has(file, Secret(q))
      BY <1>0, <2>1, <2>5 DEF FreshInv, InFlight
    <3> QED
      BY <1>0, <2>2, <2>5, <3>1 DEF OwnInv
  <2> QED
    BY <2>1, <2>4, <2>5 DEF FreshInv, Asks, Secret, Has
<1>4. ASSUME NEW r \in Requests, Return(r)
      PROVE  FreshInv'
  <2>1. /\ UNCHANGED <<file, drawn>> /\ pc'[r] = "idle"
        /\ \A q \in Requests \ {r} : pc'[q] = pc[q] /\ op'[q] = op[q]
    BY <1>4, ReturnStep
  <2> QED
    BY <1>0, <2>1 DEF FreshInv, Asks, Secret, Has
<1> QED
  BY <1>1, <1>2, <1>3, <1>4 DEF Begins

(* The same of what works; no other request holds the drawn secret yet. *)
LEMMA RenamedUsable ==
  ASSUME OAuthInv, NEW r \in Requests, Rename(r), NEW s, Usable(file', s)
  PROVE  Usable(file, s) \/ (Draws(Asks(r)) /\ s = Secret(r))
<1>1. /\ \A c \in file'.codes : OldCode(file, c) \/ DrawnCode(c, Asks(r), Secret(r))
      /\ \A t \in file'.tokens : OldToken(file, t) \/ DrawnToken(file, t, Asks(r), Secret(r))
  BY RenameStep DEF Evolves
<1> QED
  BY <1>1 DEF Usable, OldCode, OldToken, DrawnCode, DrawnToken, Draws

(* What a request about to rename draws, and what it presents for it. *)
LEMMA RenamedSecret ==
  ASSUME OAuthInv, NEW r \in Requests, Rename(r), Draws(Asks(r))
  PROVE  /\ Secret(r) \in Secrets /\ Secret(r) <= drawn
         /\ ~Given(Secret(r)) /\ ~Has(file, Secret(r))
         /\ origin[Secret(r)] = Presented(Asks(r))
         /\ Asks(r).kind = "authorize" => Presented(Asks(r)) = 0
         /\ Asks(r).kind # "authorize" =>
              /\ Presented(Asks(r)) \in Secrets /\ Presented(Asks(r)) # 0
              /\ Given(Presented(Asks(r)))
              /\ Usable(file, Presented(Asks(r))) /\ ~Usable(file', Presented(Asks(r)))
<1>1. /\ pc[r] = "writing" /\ Secret(r) \in Secrets /\ ~Has(file, Secret(r))
      /\ Asks(r) \in Ops(0..now) /\ Evolves(file, file', Asks(r), Secret(r))
  BY RenameStep
<1>2. Secret(r) \in 1..drawn /\ ~Given(Secret(r)) /\ origin[Secret(r)] = Presented(Asks(r))
  BY <1>1 DEF OAuthInv, AskedInv, InFlight
<1>3. Asks(r).kind = "authorize" => Presented(Asks(r)) = 0
  BY DEF Presented
<1>4. ASSUME Asks(r).kind # "authorize"
      PROVE  /\ Presented(Asks(r)) \in Secrets /\ Presented(Asks(r)) # 0
             /\ Given(Presented(Asks(r)))
             /\ Usable(file, Presented(Asks(r))) /\ ~Usable(file', Presented(Asks(r)))
  <2>1. Asks(r).kind \in {"exchange", "refresh"}
    BY <1>4 DEF Draws
  <2>2. Presented(Asks(r)) \in Secrets
    BY <1>1, <2>1, AskTyped DEF Presented
  <2>3. Given(Presented(Asks(r)))
    BY <1>1, <2>1 DEF Presented, OAuthInv, AskedInv, InFlight
  <2> QED
    BY <1>1, <2>1, <2>2, <2>3, OAuthAssumption DEF Evolves, Secrets
<1> QED
  BY <1>1, <1>2, <1>3, <1>4, OAuthAssumption DEF OAuthInv, OAuthTyped

(* Records tell what clients were told: what is renamed was drawn or there, *)
(* and what is answered is in the file.                                     *)
LEMMA RecordKept ==
  ASSUME OAuthInv, [Next]_vars
  PROVE  RecordInv'
<1>0. /\ OAuthTyped /\ FreshInv /\ RecordInv /\ drawn \in Nat /\ Secrets \subseteq Nat
      /\ 0 \notin Secrets
      /\ \A c \in file.codes : c.digest \in Secrets
      /\ \A t \in file.tokens : t.digest \in Secrets
  BY OAuthAssumption DEF OAuthInv, OAuthTyped, Secrets, Files, Codes, Tokens
<1>1. CASE \A r \in Requests : ~Begins(r) /\ ~Rename(r) /\ ~Return(r)
  BY <1>0, <1>1, QuietStep DEF RecordInv, Distinct, Tells, Given
<1>2. ASSUME NEW r \in Requests, NEW rq \in Ops({now}), Begin(r, rq)
      PROVE  RecordInv'
  <2>1. /\ file' = file /\ granted' = granted
        /\ Draws(rq) => /\ drawn' = drawn + 1
                        /\ \A s \in Secrets : s # drawn' => origin'[s] = origin[s]
        /\ ~Draws(rq) => origin' = origin
    BY <1>0, <1>2, BeginStep
  <2>2. ASSUME NEW s \in Secrets, Has(file, s)
        PROVE  origin'[s] = origin[s]
    BY <1>0, <2>1, <2>2 DEF FreshInv
  <2> QED
    BY <1>0, <2>1, <2>2 DEF RecordInv, Distinct, Tells, Given, Has
<1>3. ASSUME NEW r \in Requests, Rename(r)
      PROVE  RecordInv'
  <2>1. /\ granted' = granted /\ origin' = origin /\ pc[r] = "writing"
        /\ Asks(r) \in Ops(0..now) /\ Evolves(file, file', Asks(r), Secret(r))
    BY <1>3, RenameStep
  <2>2. ASSUME NEW c \in file'.codes
        PROVE  Tells(c, TRUE)
    <3>1. CASE OldCode(file, c)
      BY <1>0, <3>1 DEF OldCode, RecordInv, Tells
    <3>2. CASE DrawnCode(c, Asks(r), Secret(r))
      <4>1. Asks(r).kind = "authorize" /\ Draws(Asks(r))
        BY <3>2 DEF DrawnCode, Draws
      <4>2. /\ Asks(r).scopes \subseteq Allowed[Asks(r).subject]
            /\ origin[Secret(r)] = 0 /\ ~Given(Secret(r))
        BY <1>3, <2>1, <4>1, RenamedSecret DEF OAuthInv, AskedInv, InFlight
      <4> QED
        BY <3>2, <4>2 DEF DrawnCode, Tells
    <3> QED
      BY <2>1, <3>1, <3>2 DEF Evolves
  <2>3. ASSUME NEW t \in file'.tokens
        PROVE  Tells(t, FALSE)
    <3>1. CASE OldToken(file, t)
      BY <1>0, <3>1 DEF OldToken, RecordInv, Tells
    <3>2. CASE DrawnToken(file, t, Asks(r), Secret(r))
      <4>1. Asks(r).kind # "authorize" /\ Draws(Asks(r)) /\ t.digest = Secret(r)
        BY <3>2 DEF DrawnToken, Draws
      <4>2. origin[Secret(r)] # 0 /\ ~Given(Secret(r))
        BY <1>3, <4>1, RenamedSecret
      <4>3. t.scopes \subseteq Allowed[t.subject]
        <5>1. CASE Asks(r).kind = "exchange"
          <6>1. PICK c \in CodeRecords(file, Asks(r)) : t.subject = c.subject /\ t.scopes = c.scopes
            BY <3>2, <5>1 DEF DrawnToken
          <6> QED
            BY <1>0, <6>1 DEF CodeRecords, RecordInv, Tells
        <5>2. CASE Asks(r).kind = "refresh"
          <6>1. PICK u \in TokenRecords(file, Asks(r)) :
                   t.subject = u.subject /\ t.scopes \subseteq u.scopes
            BY <3>2, <5>2 DEF DrawnToken
          <6> QED
            BY <1>0, <6>1 DEF TokenRecords, RecordInv, Tells
        <5> QED
          BY <3>2, <5>1, <5>2 DEF DrawnToken
      <4> QED
        BY <4>1, <4>2, <4>3 DEF Tells
    <3> QED
      BY <2>1, <3>1, <3>2 DEF Evolves
  <2> QED
    BY <2>1, <2>2, <2>3 DEF RecordInv, Evolves, Distinct, Tells, Given
<1>4. ASSUME NEW r \in Requests, Return(r)
      PROVE  RecordInv'
  <2> DEFINE z == Secret(r)
  <2>1. /\ file' = file /\ origin' = origin /\ pc[r] = "returning"
        /\ \A s \in Secrets : s # z => granted'[s] = granted[s]
        /\ ~Draws(Asks(r)) => granted' = granted
        /\ Draws(Asks(r)) =>
             /\ granted'[z].scopes = Told(Asks(r))
             /\ granted'[z].code = (Asks(r).kind = "authorize")
             /\ granted'[z].expires_at =
                  Asks(r).at + IF Asks(r).kind = "authorize" THEN CodeTtl ELSE RefreshTtl
    BY <1>4, ReturnStep
  <2>2. /\ Asks(r).kind = "authorize" =>
             \E c \in file.codes : c.digest = z /\ c.scopes = Told(Asks(r))
                                   /\ c.expires_at = Asks(r).at + CodeTtl
        /\ Asks(r).kind \in {"exchange", "refresh"} =>
             \E t \in file.tokens : t.digest = z /\ t.scopes = Told(Asks(r))
                                    /\ t.expires_at = Asks(r).at + RefreshTtl
    BY <2>1 DEF OAuthInv, DoneInv
  <2>3. Distinct(file)
    BY <1>0 DEF RecordInv
  <2>4. ASSUME NEW c \in file.codes, c.digest = z, Draws(Asks(r))
        PROVE  /\ granted'[z].scopes = c.scopes /\ granted'[z].expires_at = c.expires_at
               /\ granted'[z].code = TRUE
    BY <2>1, <2>2, <2>3, <2>4 DEF Draws, Distinct
  <2>5. ASSUME NEW t \in file.tokens, t.digest = z, Draws(Asks(r))
        PROVE  /\ granted'[z].scopes = t.scopes /\ granted'[z].expires_at = t.expires_at
               /\ granted'[z].code = FALSE
    <3>1. Asks(r).kind \in {"exchange", "refresh"} /\ Asks(r).kind # "authorize"
      BY <2>2, <2>3, <2>5 DEF Draws, Distinct
    <3>2. PICK u \in file.tokens : u.digest = z /\ u.scopes = Told(Asks(r))
                                    /\ u.expires_at = Asks(r).at + RefreshTtl
      BY <2>2, <3>1
    <3>3. t = u
      BY <2>3, <2>5, <3>2 DEF Distinct
    <3>4. granted'[z].code = FALSE
      BY <2>1, <2>5, <3>1
    <3> QED
      BY <2>1, <2>5, <3>1, <3>2, <3>3, <3>4
  <2>6. ASSUME NEW c \in file.codes
        PROVE  /\ c.scopes \subseteq Allowed[c.subject] /\ (origin[c.digest] = 0) = TRUE
               /\ granted'[c.digest] # Null =>
                    /\ granted'[c.digest].scopes = c.scopes
                    /\ granted'[c.digest].expires_at = c.expires_at
                    /\ granted'[c.digest].code = TRUE
    <3>1. c.digest \in Secrets /\ Tells(c, TRUE)
      BY <1>0 DEF RecordInv
    <3>2. CASE c.digest = z /\ Draws(Asks(r))
      BY <2>4, <3>1, <3>2 DEF Tells
    <3>3. CASE ~(c.digest = z /\ Draws(Asks(r)))
      BY <2>1, <3>1, <3>3 DEF Tells, Given
    <3> QED
      BY <3>2, <3>3
  <2>7. ASSUME NEW t \in file.tokens
        PROVE  /\ t.scopes \subseteq Allowed[t.subject] /\ (origin[t.digest] = 0) = FALSE
               /\ granted'[t.digest] # Null =>
                    /\ granted'[t.digest].scopes = t.scopes
                    /\ granted'[t.digest].expires_at = t.expires_at
                    /\ granted'[t.digest].code = FALSE
    <3>1. t.digest \in Secrets /\ Tells(t, FALSE)
      BY <1>0 DEF RecordInv
    <3>2. CASE t.digest = z /\ Draws(Asks(r))
      BY <2>5, <3>1, <3>2 DEF Tells
    <3>3. CASE ~(t.digest = z /\ Draws(Asks(r)))
      BY <2>1, <3>1, <3>3 DEF Tells, Given
    <3> QED
      BY <3>2, <3>3
  <2> QED
    BY <2>1, <2>3, <2>6, <2>7 DEF RecordInv, Distinct, Tells, Given
<1> QED
  BY <1>1, <1>2, <1>3, <1>4 DEF Begins

(* Whatever has a successor no longer works, and has one only. *)
LEMMA SpentKept ==
  ASSUME OAuthInv, [Next]_vars
  PROVE  SpentInv'
<1>0. /\ OAuthTyped /\ FreshInv /\ SecretInv /\ SpentInv /\ drawn \in Nat
      /\ \A s \in Secrets : s \in Nat /\ s # 0
      /\ \A s \in Secrets : origin[s] # 0 => origin[s] \in Secrets
  BY OAuthAssumption DEF OAuthInv, OAuthTyped, Secrets
<1>1. CASE \A r \in Requests : ~Begins(r) /\ ~Rename(r) /\ ~Return(r)
  BY <1>0, <1>1, QuietStep DEF SpentInv, Issued, Usable, Has, Given
<1>2. ASSUME NEW r \in Requests, NEW rq \in Ops({now}), Begin(r, rq)
      PROVE  SpentInv'
  <2>1. /\ file' = file /\ granted' = granted
        /\ Draws(rq) => /\ drawn' = drawn + 1
                        /\ \A s \in Secrets : s # drawn' => origin'[s] = origin[s]
        /\ ~Draws(rq) => origin' = origin
    BY <1>0, <1>2, BeginStep
  <2>2. ASSUME NEW s \in Secrets, Issued(s)
        PROVE  origin'[s] = origin[s]
    BY <1>0, <2>1, <2>2 DEF FreshInv, SecretInv, Issued
  <2> QED
    BY <1>0, <2>1, <2>2 DEF SpentInv, Issued, Usable, Has, Given
<1>3. ASSUME NEW r \in Requests, Rename(r)
      PROVE  SpentInv'
  <2> DEFINE z == Secret(r)
             p == Presented(Asks(r))
  <2>1. granted' = granted /\ origin' = origin
    BY <1>3, RenameStep
  <2>2. Draws(Asks(r)) =>
          /\ z \in Secrets /\ ~Given(z) /\ ~Has(file, z) /\ origin[z] = p
          /\ p # 0 => p \in Secrets /\ Usable(file, p) /\ ~Usable(file', p)
    BY <1>3, RenamedSecret
  <2>3. ASSUME NEW s \in Secrets, Given(s) \/ Has(file', s)
        PROVE  Issued(s) \/ (Draws(Asks(r)) /\ s = z)
    BY <1>3, <2>3, RenamedRecords DEF Issued
  <2>4. ASSUME NEW s \in Secrets, Usable(file', s)
        PROVE  Usable(file, s) \/ (Draws(Asks(r)) /\ s = z)
    BY <1>3, <2>4, RenamedUsable
  <2> HIDE DEF z, p
  <2>5. ASSUME NEW s \in Secrets, Given(s) \/ Has(file', s), origin[s] # 0
        PROVE  ~Usable(file', origin[s])
    <3>1. origin[s] \in Secrets /\ Given(origin[s])
      BY <1>0, <2>5 DEF SecretInv
    <3>2. CASE Issued(s)
      BY <1>0, <2>2, <2>4, <2>5, <3>1, <3>2 DEF SpentInv
    <3>3. CASE Draws(Asks(r)) /\ s = z
      BY <2>2, <2>5, <3>3
    <3> QED
      BY <2>3, <2>5, <3>2, <3>3
  <2>6. ASSUME NEW s \in Secrets, NEW t \in Secrets, Given(s) \/ Has(file', s),
               Given(t) \/ Has(file', t), origin[s] = origin[t], origin[s] # 0
        PROVE  s = t
    <3>1. CASE Issued(s) /\ Issued(t)
      BY <1>0, <2>6, <3>1 DEF SpentInv
    <3>2. ASSUME NEW u \in Secrets, Issued(u), origin[u] # 0, Draws(Asks(r)), origin[u] = origin[z]
          PROVE  FALSE
      BY <1>0, <2>2, <3>2 DEF SpentInv
    <3> QED
      BY <2>3, <2>6, <3>1, <3>2
  <2> QED
    BY <2>1, <2>5, <2>6 DEF SpentInv, Issued, Usable, Has, Given
<1>4. ASSUME NEW r \in Requests, Return(r)
      PROVE  SpentInv'
  <2>1. /\ file' = file /\ origin' = origin
        /\ \A s \in Secrets : s # Secret(r) => granted'[s] = granted[s]
        /\ ~Draws(Asks(r)) => granted' = granted
        /\ Draws(Asks(r)) => Has(file, Secret(r))
    BY <1>4, ReturnStep
  <2>2. ASSUME NEW s \in Secrets, granted'[s] # Null \/ Has(file, s)
        PROVE  Issued(s)
    BY <2>1, <2>2 DEF Issued, Given
  <2> QED
    BY <1>0, <2>1, <2>2 DEF SpentInv, Issued, Usable, Has, Given
<1> QED
  BY <1>1, <1>2, <1>3, <1>4 DEF Begins

(* A new secret joins the family of one that it replaces. *)
LEMMA FamilyKept ==
  ASSUME OAuthInv, [Next]_vars
  PROVE  FamilyInv'
<1>0. /\ OAuthTyped /\ FreshInv /\ SecretInv /\ FamilyInv /\ drawn \in Nat
      /\ \A s \in Secrets : s \in Nat /\ s # 0
  BY OAuthAssumption DEF OAuthInv, OAuthTyped, Secrets
<1>1. CASE \A r \in Requests : ~Begins(r) /\ ~Rename(r) /\ ~Return(r)
  BY <1>0, <1>1, QuietStep DEF FamilyInv, Usable
<1>2. ASSUME NEW r \in Requests, NEW rq \in Ops({now}), Begin(r, rq)
      PROVE  FamilyInv'
  <2>1. /\ file' = file
        /\ Draws(rq) => /\ drawn' = drawn + 1
                        /\ \A s \in Secrets : s # drawn' => family'[s] = family[s]
        /\ ~Draws(rq) => family' = family
    BY <1>0, <1>2, BeginStep
  <2>2. ASSUME NEW s \in Secrets, Usable(file, s)
        PROVE  family'[s] = family[s]
    <3>1. Has(file, s)
      BY <2>2 DEF Usable, Has
    <3> QED
      BY <1>0, <2>1, <3>1 DEF FreshInv
  <2> QED
    BY <1>0, <2>1, <2>2 DEF FamilyInv, Usable
<1>3. ASSUME NEW r \in Requests, Rename(r)
      PROVE  FamilyInv'
  <2> DEFINE z == Secret(r)
             p == Presented(Asks(r))
  <2>1. family' = family
    BY <1>3, RenameStep
  <2>2. Draws(Asks(r)) =>
          /\ z \in Secrets /\ ~Given(z) /\ origin[z] = p
          /\ p # 0 => p \in Secrets /\ Usable(file, p) /\ ~Usable(file', p)
    BY <1>3, RenamedSecret
  <2>3. ASSUME NEW s \in Secrets, Usable(file', s)
        PROVE  Usable(file, s) \/ (Draws(Asks(r)) /\ s = z)
    BY <1>3, <2>3, RenamedUsable
  <2> HIDE DEF z, p
  <2>4. ASSUME NEW s \in Secrets, Usable(file', s), Usable(file, s), Draws(Asks(r)),
               family[s] = family[z]
        PROVE  s = z
    <3>1. CASE p = 0
      <4>1. family[z] = z
        BY <1>0, <2>2, <2>4, <3>1 DEF SecretInv
      <4>2. family[s] = s \/ Given(family[s])
        BY <1>0 DEF SecretInv
      <4> QED
        BY <2>2, <2>4, <4>1, <4>2
    <3>2. CASE p # 0
      <4>1. family[z] = family[p]
        BY <1>0, <2>2, <2>4, <3>2 DEF SecretInv
      <4>2. s = p
        BY <1>0, <2>2, <2>4, <3>2, <4>1 DEF FamilyInv
      <4> QED
        BY <2>2, <2>4, <3>2, <4>2
    <3> QED
      BY <3>1, <3>2
  <2>5. ASSUME NEW s \in Secrets, NEW t \in Secrets, Usable(file', s), Usable(file', t),
               family[s] = family[t]
        PROVE  s = t
    <3>1. CASE Usable(file, s) /\ Usable(file, t)
      BY <1>0, <2>5, <3>1 DEF FamilyInv
    <3> QED
      BY <2>3, <2>4, <2>5, <3>1
  <2> QED
    BY <2>1, <2>5 DEF FamilyInv, Usable
<1>4. ASSUME NEW r \in Requests, Return(r)
      PROVE  FamilyInv'
  BY <1>0, <1>4, ReturnStep DEF FamilyInv, Usable
<1> QED
  BY <1>1, <1>2, <1>3, <1>4 DEF Begins

(* The file does not change while a copy is being written. *)
LEMMA CopyKept ==
  ASSUME OAuthInv, [Next]_vars
  PROVE  CopyInv'
<1>0. OAuthTyped /\ LockInv /\ CopyInv
  BY DEF OAuthInv
<1>1. CASE UNCHANGED vars
  BY <1>0, <1>1 DEF vars, storeVars, CopyInv, Asks, Secret
<1>2. ASSUME NEW r \in Requests, NEW rq \in Ops({now}), Begin(r, rq)
      PROVE  CopyInv'
  BY <1>0, <1>2, BeginStep DEF CopyInv, Asks, Secret
<1>3. ASSUME NEW r \in Requests, AcquireLock(r)
      PROVE  CopyInv'
  BY <1>0, <1>3 DEF AcquireLock, OAuthTyped, CopyInv, Asks, Secret
<1>4. ASSUME NEW r \in Requests, LockTimeout(r)
      PROVE  CopyInv'
  BY <1>0, <1>4 DEF LockTimeout, storeVars, OAuthTyped, CopyInv, Asks, Secret
<1>5. ASSUME NEW r \in Requests, Mutate(r)
      PROVE  CopyInv'
  BY <1>0, <1>5 DEF Mutate, OAuthTyped, CopyInv, Asks, Secret
<1>6. ASSUME NEW r \in Requests, Rename(r)
      PROVE  CopyInv'
  <2>1. /\ pc'[r] = "returning" /\ op' = op
        /\ \A q \in Requests \ {r} : pc'[q] = pc[q] /\ ~Inside(q)
    BY <1>6, RenameStep
  <2> QED
    BY <2>1 DEF CopyInv, Inside
<1>7. ASSUME NEW r \in Requests, Unlock(r)
      PROVE  CopyInv'
  BY <1>0, <1>7 DEF Unlock, OAuthTyped, CopyInv, Asks, Secret
<1>8. ASSUME NEW r \in Requests, Crash(r)
      PROVE  CopyInv'
  BY <1>0, <1>8 DEF Crash, OAuthTyped, CopyInv, Asks, Secret
<1>9. CASE Tick
  BY <1>0, <1>9 DEF Tick, storeVars, CopyInv, Asks, Secret
<1> QED
  BY <1>1, <1>2, <1>3, <1>4, <1>5, <1>6, <1>7, <1>8, <1>9
  DEF Next, BeginAny, Step, Return, Throw

(* What was renamed holds what will be answered. *)
LEMMA DoneKept ==
  ASSUME OAuthInv, [Next]_vars
  PROVE  DoneInv'
<1>0. OAuthTyped /\ DoneInv /\ RecordInv
  BY DEF OAuthInv
<1>1. CASE \A r \in Requests : ~Begins(r) /\ ~Rename(r) /\ ~Return(r)
  <2>1. /\ file' = file /\ granted' = granted
        /\ \A q \in Requests : pc'[q] = "returning" => pc[q] = "returning" /\ op'[q] = op[q]
    BY <1>0, <1>1, QuietStep
  <2> QED
    BY <1>0, <2>1 DEF DoneInv, Told, Asks, Secret
<1>2. ASSUME NEW r \in Requests, NEW rq \in Ops({now}), Begin(r, rq)
      PROVE  DoneInv'
  <2>1. /\ file' = file /\ granted' = granted /\ pc'[r] = "waiting"
        /\ \A q \in Requests \ {r} : pc'[q] = pc[q] /\ op'[q] = op[q]
    BY <1>0, <1>2, BeginStep
  <2> QED
    BY <1>0, <2>1 DEF DoneInv, Told, Asks, Secret
<1>3. ASSUME NEW r \in Requests, Rename(r)
      PROVE  DoneInv'
  <2> DEFINE rq == Asks(r)
             s == Secret(r)
  <2>1. /\ granted' = granted /\ op' = op
        /\ \A q \in Requests \ {r} : pc'[q] = pc[q] /\ pc[q] # "returning"
        /\ Evolves(file, file', rq, s)
    BY <1>3, RenameStep DEF Inside
  <2>2. rq.kind = "authorize" =>
           \E c \in file'.codes : c.digest = s /\ c.scopes = Told(rq)
                                  /\ c.expires_at = rq.at + CodeTtl
    BY <2>1 DEF Evolves, DrawnCode, Told
  <2>3. ASSUME rq.kind \in {"exchange", "refresh"}
        PROVE  /\ \E t \in file'.tokens : t.digest = s /\ t.scopes = Told(rq)
                                          /\ t.expires_at = rq.at + RefreshTtl
               /\ Told(rq) \subseteq granted[Presented(rq)].scopes
    <3>1. PICK t \in file'.tokens : DrawnToken(file, t, rq, s)
      BY <2>1, <2>3 DEF Evolves
    <3>2. Given(Presented(rq))
      BY <1>3, <2>3, RenamedSecret DEF Draws
    <3>3. t.scopes = Told(rq) /\ Told(rq) \subseteq granted[Presented(rq)].scopes
      <4>1. CASE rq.kind = "exchange"
        <5>1. PICK c \in CodeRecords(file, rq) : t.scopes = c.scopes
          BY <3>1, <4>1 DEF DrawnToken
        <5>2. c \in file.codes /\ c.digest = Presented(rq)
          BY <4>1 DEF CodeRecords, Presented
        <5>3. granted[Presented(rq)].scopes = c.scopes
          BY <1>0, <3>2, <5>2 DEF RecordInv, Tells
        <5> QED
          BY <4>1, <5>1, <5>3 DEF Told
      <4>2. CASE rq.kind = "refresh"
        <5>1. PICK u \in TokenRecords(file, rq) :
                 /\ t.scopes \subseteq u.scopes
                 /\ t.scopes = IF rq.scopes = Null THEN u.scopes ELSE rq.scopes
          BY <3>1, <4>2 DEF DrawnToken
        <5>2. u \in file.tokens /\ u.digest = Presented(rq)
          BY <4>2 DEF TokenRecords, Presented
        <5>3. granted[Presented(rq)].scopes = u.scopes
          BY <1>0, <3>2, <5>2 DEF RecordInv, Tells
        <5> QED
          BY <4>2, <5>1, <5>3 DEF Told
      <4> QED
        BY <2>3, <4>1, <4>2
    <3> QED
      BY <3>1, <3>3 DEF DrawnToken
  <2>4. /\ rq.kind = "register" => rq.client \in file'.clients
        /\ rq.kind = "revoke_refresh" =>
             \A t \in file'.tokens : t.digest = rq.token => t.revoked
        /\ rq.kind = "revoke_access" => rq.token \in file'.revoked_access
    BY <2>1 DEF Evolves
  <2> QED
    BY <2>1, <2>2, <2>3, <2>4 DEF DoneInv, Told, Asks, Secret
<1>4. ASSUME NEW r \in Requests, Return(r)
      PROVE  DoneInv'
  <2>1. pc'[r] = "idle" /\ \A q \in Requests \ {r} : pc'[q] = pc[q] /\ pc[q] # "returning"
    BY <1>4, ReturnStep DEF Inside
  <2> QED
    BY <2>1 DEF DoneInv
<1> QED
  BY <1>1, <1>2, <1>3, <1>4 DEF Begins

(* An answer gives no scope that what was presented did not have. *)
LEMMA NarrowKept ==
  ASSUME OAuthInv, [Next]_vars
  PROVE  NarrowInv'
<1>0. /\ OAuthTyped /\ SecretInv /\ NarrowInv /\ drawn \in Nat
      /\ \A s \in Secrets : s \in Nat
      /\ \A s \in Secrets : origin[s] # 0 => origin[s] \in Secrets
  BY OAuthAssumption DEF OAuthInv, OAuthTyped, Secrets
<1>1. CASE \A r \in Requests : ~Begins(r) /\ ~Rename(r) /\ ~Return(r)
  BY <1>0, <1>1, QuietStep DEF NarrowInv, Given
<1>2. ASSUME NEW r \in Requests, NEW rq \in Ops({now}), Begin(r, rq)
      PROVE  NarrowInv'
  <2>1. /\ granted' = granted
        /\ Draws(rq) => /\ drawn' = drawn + 1
                        /\ \A s \in Secrets : s # drawn' => origin'[s] = origin[s]
        /\ ~Draws(rq) => origin' = origin
    BY <1>0, <1>2, BeginStep
  <2>2. ASSUME NEW s \in Secrets, Given(s)
        PROVE  origin'[s] = origin[s]
    BY <1>0, <2>1, <2>2 DEF SecretInv
  <2> QED
    BY <1>0, <2>1, <2>2 DEF NarrowInv, Given
<1>3. ASSUME NEW r \in Requests, Rename(r)
      PROVE  NarrowInv'
  BY <1>0, <1>3, RenameStep DEF NarrowInv, Given
<1>4. ASSUME NEW r \in Requests, Return(r)
      PROVE  NarrowInv'
  <2>1. /\ origin' = origin /\ pc[r] = "returning"
        /\ \A s \in Secrets : s # Secret(r) => granted'[s] = granted[s]
        /\ ~Draws(Asks(r)) => granted' = granted
        /\ Draws(Asks(r)) => /\ origin[Secret(r)] = Presented(Asks(r))
                             /\ granted'[Secret(r)].scopes = Told(Asks(r))
    BY <1>4, ReturnStep
  <2> SUFFICES ASSUME NEW s \in Secrets, granted'[s] # Null, origin[s] # 0
               PROVE  granted'[s].scopes \subseteq granted'[origin[s]].scopes
    BY <2>1 DEF NarrowInv, Given
  <2>2. granted'[origin[s]] = granted[origin[s]]
    BY <1>0, GrantsStand DEF SecretInv
  <2>3. CASE Draws(Asks(r)) /\ s = Secret(r)
    <3>1. Asks(r).kind \in {"exchange", "refresh"}
      BY <2>1, <2>3 DEF Draws, Presented
    <3>2. Told(Asks(r)) \subseteq granted[Presented(Asks(r))].scopes
      BY <2>1, <3>1 DEF OAuthInv, DoneInv
    <3> QED
      BY <2>1, <2>2, <2>3, <3>2
  <2>4. CASE ~(Draws(Asks(r)) /\ s = Secret(r))
    BY <1>0, <2>1, <2>2, <2>4 DEF NarrowInv, Given
  <2> QED
    BY <2>3, <2>4
<1> QED
  BY <1>1, <1>2, <1>3, <1>4 DEF Begins

(* A mutation neither revives a token nor takes back a revocation. *)
LEMMA RevokedKept ==
  ASSUME OAuthInv, [Next]_vars
  PROVE  RevokedInv'
<1>0. OAuthTyped /\ RevokedInv
  BY DEF OAuthInv
<1>1. CASE \A r \in Requests : ~Begins(r) /\ ~Rename(r) /\ ~Return(r)
  BY <1>0, <1>1, QuietStep DEF RevokedInv, Given
<1>2. ASSUME NEW r \in Requests, NEW rq \in Ops({now}), Begin(r, rq)
      PROVE  RevokedInv'
  <2>1. file' = file /\ granted' = granted /\ revoked' = revoked
    BY <1>0, <1>2, BeginStep
  <2> QED
    BY <1>0, <2>1 DEF RevokedInv, Given
<1>3. ASSUME NEW r \in Requests, Rename(r)
      PROVE  RevokedInv'
  <2>1. /\ granted' = granted /\ revoked' = revoked
        /\ Evolves(file, file', Asks(r), Secret(r))
    BY <1>3, RenameStep
  <2>2. Draws(Asks(r)) => ~Given(Secret(r))
    BY <1>3, RenamedSecret
  <2>3. ASSUME NEW t \in file'.tokens, Given(t.digest), \A u \in file.tokens : u.digest = t.digest => u.revoked
        PROVE  t.revoked
    <3>1. ~DrawnToken(file, t, Asks(r), Secret(r))
      BY <2>2, <2>3 DEF DrawnToken, Draws
    <3> QED
      BY <2>1, <2>3, <3>1 DEF Evolves, OldToken
  <2>4. file.revoked_access \subseteq file'.revoked_access
    BY <2>1 DEF Evolves, Keeps
  <2> QED
    BY <1>0, <2>1, <2>3, <2>4 DEF RevokedInv, Given
<1>4. ASSUME NEW r \in Requests, Return(r)
      PROVE  RevokedInv'
  <2>1. /\ file' = file /\ pc[r] = "returning" /\ Asks(r) \in Ops(0..now)
        /\ revoked' = IF Revokes(Asks(r))
                      THEN revoked \cup {<<IF Asks(r).kind = "revoke_access" THEN "access"
                                           ELSE "refresh", Asks(r).token>>}
                      ELSE revoked
    BY <1>4, ReturnStep
  <2>2. ASSUME NEW s \in Secrets, Given(s)
        PROVE  granted'[s] # Null
    BY <2>2, GrantsStand DEF Given
  <2>3. /\ Asks(r).kind = "revoke_refresh" =>
             Given(Asks(r).token) /\ \A t \in file.tokens : t.digest = Asks(r).token => t.revoked
        /\ Asks(r).kind = "revoke_access" => Asks(r).token \in file.revoked_access
    BY <2>1 DEF OAuthInv, AskedInv, DoneInv, InFlight
  <2>4. ASSUME NEW s \in Secrets, <<"refresh", s>> \in revoked'
        PROVE  Given(s) /\ \A t \in file.tokens : t.digest = s => t.revoked
    <3>1. CASE <<"refresh", s>> \in revoked
      BY <1>0, <3>1 DEF RevokedInv
    <3>2. CASE <<"refresh", s>> \notin revoked
      BY <2>1, <2>3, <2>4, <3>2 DEF Revokes
    <3> QED
      BY <3>1, <3>2
  <2>5. ASSUME NEW s \in Secrets, <<"access", s>> \in revoked'
        PROVE  s \in file.revoked_access
    <3>1. CASE <<"access", s>> \in revoked
      BY <1>0, <3>1 DEF RevokedInv
    <3>2. CASE <<"access", s>> \notin revoked
      BY <2>1, <2>3, <2>5, <3>2 DEF Revokes
    <3> QED
      BY <3>1, <3>2
  <2> QED
    BY <2>1, <2>2, <2>4, <2>5 DEF RevokedInv, Given
<1> QED
  BY <1>1, <1>2, <1>3, <1>4 DEF Begins

(* A mutation prunes by a time that has passed, so what it drops was told  *)
(* to expire more than Grace ago.                                          *)
LEMMA AcknowledgedKept ==
  ASSUME OAuthInv, [Next]_vars
  PROVE  AcknowledgedIsStored'
<1>0. /\ OAuthTyped /\ RecordInv /\ AcknowledgedIsStored /\ now \in Nat /\ Grace \in Nat
      /\ \A c \in file.codes : c.expires_at \in Nat
      /\ \A t \in file.tokens : t.expires_at \in Nat
      /\ \A s \in Secrets : Given(s) => granted[s].expires_at \in Nat
  BY OAuthAssumption DEF OAuthInv, OAuthTyped, Files, Codes, Tokens, Grants, Given
<1>1. CASE \A r \in Requests : ~Begins(r) /\ ~Rename(r) /\ ~Return(r)
  <2>1. /\ file' = file /\ granted' = granted /\ registered' = registered
        /\ now' \in Nat /\ now' >= now
    BY <1>0, <1>1, QuietStep
  <2>2. ASSUME NEW s \in Secrets, Given(s), granted[s].expires_at + Grace >= now'
        PROVE  granted[s].expires_at + Grace >= now
    BY <1>0, <2>1, <2>2
  <2> QED
    BY <1>0, <2>1, <2>2 DEF AcknowledgedIsStored, Given
<1>2. ASSUME NEW r \in Requests, NEW rq \in Ops({now}), Begin(r, rq)
      PROVE  AcknowledgedIsStored'
  <2>1. file' = file /\ granted' = granted /\ registered' = registered /\ now' = now
    BY <1>0, <1>2, BeginStep
  <2> QED
    BY <1>0, <2>1 DEF AcknowledgedIsStored
<1>3. ASSUME NEW r \in Requests, Rename(r)
      PROVE  AcknowledgedIsStored'
  <2>1. /\ granted' = granted /\ registered' = registered /\ now' = now
        /\ Asks(r).at \in 0..now /\ Keeps(file, file', Asks(r).at)
    BY <1>3, RenameStep DEF Evolves
  <2>2. registered \subseteq file'.clients
    BY <1>0, <2>1 DEF AcknowledgedIsStored, Keeps
  <2>3. ASSUME NEW s \in Secrets, Given(s), granted[s].expires_at + Grace >= now
        PROVE  \E x \in file'.codes \cup file'.tokens : x.digest = s
    <3>1. PICK x \in file.codes \cup file.tokens : x.digest = s
      BY <1>0, <2>3 DEF AcknowledgedIsStored, Given
    <3>2. granted[s].expires_at = x.expires_at
      BY <1>0, <2>3, <3>1 DEF RecordInv, Tells
    <3>3. x.expires_at + Grace >= Asks(r).at
      BY <1>0, <2>1, <2>3, <3>2
    <3> QED
      BY <2>1, <3>1, <3>3 DEF Keeps
  <2> QED
    BY <2>1, <2>2, <2>3 DEF AcknowledgedIsStored, Given
<1>4. ASSUME NEW r \in Requests, Return(r)
      PROVE  AcknowledgedIsStored'
  <2>1. /\ file' = file /\ now' = now /\ pc[r] = "returning"
        /\ \A s \in Secrets : s # Secret(r) => granted'[s] = granted[s]
        /\ ~Draws(Asks(r)) => granted' = granted
        /\ Draws(Asks(r)) => Has(file, Secret(r))
        /\ registered' = IF Asks(r).kind = "register" THEN registered \cup {Asks(r).client}
                         ELSE registered
    BY <1>4, ReturnStep
  <2>2. registered' \subseteq file.clients
    <3>1. Asks(r).kind = "register" => Asks(r).client \in file.clients
      BY <2>1 DEF OAuthInv, DoneInv
    <3> QED
      BY <1>0, <2>1, <3>1 DEF AcknowledgedIsStored
  <2>3. ASSUME NEW s \in Secrets, granted'[s] # Null, granted'[s].expires_at + Grace >= now
        PROVE  \E x \in file.codes \cup file.tokens : x.digest = s
    <3>1. CASE Draws(Asks(r)) /\ s = Secret(r)
      BY <2>1, <3>1 DEF Has
    <3>2. CASE ~(Draws(Asks(r)) /\ s = Secret(r))
      BY <1>0, <2>1, <2>3, <3>2 DEF AcknowledgedIsStored
    <3> QED
      BY <3>1, <3>2
  <2> QED
    BY <2>1, <2>2, <2>3 DEF AcknowledgedIsStored
<1> QED
  BY <1>1, <1>2, <1>3, <1>4 DEF Begins

(* Nothing was drawn, given or stored yet. *)
LEMMA InitInv == Init => OAuthInv
<1> SUFFICES ASSUME Init
             PROVE  OAuthInv
  OBVIOUS
<1>1. /\ MaxSecrets \in Nat /\ Static \subseteq Clients
      /\ Secrets = 1..MaxSecrets /\ 0 \notin Secrets
  BY OAuthAssumption DEF Secrets
<1>2. OAuthTyped
  BY <1>1 DEF Init, Empty, Files, OAuthTyped, InFlight, PCs
<1>3. LockInv /\ AskedInv /\ OwnInv /\ CopyInv /\ DoneInv
  BY DEF Init, LockInv, AskedInv, OwnInv, CopyInv, DoneInv, Inside, InFlight
<1>4. SecretInv
  BY <1>1 DEF Init, SecretInv, Given
<1>5. FreshInv /\ RecordInv /\ SpentInv /\ FamilyInv
  BY DEF Init, Empty, FreshInv, RecordInv, SpentInv, FamilyInv, Distinct, Has, Usable, Issued, Given
<1>6. RevokedInv /\ NarrowInv /\ AcknowledgedIsStored
  BY DEF Init, RevokedInv, NarrowInv, AcknowledgedIsStored, Given
<1> QED
  BY <1>2, <1>3, <1>4, <1>5, <1>6 DEF OAuthInv

(* The invariant the theorems below are read from. *)
LEMMA OAuthInvariant == Spec => []OAuthInv
<1>1. OAuthInv /\ [Next]_vars => OAuthInv'
  <2> SUFFICES ASSUME OAuthInv, [Next]_vars
               PROVE  OAuthInv'
    OBVIOUS
  <2>1. OAuthTyped' /\ LockInv'
    BY TypesStep, LockKept DEF OAuthInv
  <2>2. AskedInv' /\ OwnInv' /\ SecretInv' /\ FreshInv'
    BY AskedKept, OwnKept, SecretKept, FreshKept
  <2>3. RecordInv' /\ SpentInv' /\ FamilyInv' /\ CopyInv' /\ DoneInv'
    BY RecordKept, SpentKept, FamilyKept, CopyKept, DoneKept
  <2>4. RevokedInv' /\ NarrowInv' /\ AcknowledgedIsStored'
    BY RevokedKept, NarrowKept, AcknowledgedKept
  <2> QED
    BY <2>1, <2>2, <2>3, <2>4 DEF OAuthInv
<1> QED
  BY InitInv, <1>1, PTL DEF Spec

-----------------------------------------------------------------------------
(* A code or refresh token is traded for tokens once, whoever presents it  *)
(* when, and also after its record was pruned.                             *)
THEOREM OAuthTradedOnce == Spec => []TradedOnce
<1>1. OAuthInv => TradedOnce
  BY DEF OAuthInv, SpentInv, TradedOnce, Issued, Given
<1> QED
  BY <1>1, OAuthInvariant, PTL

(* The file holds at most one refresh token per sign-in that still works. *)
THEOREM OAuthOneLivePerFamily == Spec => []OneLivePerFamily
<1>1. OAuthInv => OneLivePerFamily
  <2> SUFFICES ASSUME OAuthInv, NEW t \in file.tokens, NEW u \in file.tokens,
                      ~t.revoked, ~u.revoked, family[t.digest] = family[u.digest]
               PROVE  t = u
    BY DEF OneLivePerFamily
  <2>1. t.digest \in Secrets /\ u.digest \in Secrets
    BY DEF OAuthInv, OAuthTyped, Files, Tokens
  <2>2. t.digest = u.digest
    BY <2>1 DEF OAuthInv, FamilyInv, Usable
  <2> QED
    BY <2>2 DEF OAuthInv, RecordInv, Distinct
<1> QED
  BY <1>1, OAuthInvariant, PTL

(* Scopes only narrow along a chain of refreshes, and start within those   *)
(* of the user who signed in.                                              *)
THEOREM OAuthScopesNarrow == Spec => []ScopesNarrow
<1>1. OAuthInv => ScopesNarrow
  BY DEF OAuthInv, NarrowInv, RecordInv, Tells, ScopesNarrow, Given
<1> QED
  BY <1>1, OAuthInvariant, PTL

(* Registrations are kept for ever, codes and refresh tokens until they    *)
(* have been expired for Grace, whatever other requests write and prune.   *)
THEOREM OAuthAcknowledgedIsStored == Spec => []AcknowledgedIsStored
<1>1. OAuthInv => AcknowledgedIsStored
  BY DEF OAuthInv
<1> QED
  BY <1>1, OAuthInvariant, PTL

RevocationStep ==
  /\ \A t \in file'.tokens :
       (\A u \in file.tokens : u.digest # t.digest) =>
          ~(<<"refresh", origin[t.digest]>> \in revoked /\ ~granted[origin[t.digest]].code)
  /\ \A s \in Secrets : <<"access", s>> \in revoked => ~Accepts(s, now)'

(* No step derives a token from a revoked refresh token or lets a revoked  *)
(* access token in again.                                                  *)
THEOREM OAuthRevocationStands == Spec => RevocationStands
<1>1. OAuthInv /\ [Next]_vars => RevocationStep
  <2> SUFFICES ASSUME OAuthInv, [Next]_vars
               PROVE  RevocationStep
    OBVIOUS
  <2>0. OAuthTyped /\ RecordInv /\ RevokedInv
    BY DEF OAuthInv
  <2>1. CASE file' = file
    BY <2>0, <2>1 DEF RevocationStep, RevokedInv, Accepts
  <2>2. ASSUME NEW r \in Requests, Rename(r)
        PROVE  RevocationStep
    <3>1. Evolves(file, file', Asks(r), Secret(r))
      BY <2>2, RenameStep
    <3>2. file.revoked_access \subseteq file'.revoked_access
      BY <3>1 DEF Evolves, Keeps
    <3>3. ASSUME NEW t \in file'.tokens, \A u \in file.tokens : u.digest # t.digest,
                 <<"refresh", origin[t.digest]>> \in revoked, ~granted[origin[t.digest]].code
          PROVE  FALSE
      <4> DEFINE p == Presented(Asks(r))
      <4>1. DrawnToken(file, t, Asks(r), Secret(r))
        BY <3>1, <3>3 DEF Evolves, OldToken
      <4>2. Draws(Asks(r)) /\ Asks(r).kind # "authorize" /\ t.digest = Secret(r)
        BY <4>1 DEF DrawnToken, Draws
      <4>3. origin[t.digest] = p /\ p \in Secrets /\ Given(p)
        BY <2>2, <4>2, RenamedSecret
      <4>4. CASE Asks(r).kind = "exchange"
        <5>1. PICK c \in CodeRecords(file, Asks(r)) : TRUE
          BY <4>1, <4>4 DEF DrawnToken
        <5>2. c \in file.codes /\ c.digest = p
          BY <4>4 DEF CodeRecords, Presented
        <5>3. granted[p].code = TRUE
          BY <2>0, <4>3, <5>2 DEF RecordInv, Tells
        <5> QED
          BY <3>3, <4>3, <5>3
      <4>5. CASE Asks(r).kind = "refresh"
        <5>1. PICK u \in TokenRecords(file, Asks(r)) : TRUE
          BY <4>1, <4>5 DEF DrawnToken
        <5>2. u \in file.tokens /\ u.digest = p /\ ~u.revoked
          BY <4>5 DEF TokenRecords, Presented
        <5> QED
          BY <2>0, <3>3, <4>3, <5>2 DEF RevokedInv
      <4> QED
        BY <4>1, <4>4, <4>5 DEF DrawnToken
    <3> QED
      BY <2>0, <3>2, <3>3 DEF RevocationStep, RevokedInv, Accepts
  <2>3. CASE \A r \in Requests : ~Begins(r) /\ ~Rename(r) /\ ~Return(r)
    BY <2>0, <2>1, <2>3, QuietStep
  <2>4. ASSUME NEW r \in Requests, NEW rq \in Ops({now}), Begin(r, rq)
        PROVE  RevocationStep
    BY <2>0, <2>1, <2>4, BeginStep
  <2>5. ASSUME NEW r \in Requests, Return(r)
        PROVE  RevocationStep
    BY <2>1, <2>5, ReturnStep
  <2> QED
    BY <2>2, <2>3, <2>4, <2>5 DEF Begins
<1>2. Spec => [][RevocationStep]_vars
  BY <1>1, OAuthInvariant, PTL DEF Spec
<1> QED
  BY <1>2 DEF RevocationStands, RevocationStep
=============================================================================
