---------------------------- MODULE OAuthService ----------------------------
(***************************************************************************)
(* The OAuth service (src/oauth/service.ts) over its locked JSON file      *)
(* (src/oauth/store.ts): authorization codes traded for tokens, rotating   *)
(* refresh tokens, revocation and client registration, run by concurrent   *)
(* requests of several processes.  An operation captures its time and      *)
(* draws its secret, waits for .oauth-lock, changes a copy of the file,    *)
(* renames the copy over the file and returns; it may die at any of these. *)
(*                                                                         *)
(* A secret stands for the code or refresh token drawn by opaqueToken and  *)
(* for its digest; the access token issued along with a refresh token is   *)
(* told apart by the same secret.  What throws before the store is touched *)
(* changes nothing and is not a step.                                      *)
(***************************************************************************)
EXTENDS Naturals, FiniteSets

CONSTANTS
  Requests,     \* concurrent requests
  Free, Orphan, \* the lock directory: absent, or left by a dead process
  Clients,      \* client ids
  Static,       \* those in the configuration
  Bindings,     \* redirect URI, resource and PKCE verifier, as one value
  Users,
  Supported,    \* scopes the server supports
  Allowed,      \* per user: its allowed scopes
  Requestable,  \* the sets of scopes requests ask for
  Null,
  CodeTtl, RefreshTtl, AccessTtl,
  Grace,        \* how long after its expiry a record is kept (24 h)
  MaxTime, MaxSecrets,
  MaxRevocations, \* no new revocation once this many were acknowledged
  MaxCrashes

ASSUME OAuthAssumption ==
  /\ Free \notin Requests /\ Orphan \notin Requests /\ Free # Orphan
  /\ Static \subseteq Clients
  /\ Allowed \in [Users -> SUBSET Supported]
  /\ Requestable \subseteq SUBSET Supported
  /\ {CodeTtl, RefreshTtl, AccessTtl} \subseteq Nat \ {0}
  /\ {Grace, MaxTime, MaxSecrets, MaxRevocations, MaxCrashes} \subseteq Nat
  /\ Null \notin Nat /\ \A scopes \in SUBSET Supported : Null # scopes

Secrets == 1..MaxSecrets

VARIABLES
  file,        \* oauth-state.json
  lockdir,     \* who made .oauth-lock
  now,
  drawn,       \* how many secrets were drawn
  origin,      \* per secret: the one presented to get it, 0 for a code
  family,      \* history, per secret: the code it descends from
  pc, op, copy, \* per request: where it is, what it asks, the file it will write
  granted,     \* per secret: what its client was told, Null if nothing
  revoked,     \* secrets whose revocation was acknowledged: [token, secret]
  registered,  \* clients whose registration was acknowledged
  crashes

storeVars == <<file, lockdir, copy>>
clientVars == <<drawn, origin, family, granted, revoked, registered>>
vars == <<storeVars, clientVars, now, pc, op, crashes>>

Codes ==
  [digest : Secrets, client : Clients, binding : Bindings, subject : Users,
   scopes : SUBSET Supported, expires_at : Nat, consumed : BOOLEAN]

Tokens ==
  [digest : Secrets, client : Clients, subject : Users, scopes : SUBSET Supported,
   expires_at : Nat, revoked : BOOLEAN]

Files == [clients : SUBSET Clients, codes : SUBSET Codes, tokens : SUBSET Tokens,
          revoked_access : SUBSET Secrets]

Ops(at) ==
  [kind : {"authorize"}, client : Clients, binding : Bindings, subject : Users,
   scopes : Requestable, at : at]
    \cup [kind : {"exchange"}, code : Secrets, client : Clients, binding : Bindings, at : at]
    \cup [kind : {"refresh"}, token : Secrets, client : Clients,
          scopes : {Null} \cup Requestable, at : at]
    \cup [kind : {"register"}, client : Clients \ Static, at : at]
    \cup [kind : {"revoke_refresh", "revoke_access"}, token : Secrets, at : at]

PCs == {"idle", "waiting", "reading", "writing", "returning"}

Grants == [scopes : SUBSET Supported, expires_at : Nat, access_until : Nat, code : BOOLEAN]

(* The types of the variables. *)
OAuthTypeOK ==
  /\ file.clients \subseteq Clients /\ file.revoked_access \subseteq Secrets
  /\ \A c \in file.codes : c \in Codes
  /\ \A t \in file.tokens : t \in Tokens
  /\ lockdir \in Requests \cup {Free, Orphan}
  /\ now \in 0..MaxTime /\ drawn \in 0..MaxSecrets /\ crashes \in 0..MaxCrashes
  /\ origin \in [Secrets -> 0..MaxSecrets] /\ family \in [Secrets -> Secrets]
  /\ pc \in [Requests -> PCs]
  /\ \A r \in Requests : pc[r] # "idle" => op[r].request \in Ops(0..MaxTime)
  /\ \A s \in Secrets : granted[s] = Null \/ granted[s] \in Grants
  /\ revoked \subseteq {"refresh", "access"} \X Secrets
  /\ registered \subseteq Clients

Empty == [clients |-> Static, codes |-> {}, tokens |-> {}, revoked_access |-> {}]

NoOp == [request |-> Null, secret |-> 0]

Init ==
  /\ file = Empty
  /\ lockdir = Free
  /\ now = 0 /\ drawn = 0 /\ crashes = 0
  /\ origin = [s \in Secrets |-> 0] /\ family = [s \in Secrets |-> s]
  /\ pc = [r \in Requests |-> "idle"]
  /\ op = [r \in Requests |-> NoOp]
  /\ copy = [r \in Requests |-> Empty]
  /\ granted = [s \in Secrets |-> Null]
  /\ revoked = {} /\ registered = {}

-----------------------------------------------------------------------------
(* What the store does to the file, per operation.                         *)

(* Mutant: a record is dropped when it expires. *)
Prune_Early(records, at) == {x \in records : x.expires_at > at}

(* A record goes once it has been expired for Grace. *)
Prune(records, at) == {x \in records : x.expires_at + Grace >= at}

Pruned(f, at) == [f EXCEPT !.codes = Prune(@, at), !.tokens = Prune(@, at)]

CodeRecords(f, rq) ==
  {c \in f.codes : /\ c.digest = rq.code /\ ~c.consumed /\ c.expires_at > rq.at
                   /\ c.client = rq.client /\ c.binding = rq.binding}

TokenRecords(f, rq) ==
  {t \in f.tokens : /\ t.digest = rq.token /\ ~t.revoked
                    /\ t.expires_at > rq.at /\ t.client = rq.client}

(* Mutant: scopes are checked against the configuration only. *)
RefreshScopes_Supported(t, rq) ==
  IF rq.scopes = Null THEN {t.scopes} ELSE {rq.scopes}

(* validateScopes: the requested scopes, all or nothing.  The resource     *)
(* that a refresh may name is taken to be the token's (RESOURCE_MISMATCH   *)
(* otherwise, and nothing is traded).                                      *)
RefreshScopes(t, rq) ==
  IF rq.scopes = Null THEN {t.scopes} ELSE {rq.scopes} \cap SUBSET t.scopes

NewToken(from, secret, scopes, at) ==
  [digest |-> secret, client |-> from.client, subject |-> from.subject,
   scopes |-> scopes, expires_at |-> at + RefreshTtl, revoked |-> FALSE]

Authorized(f, rq, secret) ==
  LET code == [digest |-> secret, client |-> rq.client, binding |-> rq.binding,
               subject |-> rq.subject, scopes |-> rq.scopes,
               expires_at |-> rq.at + CodeTtl, consumed |-> FALSE]
  IN  Pruned([f EXCEPT !.codes = @ \cup {code}], rq.at)

(* Mutant: the code is not marked consumed. *)
Exchanged_Reusable(f, c, secret, at) ==
  Pruned([f EXCEPT !.tokens = @ \cup {NewToken(c, secret, c.scopes, at)}], at)

Exchanged(f, c, secret, at) ==
  Pruned([f EXCEPT !.codes = (@ \ {c}) \cup {[c EXCEPT !.consumed = TRUE]},
                   !.tokens = @ \cup {NewToken(c, secret, c.scopes, at)}], at)

(* Mutant: the old token is not revoked. *)
Refreshed_KeepsOld(f, t, scopes, secret, at) ==
  Pruned([f EXCEPT !.tokens = @ \cup {NewToken(t, secret, scopes, at)}], at)

Refreshed(f, t, scopes, secret, at) ==
  Pruned([f EXCEPT !.tokens = (@ \ {t}) \cup
                      {[t EXCEPT !.revoked = TRUE], NewToken(t, secret, scopes, at)}], at)

RevokedIn(f, s) ==
  [f EXCEPT !.tokens = {IF t.digest = s THEN [t EXCEPT !.revoked = TRUE] ELSE t : t \in @}]

(* The files an operation may write: none when its mutation throws.        *)
Written(f, rq, secret) ==
  CASE rq.kind = "authorize" -> {Authorized(f, rq, secret)}
    [] rq.kind = "exchange"  -> {Exchanged(f, c, secret, rq.at) : c \in CodeRecords(f, rq)}
    [] rq.kind = "refresh"   ->
         UNION {{Refreshed(f, t, scopes, secret, rq.at) : scopes \in RefreshScopes(t, rq)} :
                   t \in TokenRecords(f, rq)}
    [] rq.kind = "register"  -> {[f EXCEPT !.clients = @ \cup {rq.client}]}
    [] rq.kind = "revoke_refresh" -> {RevokedIn(f, rq.token)}
    [] rq.kind = "revoke_access"  -> {[f EXCEPT !.revoked_access = @ \cup {rq.token}]}

(* validateAccessToken, which reads the file without the lock. *)
Live(s, at) == granted[s] # Null /\ ~granted[s].code /\ at < granted[s].access_until

Accepts(s, at) == Live(s, at) /\ s \notin file.revoked_access

-----------------------------------------------------------------------------
Draws(rq) == rq.kind \in {"authorize", "exchange", "refresh"}

Presented(rq) ==
  CASE rq.kind = "exchange" -> rq.code [] rq.kind = "refresh" -> rq.token [] OTHER -> 0

Registering ==
  {op[r].request.client : r \in {q \in Requests : pc[q] # "idle" /\ op[q].request.kind = "register"}}

Revokes(rq) == rq.kind \in {"revoke_refresh", "revoke_access"}

(* A caller presents what it was given.  authorize checks the client in an *)
(* unlocked read, and the user's scopes; registration invents a client id; *)
(* the revocation of an access token verifies it first.                    *)
Admissible(rq) ==
  CASE rq.kind = "authorize" ->
         rq.client \in file.clients /\ rq.scopes \subseteq Allowed[rq.subject]
    [] rq.kind = "register" ->
         rq.client \notin file.clients \cup Registering
    [] rq.kind = "revoke_access" -> Live(rq.token, now)
    [] rq.kind = "exchange" -> granted[rq.code] # Null
    [] OTHER -> granted[rq.token] # Null

Begin(r, rq) ==
  /\ pc[r] = "idle" /\ Admissible(rq)
  /\ Revokes(rq) => Cardinality(revoked) < MaxRevocations
  /\ pc' = [pc EXCEPT ![r] = "waiting"]
  /\ IF Draws(rq)
     THEN /\ drawn < MaxSecrets
          /\ drawn' = drawn + 1
          /\ origin' = [origin EXCEPT ![drawn + 1] = Presented(rq)]
          /\ family' = IF Presented(rq) = 0 THEN family
                       ELSE [family EXCEPT ![drawn + 1] = family[Presented(rq)]]
          /\ op' = [op EXCEPT ![r] = [request |-> rq, secret |-> drawn + 1]]
     ELSE /\ op' = [op EXCEPT ![r] = [request |-> rq, secret |-> 0]]
          /\ UNCHANGED <<drawn, origin, family>>
  /\ UNCHANGED <<storeVars, now, granted, revoked, registered, crashes>>

BeginAny(r) == \E rq \in Ops({now}) : Begin(r, rq)

(* Mutant: an existing lock directory counts as taken by the caller. *)
AcquireLock_Recursive(r) ==
  /\ pc[r] = "waiting"
  /\ lockdir' = r
  /\ pc' = [pc EXCEPT ![r] = "reading"]
  /\ UNCHANGED <<file, copy, clientVars, now, op, crashes>>

AcquireLock(r) ==
  /\ pc[r] = "waiting" /\ lockdir = Free
  /\ lockdir' = r
  /\ pc' = [pc EXCEPT ![r] = "reading"]
  /\ UNCHANGED <<file, copy, clientVars, now, op, crashes>>

(* OAUTH_STORE_LOCK_TIMEOUT after a hundred attempts. *)
LockTimeout(r) ==
  /\ pc[r] = "waiting" /\ lockdir # Free
  /\ pc' = [pc EXCEPT ![r] = "idle"]
  /\ op' = [op EXCEPT ![r] = NoOp]
  /\ UNCHANGED <<storeVars, clientVars, now, crashes>>

(* Read the file and run the mutation on the copy. *)
Mutate(r) ==
  /\ pc[r] = "reading"
  /\ \E f \in Written(file, op[r].request, op[r].secret) : copy' = [copy EXCEPT ![r] = f]
  /\ pc' = [pc EXCEPT ![r] = "writing"]
  /\ UNCHANGED <<file, lockdir, clientVars, now, op, crashes>>

(* The new file replaces the old.  A write or rename that throws in a live *)
(* process is left out: the file is then the old one and the lock free.    *)
Rename(r) ==
  /\ pc[r] = "writing"
  /\ file' = copy[r]
  /\ copy' = [copy EXCEPT ![r] = Empty]
  /\ pc' = [pc EXCEPT ![r] = "returning"]
  /\ UNCHANGED <<lockdir, clientVars, now, op, crashes>>

Unlock(r) ==
  /\ lockdir' = Free
  /\ pc' = [pc EXCEPT ![r] = "idle"]
  /\ op' = [op EXCEPT ![r] = NoOp]
  /\ UNCHANGED <<file, copy, now, drawn, origin, family, crashes>>

(* A mutation that throws leaves the file as it is. *)
Throw(r) ==
  /\ pc[r] = "reading" /\ Written(file, op[r].request, op[r].secret) = {}
  /\ Unlock(r)
  /\ UNCHANGED <<granted, revoked, registered>>

(* Drop the lock and answer: a code, or tokens signed as of the captured   *)
(* time for what was stored, or the acknowledgement of the change.         *)
Return(r) ==
  LET rq == op[r].request
      s  == op[r].secret
  IN
  /\ pc[r] = "returning"
  /\ Unlock(r)
  /\ granted' =
       IF rq.kind = "authorize"
       THEN [granted EXCEPT ![s] = [scopes |-> rq.scopes, expires_at |-> rq.at + CodeTtl,
                                    access_until |-> 0, code |-> TRUE]]
       ELSE IF Draws(rq)
       THEN [granted EXCEPT ![s] = [scopes |-> IF rq.kind = "refresh" /\ rq.scopes # Null
                                               THEN rq.scopes
                                               ELSE granted[Presented(rq)].scopes,
                                    expires_at |-> rq.at + RefreshTtl,
                                    access_until |-> rq.at + AccessTtl, code |-> FALSE]]
       ELSE granted
  /\ revoked' = IF Revokes(rq)
                THEN revoked \cup
                       {<<IF rq.kind = "revoke_access" THEN "access" ELSE "refresh", rq.token>>}
                ELSE revoked
  /\ registered' = IF rq.kind = "register" THEN registered \cup {rq.client} ELSE registered

Crash(r) ==
  /\ pc[r] # "idle"
  /\ crashes < MaxCrashes
  /\ crashes' = crashes + 1
  /\ lockdir' = IF lockdir = r THEN Orphan ELSE lockdir
  /\ pc' = [pc EXCEPT ![r] = "idle"]
  /\ op' = [op EXCEPT ![r] = NoOp]
  /\ copy' = [copy EXCEPT ![r] = Empty]
  /\ UNCHANGED <<file, clientVars, now>>

Tick == now < MaxTime /\ now' = now + 1 /\ UNCHANGED <<storeVars, clientVars, pc, op, crashes>>

Step(r) ==
  AcquireLock(r) \/ LockTimeout(r) \/ Mutate(r) \/ Rename(r) \/ Return(r) \/ Throw(r)

Next == (\E r \in Requests : BeginAny(r) \/ Step(r) \/ Crash(r)) \/ Tick

Spec == Init /\ [][Next]_vars

-----------------------------------------------------------------------------
(* A code or a refresh token is traded for tokens once, however many       *)
(* requests present it at the same time, and also after its record was     *)
(* pruned.                                                                 *)
TradedOnce ==
  \A s, t \in Secrets :
     (granted[s] # Null /\ granted[t] # Null /\ s # t /\ origin[s] = origin[t])
       => origin[s] = 0

(* Of the refresh tokens that descend from one sign-in the file holds at   *)
(* most one that still works.                                              *)
OneLivePerFamily ==
  \A t, u \in file.tokens :
     (~t.revoked /\ ~u.revoked /\ family[t.digest] = family[u.digest]) => t = u

(* Scopes only narrow along a chain of refreshes: a scope given up once    *)
(* does not come back, and a sign-in never exceeds its user's scopes.      *)
ScopesNarrow ==
  /\ \A s \in Secrets : (granted[s] # Null /\ origin[s] # 0) =>
        granted[s].scopes \subseteq granted[origin[s]].scopes
  /\ \A t \in file.tokens : t.scopes \subseteq Allowed[t.subject]

(* Once a revocation was acknowledged no token is derived from the refresh *)
(* token, and the access token is not accepted again.                      *)
RevocationStands ==
  [][/\ \A t \in file'.tokens :
          (\A u \in file.tokens : u.digest # t.digest) =>
             ~(<<"refresh", origin[t.digest]>> \in revoked /\ ~granted[origin[t.digest]].code)
     /\ \A s \in Secrets : <<"access", s>> \in revoked => ~Accepts(s, now)']_vars

(* What a client was told is in the file: its registration for ever, its   *)
(* code or refresh token until it has been expired for Grace -- concurrent *)
(* updates and pruning by other requests never lose it.                    *)
AcknowledgedIsStored ==
  /\ registered \subseteq file.clients
  /\ \A s \in Secrets :
       (granted[s] # Null /\ granted[s].expires_at + Grace >= now) =>
          \E x \in file.codes \cup file.tokens : x.digest = s
=============================================================================
