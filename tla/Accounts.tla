------------------------------ MODULE Accounts ------------------------------
(***************************************************************************)
(* The accounts of one device and their tokens: NativeClient's restore,    *)
(* sign-in, switch and sign-out (NativeClient.swift), the token provider   *)
(* of each core (client/src/auth.rs), and the ordered events that carry a  *)
(* rotated pair back to the keychain (client/src/events.rs).  The service  *)
(* that issues tokens is external: a refresh token is good for one use.    *)
(*                                                                         *)
(* A sign-in opens a session of the service; a pair is the session and how *)
(* often it was rotated, and its access token has run out once `aged` has  *)
(* reached it.  A refresh runs in a task of its own, which neither the     *)
(* callers' deadlines nor the core's shutdown stop.  The application does  *)
(* one account operation at a time: AppModel shows nothing else meanwhile. *)
(***************************************************************************)
EXTENDS Integers, Sequences, FiniteSets

CONSTANTS People,     \* accounts (a user in an organization)
          Logins,     \* sessions of the token service, 1..n
          Cores,      \* cores in memory at a time
          Callers,    \* dials of a core that ask for a bearer
          Starts,     \* the keychains a run begins with
          MaxAges,    \* bound on access tokens that run out
          MaxChanges, \* bound on switches, sign-ins and sign-outs
          MaxMishaps  \* bound on lost answers, failed opens and saves, and kills

NoCore == 0
Nobody == "nobody"

(* A keychain a run begins with: what an earlier run saved, each session one
   person's. *)
ASSUME AccountsAssumption ==
  /\ {MaxAges, MaxChanges, MaxMishaps} \subseteq Nat
  /\ IsFiniteSet(Logins) /\ Logins = 1..Cardinality(Logins)
  /\ NoCore \notin Cores /\ Nobody \notin People \cup Callers
  /\ Starts \subseteq [People -> [login : Logins \cup {0}, turn : {0, 1}]]
  /\ \A first \in Starts, a, b \in People :
       /\ first[a].turn = 0 <=> first[a].login = 0
       /\ first[a].login = first[b].login => a = b \/ first[a].login = 0

VARIABLES
  issued,   \* how often the service rotated a session, 0 while it is not begun
  owner,    \* whose session it is
  aged,     \* access tokens of a session that have run out, up to this one
  keychain, \* StoredAccounts: active, and the pair of each account
  known,    \* NativeClient.accounts
  account,  \* NativeClient.account
  client,   \* NativeClient.client
  operation, \* the operation under way, waiting for something
  launched, \* this NativeClient has been restored
  coreOf,   \* each core: its account, its pair, its refreshes, its events
  lost,     \* history: sessions one of whose pairs never reached the keychain
  told,     \* history: sessions reported as expired
  left,     \* what is left of each bound
  gone      \* history: accounts signed out and not signed in again

peopleVars == <<keychain, known, account, client, operation, launched>>
accountsVars == <<issued, owner, aged, peopleVars, coreOf, lost, told, left, gone>>

NoPair == [login |-> 0, turn |-> 0]
NoPairs == [a \in People |-> NoPair]
Record(a, pair) == [who |-> a, pair |-> pair]
NoRecord == Record(Nobody, NoPair)
Rest == [kind |-> "rest", to |-> NoRecord, prev |-> NoRecord, heard |-> FALSE]
(* heard: its events are of the application's generation; gate: the caller that
   holds it. *)
BuiltCore(a, pair) ==
  [who |-> a, pair |-> pair, live |-> TRUE, heard |-> TRUE, expired |-> FALSE,
   gate |-> Nobody, asks |-> [k \in Callers |-> [at |-> "idle", pair |-> NoPair]],
   events |-> <<>>]
FreeCore == [BuiltCore(Nobody, NoPair) EXCEPT !.live = FALSE, !.heard = FALSE]

AccountsInit ==
  /\ \E first \in Starts, active \in People :
       /\ first = NoPairs \/ first[active] # NoPair
       /\ keychain = [active |-> IF first = NoPairs THEN Nobody ELSE active, pairs |-> first]
       /\ issued = [l \in Logins |-> IF \E a \in People : first[a].login = l THEN 1 ELSE 0]
       /\ owner = [l \in Logins |-> IF issued[l] = 0 THEN Nobody
                                     ELSE CHOOSE a \in People : first[a].login = l]
  /\ aged = [l \in Logins |-> 0]
  /\ known = NoPairs /\ account = NoRecord /\ client = NoCore
  /\ operation = Rest /\ launched = FALSE
  /\ coreOf = [c \in Cores |-> FreeCore]
  /\ lost = {} /\ told = {} /\ gone = {}
  /\ left = [ages |-> MaxAges, changes |-> MaxChanges, mishaps |-> MaxMishaps]

Spend(what) == left[what] > 0 /\ left' = [left EXCEPT ![what] = @ - 1]
Pair(l, n) == [login |-> l, turn |-> n]
Expired(pair) == pair.turn <= aged[pair.login]

------------------------------------------------------------------------------
(* TokenProvider, in one core. *)

(* jwt_expired: inside the early margin. *)
AccessRunsOut(l) ==
  /\ issued[l] > aged[l] /\ Spend("ages")
  /\ aged' = [aged EXCEPT ![l] = issued[l]]
  /\ UNCHANGED <<issued, owner, peopleVars, coreOf, lost, told, gone>>

Asking(c, k, at, pair) == [coreOf[c] EXCEPT !.asks[k] = [at |-> at, pair |-> pair]]

(* bearer: with an access token that has run out, a refresh task. *)
Bearer(c, k) ==
  /\ coreOf[c].live /\ coreOf[c].asks[k].at = "idle"
  /\ Expired(coreOf[c].pair) /\ ~coreOf[c].expired
  /\ coreOf' = [coreOf EXCEPT ![c] = Asking(c, k, "waits", NoPair)]
  /\ UNCHANGED <<issued, owner, aged, peopleVars, lost, told, left, gone>>

MayRefresh_Always(c) == TRUE
(* refresh_gate. *)
MayRefresh(c) == coreOf[c].gate = Nobody

(* refresh_task with the gate: whoever held it before may have done the work. *)
Refresh(c, k) ==
  /\ coreOf[c].asks[k].at = "waits" /\ MayRefresh(c)
  /\ coreOf' = [coreOf EXCEPT ![c] =
       IF Expired(coreOf[c].pair) /\ ~coreOf[c].expired
       THEN [Asking(c, k, "asked", coreOf[c].pair) EXCEPT !.gate = k]
       ELSE Asking(c, k, "idle", NoPair)]
  /\ UNCHANGED <<issued, owner, aged, peopleVars, lost, told, left, gone>>

(* The service rotates the pair it issued last, and refuses an earlier one. *)
Rotate(c, k) ==
  LET pair == coreOf[c].asks[k].pair
      good == issued[pair.login] = pair.turn
  IN  /\ coreOf[c].asks[k].at = "asked"
      /\ issued' = IF good THEN [issued EXCEPT ![pair.login] = @ + 1] ELSE issued
      /\ coreOf' = [coreOf EXCEPT ![c] =
           IF good THEN Asking(c, k, "rotated", Pair(pair.login, pair.turn + 1))
           ELSE Asking(c, k, "refused", pair)]
      /\ UNCHANGED <<owner, aged, peopleVars, lost, told, left, gone>>

(* The task stores the pair itself, then tells the application. *)
Rotated(c, k) ==
  LET pair == coreOf[c].asks[k].pair
  IN  /\ coreOf[c].asks[k].at = "rotated"
      /\ coreOf' = [coreOf EXCEPT ![c] =
           [Asking(c, k, "idle", NoPair) EXCEPT
              !.gate = Nobody, !.pair = pair,
              !.events = Append(coreOf[c].events, [type |-> "refreshed", pair |-> pair])]]
      /\ UNCHANGED <<issued, owner, aged, peopleVars, lost, told, left, gone>>

Refused(c, k) ==
  /\ coreOf[c].asks[k].at = "refused"
  /\ coreOf' = [coreOf EXCEPT ![c] =
       [Asking(c, k, "idle", NoPair) EXCEPT
          !.gate = Nobody, !.expired = TRUE,
          !.events = IF coreOf[c].expired THEN coreOf[c].events
                     ELSE Append(coreOf[c].events,
                                 [type |-> "expired", pair |-> coreOf[c].asks[k].pair])]]
  /\ told' = told \cup {coreOf[c].asks[k].pair.login}
  /\ UNCHANGED <<issued, owner, aged, peopleVars, lost, left, gone>>

(* A network failure falls back to the stale token; the answer may be on its way. *)
RefreshFails(c, k) ==
  /\ coreOf[c].asks[k].at \in {"asked", "rotated"} /\ Spend("mishaps")
  /\ coreOf' = [coreOf EXCEPT ![c] = [Asking(c, k, "idle", NoPair) EXCEPT !.gate = Nobody]]
  /\ lost' = IF coreOf[c].asks[k].at = "rotated" THEN lost \cup {coreOf[c].pair.login}
             ELSE lost
  /\ UNCHANGED <<issued, owner, aged, peopleVars, told, gone>>

(* Nothing refers to a core that was shut down and has ended its tasks. *)
CoreEnds(c) ==
  /\ coreOf[c] # FreeCore /\ ~coreOf[c].live /\ coreOf[c].events = <<>>
  /\ \A k \in Callers : coreOf[c].asks[k].at = "idle"
  /\ coreOf' = [coreOf EXCEPT ![c] = FreeCore]
  /\ UNCHANGED <<issued, owner, aged, peopleVars, lost, told, left, gone>>

------------------------------------------------------------------------------
(* NativeClient. *)

Persist(active, pairs) == keychain' = [active |-> active, pairs |-> pairs]

(* A new generation: what the cores say from now on is not heard. *)
Unheard(cs) == [c \in Cores |-> [cs[c] EXCEPT !.heard = FALSE]]
(* shutdown: the core in use is told to stop. *)
Stopped(cs) == Unheard(IF client = NoCore THEN cs ELSE [cs EXCEPT ![client].live = FALSE])
Unsettled(c) == coreOf[c].events # <<>> \/ \E k \in Callers : coreOf[c].asks[k].at # "idle"
Adrift == {coreOf[c].pair.login : c \in {d \in Cores : Unsettled(d)}}

(* start, up to its wait for the core. *)
Start(kind, record, prev) ==
  /\ coreOf' = Stopped(coreOf)
  /\ lost' = lost \cup Adrift
  /\ client' = NoCore /\ account' = record
  /\ operation' = [kind |-> kind, to |-> record, prev |-> prev, heard |-> TRUE]

(* restore: the active account, or any; guarded by a client that is there. *)
Restore ==
  /\ operation = Rest /\ ~launched /\ client = NoCore
  /\ launched' = TRUE
  /\ known' = keychain.pairs
  /\ \/ /\ keychain.pairs = NoPairs
        /\ UNCHANGED <<account, client, operation, coreOf, lost>>
     \/ \E a \in People :
          /\ keychain.pairs[a] # NoPair
          /\ keychain.pairs[keychain.active] # NoPair => a = keychain.active
          /\ Start("open", Record(a, keychain.pairs[a]), NoRecord)
  /\ UNCHANGED <<issued, owner, aged, keychain, told, left, gone>>

(* The core is built from the pair that was known when the start began. *)
Opened ==
  /\ operation.kind \in {"open", "switch"}
  /\ \E c \in Cores :
       /\ coreOf[c] = FreeCore
       /\ coreOf' = [coreOf EXCEPT ![c] = BuiltCore(operation.to.who, operation.to.pair)]
       /\ client' = c
  /\ operation' = Rest
  /\ UNCHANGED <<issued, owner, aged, keychain, known, account, launched, lost, told, left,
                 gone>>

BackTo(a) == Persist(a, known)

(* A failed start: a switch and a sign-in go back to the account before. *)
OpenFails ==
  /\ operation.kind \in {"open", "switch"} /\ Spend("mishaps")
  /\ IF operation.kind = "switch" /\ operation.prev # NoRecord
     THEN /\ BackTo(operation.prev.who)
          /\ Start("open", operation.prev, NoRecord)
     ELSE /\ coreOf' = Stopped(coreOf) /\ lost' = lost \cup Adrift
          /\ client' = NoCore /\ account' = NoRecord /\ operation' = Rest
          /\ UNCHANGED keychain
  /\ UNCHANGED <<issued, owner, aged, known, launched, told, gone>>

(* switchAccount. *)
Switch(a) ==
  /\ operation = Rest /\ account # NoRecord /\ a # account.who /\ known[a] # NoPair
  /\ Spend("changes")
  /\ Persist(a, known)
  /\ Start("switch", Record(a, known[a]), account)
  /\ UNCHANGED <<issued, owner, aged, known, launched, told, gone>>

(* selectOrganization: the pair of a login is first scoped to the organization. *)
SignIn(a) ==
  /\ operation = Rest /\ launched /\ Spend("changes")
  /\ operation' = [Rest EXCEPT !.kind = "scope", !.to = Record(a, NoPair), !.heard = TRUE]
  /\ UNCHANGED <<issued, owner, aged, keychain, known, account, client, launched, coreOf,
                 lost, told, gone>>

(* The record is remembered, then saved and opened; a failed save ends it there. *)
Scoped ==
  /\ operation.kind = "scope" /\ operation.heard
  /\ \E l \in Logins :
       /\ issued[l] = 0 /\ \A m \in Logins : m < l => issued[m] > 0
       /\ issued' = [issued EXCEPT ![l] = 1] /\ owner' = [owner EXCEPT ![l] = operation.to.who]
       /\ known' = [known EXCEPT ![operation.to.who] = Pair(l, 1)]
       /\ \/ /\ Persist(operation.to.who, known')
             /\ Start("switch", Record(operation.to.who, Pair(l, 1)), account)
             /\ UNCHANGED left
          \/ /\ Spend("mishaps") /\ operation' = Rest
             /\ UNCHANGED <<keychain, account, client, coreOf, lost>>
  /\ gone' = gone \ {operation.to.who}
  /\ UNCHANGED <<aged, launched, told>>

(* It fails, or its generation is over. *)
ScopeEnds ==
  /\ operation.kind = "scope"
  /\ operation' = Rest
  /\ UNCHANGED <<issued, owner, aged, keychain, known, account, client, launched, coreOf,
                 lost, told, left, gone>>

(* signOut, up to the leases of queued edits it gives back. *)
SignOut ==
  /\ operation = Rest /\ account # NoRecord /\ Spend("changes")
  /\ operation' = [Rest EXCEPT !.kind = "leave", !.to = account]
  /\ coreOf' = Unheard(coreOf)
  /\ lost' = lost \cup Adrift
  /\ UNCHANGED <<issued, owner, aged, keychain, known, account, client, launched, told, gone>>

(* The record goes and the next account becomes active, unless the save fails;
   either way AppModel takes a new NativeClient, which restores what is saved. *)
SignedOut ==
  /\ operation.kind = "leave"
  /\ LET rest == [known EXCEPT ![operation.to.who] = NoPair]
     IN  \/ /\ \E next \in People \cup {Nobody} :
                 /\ IF rest = NoPairs THEN next = Nobody ELSE next # Nobody /\ rest[next] # NoPair
                 /\ Persist(next, rest)
            /\ gone' = gone \cup {operation.to.who} /\ UNCHANGED left
         \/ Spend("mishaps") /\ UNCHANGED <<keychain, gone>>
  /\ coreOf' = Stopped(coreOf)
  /\ lost' = lost \cup Adrift
  /\ known' = NoPairs /\ account' = NoRecord /\ client' = NoCore /\ operation' = Rest
  /\ launched' = FALSE
  /\ UNCHANGED <<issued, owner, aged, told>>

Heard_Always(c) == TRUE
(* The listener's generation guard. *)
Heard(c) == coreOf[c].heard

(* receive, of the oldest event of a core.  A rotated pair goes into the record of
   the account in use, and to the keychain; a failed save ends the session. *)
Receive(c) ==
  /\ coreOf[c].events # <<>>
  /\ LET event == Head(coreOf[c].events)
         after == [coreOf EXCEPT ![c].events = Tail(@)]
         ends  == /\ coreOf' = Stopped(after) /\ client' = NoCore
                  /\ lost' = lost \cup Adrift
                  /\ operation' = [operation EXCEPT !.heard = FALSE]
     IN  \/ /\ ~Heard(c) \/ (event.type = "refreshed" /\ account = NoRecord)
            /\ coreOf' = after
            /\ lost' = IF event.type = "refreshed" THEN lost \cup {event.pair.login} ELSE lost
            /\ UNCHANGED <<keychain, known, account, client, operation, left>>
         \/ /\ Heard(c) /\ event.type = "refreshed" /\ account # NoRecord
            /\ known' = [known EXCEPT ![account.who] = event.pair]
            /\ \/ /\ Persist(account.who, known') /\ coreOf' = after
                  /\ account' = Record(account.who, event.pair)
                  /\ UNCHANGED <<client, operation, lost, left>>
               \/ Spend("mishaps") /\ ends /\ UNCHANGED <<keychain, account>>
         \/ /\ Heard(c) /\ event.type = "expired"
            /\ ends
            /\ UNCHANGED <<keychain, known, account, left>>
  /\ UNCHANGED <<issued, owner, aged, launched, told, gone>>

(* The process is killed; a request on its way may still be served. *)
AppKilled ==
  /\ Spend("mishaps")
  /\ lost' = lost \cup Adrift
  /\ issued' \in [Logins -> {issued[l] : l \in Logins} \cup {issued[l] + 1 : l \in Logins}]
  /\ \A l \in Logins :
       \/ issued'[l] = issued[l]
       \/ /\ issued'[l] = issued[l] + 1
          /\ \E c \in Cores, k \in Callers :
               coreOf[c].asks[k] = [at |-> "asked", pair |-> Pair(l, issued[l])]
  /\ coreOf' = [c \in Cores |-> FreeCore]
  /\ known' = NoPairs /\ account' = NoRecord /\ client' = NoCore /\ operation' = Rest
  /\ launched' = FALSE
  /\ UNCHANGED <<owner, aged, keychain, told, gone>>

AccountsNext ==
  \/ \E l \in Logins : AccessRunsOut(l)
  \/ \E c \in Cores, k \in Callers :
       Bearer(c, k) \/ Refresh(c, k) \/ Rotate(c, k) \/ Rotated(c, k) \/ Refused(c, k)
       \/ RefreshFails(c, k)
  \/ \E c \in Cores : CoreEnds(c) \/ Receive(c)
  \/ Restore \/ Opened \/ OpenFails
  \/ \E a \in People : Switch(a) \/ SignIn(a)
  \/ Scoped \/ ScopeEnds \/ SignOut \/ SignedOut
  \/ AppKilled
AccountsSpec == AccountsInit /\ [][AccountsNext]_accountsVars

------------------------------------------------------------------------------
(* auth.rs: "WorkOS refresh tokens are single-use: TokenProvider single-flights
   every refresh".  The service refuses a pair, which signs the user out, only if
   a later one was lost: its answer or its save failed, or a switch, a sign-out or
   a kill came between the rotation and the keychain. *)
ExpiryHonest == told \subseteq lost

(* Each record holds a pair of its own account, in memory and in the keychain; an
   account signed out is in neither, whatever its core still reports; and between
   operations the running core is the active account's. *)
RecordsHonest ==
  /\ \A a \in People : \A pair \in {known[a], keychain.pairs[a]} :
       pair # NoPair => owner[pair.login] = a
  /\ \A a \in gone : known[a] = NoPair /\ keychain.pairs[a] = NoPair
  /\ operation = Rest /\ client # NoCore =>
       coreOf[client].who = account.who /\ keychain.active = account.who
==============================================================================
