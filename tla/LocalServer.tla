---------------------------- MODULE LocalServer ----------------------------
(***************************************************************************)
(* "iamzero local": invocations write a fresh token to the configuration   *)
(* file of the user, open the Bolt file, whose lock one process has, and   *)
(* serve a collector and a console, which share an in-memory token store.  *)
(* Clients take their settings from the file, or a token from the console, *)
(* and send events; the console creates and deletes tokens meanwhile.      *)
(*                                                                         *)
(* The store is a Go slice without a lock.  Get loads the two words of its *)
(* header and then one element at a time, while Create writes an element,  *)
(* the length and, if the array is full, the address of a larger copy, in  *)
(* an order that Go leaves open, and Delete shifts elements in place.      *)
(***************************************************************************)
EXTENDS Naturals, SequencesExt

CONSTANTS
  Invocations, \* runs of the command that may overlap
  Clients,     \* requests to the collector that may overlap
  Users,       \* requests to the console that may overlap
  Tokens,      \* random ids, the bound on Create
  Files,       \* what the configuration file may be at first
  None         \* no file, no process, an unused element

(* Its keys, and by whom it was written; "other" is a server elsewhere. *)
File == [token : Tokens, url : {"console", "collector", "other"}, by : Invocations \cup {None}]

ASSUME LocalAssumption ==
  /\ IsFiniteSet(Tokens) /\ None \notin Tokens \cup Invocations \cup File
  /\ Files \subseteq File \cup {None}

VARIABLES
  file,    \* ~/.iamzero.ini
  lock,    \* the process that has the Bolt file open
  pc,      \* what each invocation does next
  own,     \* the token each invocation created
  arrays,  \* the arrays of the serving process's store, in order of allocation
  slice,   \* s.tokens: the array, and how many elements of it
  user,    \* the requests to the console
  client,  \* the clients and their requests
  created, revoked, \* tokens whose Create, whose Delete the server answered
  drawn    \* ids drawn, none of them twice

vars == <<file, lock, pc, own, arrays, slice, user, client, created, revoked, drawn>>

store == <<arrays, slice, created, revoked>>

Slice == [array : Nat, len : Nat]

(* What an append writes. *)
Parts == {"array", "len", "element"}

User == [pc : {"idle"}]
        \cup [pc : {"append"}, token : Tokens, slice : Slice, unwritten : SUBSET Parts]
        \cup [pc : {"shift"}, token : Tokens, slice : Slice, at : Nat]

(* fate is what the answer to a request has to be: the token was stored and *)
(* is not being deleted, it was not known or deleted before, or either.     *)
Fate == {"valid", "unknown", "either"}

Client == [pc : {"idle"}]
          \cup [pc : {"ready"}, conf : File]
          \cup [pc : {"loading"}, conf : File, word : {"array", "len"}, value : Nat, fate : Fate]
          \cup [pc : {"reading"}, conf : File, slice : Slice, at : Nat, fate : Fate]
          \cup [pc : {"accepted", "rejected"}, conf : File, fate : Fate]

Idle == [pc |-> "idle"]

Fits(s) == s.array \in DOMAIN arrays /\ s.len \in 0..Len(arrays[s.array])

TypeOK ==
  /\ file \in File \cup {None}
  /\ lock \in Invocations \cup {None}
  /\ pc \in [Invocations -> {"off", "token", "found", "absent", "saved", "serving"}]
  /\ own \in [Invocations -> Tokens \cup {None}]
  /\ arrays \in Seq(Seq(Tokens \cup {None}))
  /\ slice \in Slice
  /\ user \in [Users -> User]
  /\ lock # None /\ (\A u \in Users : user[u] = Idle) => Fits(slice)
  /\ \A u \in Users : user[u] # Idle => Fits(user[u].slice)
  /\ client \in [Clients -> Client]
  /\ created \subseteq drawn /\ revoked \subseteq created
  /\ drawn \subseteq Tokens

Init ==
  /\ file \in Files
  /\ lock = None
  /\ pc = [p \in Invocations |-> "off"] /\ own = [p \in Invocations |-> None]
  /\ arrays = <<>> /\ slice = [array |-> 0, len |-> 0]
  /\ user = [u \in Users |-> Idle] /\ client = [c \in Clients |-> Idle]
  /\ created = {} /\ revoked = {}
  /\ drawn = IF file = None THEN {} ELSE {file.token}

-----------------------------------------------------------------------------
(* The token store. *)

(* An element of an array; what is behind the array is no token. *)
Element(array, k) ==
  IF array \in DOMAIN arrays /\ k \in DOMAIN arrays[array] THEN arrays[array][k] ELSE None

Stored == [k \in 1..slice.len |-> Element(slice.array, k)]

(* Mutant: off by one. *)
Full_OffByOne == slice.len > Len(arrays[slice.array])

Full == slice.len = Len(arrays[slice.array])

(* Mutant: a full array is replaced by an empty one. *)
Grown_Fresh == IF Full THEN Append(arrays, [k \in 1..(2 * slice.len + 1) |-> None]) ELSE arrays

(* For append a full array is copied to one twice as large. *)
Grown ==
  IF Full
  THEN Append(arrays, [k \in 1..Max({1, 2 * slice.len}) |->
                         IF k <= slice.len THEN arrays[slice.array][k] ELSE None])
  ELSE arrays

Served == {p \in Invocations : pc[p] = "serving"}

Sent(c) == client[c].pc \in {"loading", "reading"}

(* The requests that a Delete overlaps may miss any token. *)
BesideDelete(c) ==
  IF Sent(c) /\ client[c].fate = "valid" THEN [client[c] EXCEPT !.fate = "either"] ELSE client[c]

(* Those that a Create overlaps may find the deleted token whose place the  *)
(* new one takes: the length may be written before the element.             *)
BesideCreate(c) ==
  IF Sent(c) /\ client[c].fate = "unknown" /\ client[c].conf.token \in revoked
  THEN [client[c] EXCEPT !.fate = "either"] ELSE client[c]

(* CreateToken: append finds or makes room, and writes nothing yet. *)
Create(u, token) ==
  /\ user[u] = Idle /\ Served # {}
  /\ token \notin drawn /\ drawn' = drawn \cup {token}
  /\ arrays' = Grown
  /\ user' = [user EXCEPT ![u] =
       [pc |-> "append", token |-> token,
        slice |-> [array |-> IF Full THEN Len(arrays') ELSE slice.array, len |-> slice.len + 1],
        unwritten |-> IF Full THEN Parts ELSE Parts \ {"array"}]]
  /\ client' = [c \in Clients |-> BesideCreate(c)]
  /\ UNCHANGED <<file, lock, pc, own, slice, created, revoked>>

(* The words of s.tokens and the element, in any order. *)
WriteHeader(u, word) ==
  /\ user[u].pc = "append" /\ word \in user[u].unwritten \cap {"array", "len"}
  /\ slice' = [slice EXCEPT ![word] = user[u].slice[word]]
  /\ user' = [user EXCEPT ![u].unwritten = @ \ {word}]
  /\ UNCHANGED <<file, lock, pc, own, arrays, client, created, revoked, drawn>>

WriteElement(u) ==
  LET new == user[u]
  IN  /\ new.pc = "append" /\ "element" \in new.unwritten
      /\ arrays' = [arrays EXCEPT ![new.slice.array][new.slice.len] = new.token]
      /\ user' = [user EXCEPT ![u].unwritten = @ \ {"element"}]
      /\ UNCHANGED <<file, lock, pc, own, slice, client, created, revoked, drawn>>

CreateEnds(u) ==
  /\ user[u].pc = "append" /\ user[u].unwritten = {}
  /\ created' = created \cup {user[u].token}
  /\ user' = [user EXCEPT ![u] = Idle]
  /\ UNCHANGED <<file, lock, pc, own, arrays, slice, client, revoked, drawn>>

(* DeleteToken finds the token; one that is not stored needs nothing. *)
Delete(u, token) ==
  /\ user[u] = Idle /\ Served # {}
  /\ \E k \in DOMAIN Stored :
       /\ Stored[k] = token /\ \A j \in 1..(k - 1) : Stored[j] # token
       /\ user' = [user EXCEPT ![u] = [pc |-> "shift", token |-> token, slice |-> slice, at |-> k]]
  /\ client' = [c \in Clients |-> BesideDelete(c)]
  /\ UNCHANGED <<file, lock, pc, own, store, drawn>>

(* copy(slice[i:], slice[i+1:]), an element at a time. *)
Shift(u) ==
  LET del == user[u]
      array == del.slice.array
  IN  /\ del.pc = "shift" /\ del.at < del.slice.len
      /\ arrays' = [arrays EXCEPT ![array][del.at] = arrays[array][del.at + 1]]
      /\ user' = [user EXCEPT ![u].at = del.at + 1]
      /\ UNCHANGED <<file, lock, pc, own, slice, client, created, revoked, drawn>>

(* Mutant: the slice keeps its length. *)
DeleteEnds_KeepsLength(u) ==
  /\ user[u].pc = "shift" /\ user[u].at = user[u].slice.len
  /\ slice' = user[u].slice
  /\ revoked' = revoked \cup {user[u].token}
  /\ user' = [user EXCEPT ![u] = Idle]
  /\ UNCHANGED <<file, lock, pc, own, arrays, client, created, drawn>>

DeleteEnds(u) ==
  /\ user[u].pc = "shift" /\ user[u].at = user[u].slice.len
  /\ slice' = [user[u].slice EXCEPT !.len = @ - 1]
  /\ revoked' = revoked \cup {user[u].token}
  /\ user' = [user EXCEPT ![u] = Idle]
  /\ UNCHANGED <<file, lock, pc, own, arrays, client, created, drawn>>

-----------------------------------------------------------------------------
(* Clients and the collector's token check. *)

(* A client reads the file, or is given a token that the console showed. *)
Configure(c) ==
  /\ client[c].pc \in {"idle", "ready", "accepted", "rejected"}
  /\ \E conf \in (IF file = None THEN {} ELSE {file})
                 \cup [token : created, url : {"collector"}, by : {None}] :
       client' = [client EXCEPT ![c] = [pc |-> "ready", conf |-> conf]]
  /\ UNCHANGED <<file, lock, pc, own, user, store, drawn>>

(* A token may be one of an earlier server, or of one elsewhere. *)
FateOf(token) ==
  CASE token \in created \ revoked /\ \A u \in Users : user[u].pc # "shift" -> "valid"
    [] /\ token \notin created \ revoked
       /\ \A u \in Users : user[u] # Idle => user[u].token # token
       /\ token \in revoked => \A u \in Users : user[u].pc # "append" -> "unknown"
    [] OTHER -> "either"

(* CollectorTokenAuth calls Get, whose loop loads one word of s.tokens. *)
Send(c) ==
  /\ client[c].pc = "ready" /\ client[c].conf.url = "collector" /\ Served # {}
  /\ \E word \in {"array", "len"} :
       client' = [client EXCEPT ![c] =
         [pc |-> "loading", conf |-> client[c].conf, word |-> word, value |-> slice[word],
          fate |-> FateOf(client[c].conf.token)]]
  /\ UNCHANGED <<file, lock, pc, own, user, store, drawn>>

(* And then the other, as it is by now. *)
Load(c) ==
  LET get == client[c]
  IN  /\ get.pc = "loading"
      /\ client' = [client EXCEPT ![c] =
           [pc |-> "reading", conf |-> get.conf, slice |-> [slice EXCEPT ![get.word] = get.value],
            at |-> 1, fate |-> get.fate]]
      /\ UNCHANGED <<file, lock, pc, own, user, store, drawn>>

(* Mutant: the last element is not looked at. *)
Get_NotTheLast(c) ==
  LET get == client[c]
      Answer(answer) == [pc |-> answer, conf |-> get.conf, fate |-> get.fate]
  IN  /\ get.pc = "reading"
      /\ client' = [client EXCEPT ![c] =
           IF get.at >= get.slice.len THEN Answer("rejected")
           ELSE IF Element(get.slice.array, get.at) = get.conf.token THEN Answer("accepted")
           ELSE [get EXCEPT !.at = @ + 1]]
      /\ UNCHANGED <<file, lock, pc, own, user, store, drawn>>

(* One turn of the loop.  Without the token Get returns nil and no error,   *)
(* which the handler of the batch answers with "invalid token".             *)
Get(c) ==
  LET get == client[c]
      Answer(answer) == [pc |-> answer, conf |-> get.conf, fate |-> get.fate]
  IN  /\ get.pc = "reading"
      /\ client' = [client EXCEPT ![c] =
           IF get.at > get.slice.len THEN Answer("rejected")
           ELSE IF Element(get.slice.array, get.at) = get.conf.token THEN Answer("accepted")
           ELSE [get EXCEPT !.at = @ + 1]]
      /\ UNCHANGED <<file, lock, pc, own, user, store, drawn>>

-----------------------------------------------------------------------------
(* The command. *)

CreateLocalToken(p, token) ==
  /\ pc[p] = "off"
  /\ token \notin drawn /\ drawn' = drawn \cup {token}
  /\ pc' = [pc EXCEPT ![p] = "token"] /\ own' = [own EXCEPT ![p] = token]
  /\ UNCHANGED <<file, lock, store, user, client>>

(* Stat finds the file and Load reads it, or there is none. *)
LoadConfig(p) ==
  /\ pc[p] = "token"
  /\ pc' = [pc EXCEPT ![p] = IF file = None THEN "absent" ELSE "found"]
  /\ UNCHANGED <<file, lock, own, store, user, client, drawn>>

(* Mutant: a file that exists keeps its token. *)
SaveConfig_KeepsToken(p) ==
  /\ pc[p] \in {"found", "absent"}
  /\ file' = [token |-> IF pc[p] = "absent" THEN own[p] ELSE file.token, by |-> p,
              url |-> IF pc[p] = "absent" THEN "console" ELSE "collector"]
  /\ pc' = [pc EXCEPT ![p] = "saved"]
  /\ UNCHANGED <<lock, own, store, user, client, drawn>>

(* SaveTo writes the token, with the collector's URL if the file was there  *)
(* and the console's if it was not, over what others have written since.    *)
SaveConfig(p) ==
  /\ pc[p] \in {"found", "absent"}
  /\ file' = [token |-> own[p], by |-> p,
              url |-> IF pc[p] = "absent" THEN "console" ELSE "collector"]
  /\ pc' = [pc EXCEPT ![p] = "saved"]
  /\ UNCHANGED <<lock, own, store, user, client, drawn>>

(* OpenBoltDB, and Start of the collector and of the console. *)
Serve(p) ==
  /\ pc[p] = "saved" /\ lock = None
  /\ lock' = p /\ pc' = [pc EXCEPT ![p] = "serving"]
  /\ arrays' = << <<own[p]>> >> /\ slice' = [array |-> 1, len |-> 1]
  /\ created' = {own[p]}
  /\ UNCHANGED <<file, own, user, client, revoked, drawn>>

(* The file cannot be read or written, or the Bolt file is locked. *)
Exit(p) ==
  /\ pc[p] \in {"token", "found", "absent", "saved"}
  /\ pc' = [pc EXCEPT ![p] = "off"] /\ own' = [own EXCEPT ![p] = None]
  /\ UNCHANGED <<file, lock, store, user, client, drawn>>

(* The server ends, by a signal or not, and its store and requests with it. *)
Stop(p) ==
  /\ pc[p] = "serving"
  /\ lock' = None
  /\ pc' = [pc EXCEPT ![p] = "off"] /\ own' = [own EXCEPT ![p] = None]
  /\ arrays' = <<>> /\ slice' = [array |-> 0, len |-> 0]
  /\ created' = {} /\ revoked' = {}
  /\ user' = [u \in Users |-> Idle]
  /\ client' = [c \in Clients |-> IF client[c].pc = "idle" THEN Idle
                                  ELSE [pc |-> "ready", conf |-> client[c].conf]]
  /\ UNCHANGED <<file, drawn>>

Next ==
  \/ \E u \in Users, token \in Tokens : Create(u, token) \/ Delete(u, token)
  \/ \E u \in Users, word \in {"array", "len"} : WriteHeader(u, word)
  \/ \E u \in Users : WriteElement(u) \/ CreateEnds(u) \/ Shift(u) \/ DeleteEnds(u)
  \/ \E c \in Clients : Configure(c) \/ Send(c) \/ Load(c) \/ Get(c)
  \/ \E p \in Invocations, token \in Tokens : CreateLocalToken(p, token)
  \/ \E p \in Invocations : LoadConfig(p) \/ SaveConfig(p) \/ Serve(p) \/ Exit(p) \/ Stop(p)

Spec == Init /\ [][Next]_vars

-----------------------------------------------------------------------------
(* CollectorTokenAuth: no request is accepted with a token that this server *)
(* never had, wherever its Get is when tokens are created and deleted in    *)
(* the array it ranges over, and none with a token that was deleted before  *)
(* it, unless a Create overlaps it.                                         *)
UnknownIsRejected ==
  \A c \in Clients : client[c].pc = "accepted" => client[c].fate # "unknown"

(* A request with a stored token is accepted, unless a Delete overlaps it:  *)
(* Create never hides a token from a Get, in whatever order the two words   *)
(* of the slice are written by the one and loaded by the other.             *)
ValidIsAccepted ==
  \A c \in Clients : client[c].pc = "rejected" => client[c].fate # "valid"

(* With one request of the console at a time the store has each token that  *)
(* was created and not deleted once, and no other.                          *)
KeepsItsTokens ==
  (\A u \in Users : user[u] = Idle) =>
    /\ ToSet(Stored) = created \ revoked
    /\ Len(Stored) = Cardinality(created \ revoked)

(* "put the token into our in-memory token storage so that the user can     *)
(* send events": the server that wrote the file last knows the token in it, *)
(* whatever was created and deleted since, but for that token itself; and   *)
(* the file leads clients to the collector.                                 *)
ConfigNamesTheServer ==
  \A p \in Served : file.by = p =>
    /\ file.url = "collector"
    /\ \/ file.token \in ToSet(Stored) \cup revoked
       \/ \E u \in Users : user[u].pc = "shift" /\ user[u].token = file.token
=============================================================================
