------------------------- MODULE LocalServerProofs -------------------------
(***************************************************************************)
(* Tokens of "iamzero local" for any number of invocations, clients and    *)
(* tokens, when the console makes one request at a time.                   *)
(***************************************************************************)
EXTENDS LocalServer, FiniteSetTheorems, TLAPS

(* The console waits for the answer to a request before it makes another.  *)
OneAtATime == \A u, v \in Users : u = v

(* The command: who serves has the lock, its token was drawn and, once     *)
(* saved, is in the file as long as nobody else saves.                     *)
CommandInv ==
  /\ \A p \in Invocations : pc[p] = "serving" <=> lock = p
  /\ \A p \in Invocations : pc[p] # "off" => own[p] \in drawn
  /\ \A p \in Invocations : pc[p] = "serving" => own[p] \in created
  /\ file # None => file.token \in drawn
  /\ \A p \in Invocations : pc[p] \in {"saved", "serving"} =>
       file # None /\ (file.by = p => file.token = own[p])

(* The memory of the store: what a load of an element may read.            *)
Rows == [a \in Nat |-> [k \in Nat |-> Element(a, k)]]

(* The first len elements of a row, without the one at hole, are the       *)
(* tokens of S, each once.                                                 *)
Holds(array, len, hole, S) ==
  /\ \A j \in 1..len : j # hole => array[j] \in S
  /\ \A j, k \in 1..len : j # hole /\ k # hole /\ array[j] = array[k] => j = k
  /\ \A token \in S : \E j \in 1..len : j # hole /\ array[j] = token

(* While append writes, in any order, the elements before the new one are  *)
(* the stored tokens in the old array and in the new one.                  *)
Appending(u) ==
  LET new == user[u]
  IN  /\ new.token \in drawn \ created
      /\ new.slice.len >= 1
      /\ "array" \notin new.unwritten => slice.array = new.slice.array
      /\ slice.len = IF "len" \in new.unwritten THEN new.slice.len - 1 ELSE new.slice.len
      /\ Holds(Rows[slice.array], new.slice.len - 1, 0, created \ revoked)
      /\ \A k \in 1..(new.slice.len - 1) : Rows[new.slice.array][k] = Rows[slice.array][k]
      /\ "element" \notin new.unwritten => Rows[new.slice.array][new.slice.len] = new.token

(* While copy shifts, one element is there twice or is the deleted one.    *)
Shifting(u) ==
  LET del == user[u]
  IN  /\ del.token \in created \ revoked
      /\ del.slice = slice
      /\ del.at \in 1..slice.len
      /\ Rows[slice.array][del.at] \in created \ revoked
      /\ Holds(Rows[slice.array], slice.len, del.at, (created \ revoked) \ {del.token})

(* The store before a Create or a Delete, and after each of their steps.   *)
StoreInv ==
  /\ lock = None => /\ arrays = <<>> /\ slice.array = 0 /\ slice.len = 0
                    /\ created = {} /\ revoked = {}
  /\ \A u \in Users : user[u] # Idle => lock # None
  /\ \A a, k \in Nat : Rows[a][k] \in created \cup {None}
                      \/ \E u \in Users : user[u].pc = "append" /\ user[u].token = Rows[a][k]
  /\ (\A u \in Users : user[u] = Idle) =>
       Holds(Rows[slice.array], slice.len, 0, created \ revoked)
  /\ \A u \in Users : user[u].pc = "append" => Appending(u)
  /\ \A u \in Users : user[u].pc = "shift" => Shifting(u)

(* The slice that a request will range over, if the rest of it is loaded now. *)
Seen(c) ==
  LET get == client[c]
  IN  IF get.pc = "loading"
      THEN [array |-> IF get.word = "array" THEN get.value ELSE slice.array,
            len   |-> IF get.word = "len" THEN get.value ELSE slice.len]
      ELSE get.slice

(* Where it is in it. *)
Position(c) == IF client[c].pc = "loading" THEN 1 ELSE client[c].at

(* No array has a token that was never created, and what the request sees   *)
(* has none that was deleted, while nobody appends.                         *)
MissesUnknown(c) ==
  LET token == client[c].conf.token
  IN  /\ token \notin created \ revoked
      /\ \A u \in Users : user[u].pc = "append" => user[u].token # token /\ token \notin revoked
      /\ token \in revoked => \A k \in 1..Seen(c).len : Rows[Seen(c).array][k] # token

(* An element that no append writes. *)
Settled(k) ==
  /\ k \in 1..slice.len
  /\ \A u \in Users : user[u].pc = "append" => k < user[u].slice.len

(* A request with a valid token finds it at or after its position: nobody   *)
(* shifts, and the element is in the array it sees and in the current one.  *)
FindsValid(c) ==
  LET token == client[c].conf.token
  IN  /\ \A u \in Users : user[u].pc # "shift"
      /\ \E k \in Position(c)..Seen(c).len :
           Settled(k) /\ Rows[Seen(c).array][k] = token /\ Rows[slice.array][k] = token

(* What is known of a client's request at each point. *)
RequestInv(c) ==
  /\ client[c].pc # "idle" => client[c].conf.token \in drawn
  /\ client[c].pc \in {"loading", "reading", "accepted", "rejected"} => lock # None
  /\ client[c].pc = "reading" => client[c].at >= 1
  /\ Sent(c) /\ client[c].fate = "unknown" => MissesUnknown(c)
  /\ Sent(c) /\ client[c].fate = "valid" => FindsValid(c)
  /\ client[c].pc = "accepted" => client[c].fate # "unknown"
  /\ client[c].pc = "rejected" => client[c].fate # "valid"

(* Every client's request, wherever it is. *)
ClientInv == \A c \in Clients : RequestInv(c)

(* The inductive invariant. *)
IInv == TypeOK /\ CommandInv /\ StoreInv /\ ClientInv

-----------------------------------------------------------------------------
(* What append and copy do to the tokens that an array holds. *)

LEMMA HoldsSame ==
  ASSUME NEW array, NEW copy, NEW len \in Nat, NEW hole, NEW S,
         Holds(array, len, hole, S), \A k \in 1..len : copy[k] = array[k]
  PROVE  Holds(copy, len, hole, S)
BY DEF Holds

(* append, where the element after the last is free. *)
LEMMA HoldsAppended ==
  ASSUME NEW array, NEW copy, NEW len \in Nat, NEW S, NEW token, token \notin S,
         Holds(array, len, 0, S), \A k \in 1..len : copy[k] = array[k],
         copy[len + 1] = token
  PROVE  Holds(copy, len + 1, 0, S \cup {token})
<1>1. \A j \in 1..(len + 1) : j \in 1..len \/ j = len + 1
  OBVIOUS
<1>2. \A j \in 1..len : j \in 1..(len + 1) /\ j # 0 /\ copy[j] \in S
  BY DEF Holds
<1>3. len + 1 \in 1..(len + 1) /\ len + 1 # 0
  OBVIOUS
<1>4. \A j, k \in 1..(len + 1) : copy[j] = copy[k] => j = k
  BY <1>1, <1>2 DEF Holds
<1>5. \A t \in S \cup {token} : \E j \in 1..(len + 1) : j # 0 /\ copy[j] = t
  BY <1>2, <1>3 DEF Holds
<1> QED BY <1>1, <1>2, <1>4, <1>5 DEF Holds

(* The element to delete is where the hole begins. *)
LEMMA HoldsWithout ==
  ASSUME NEW array, NEW len \in Nat, NEW S, NEW at \in 1..len, Holds(array, len, 0, S)
  PROVE  array[at] \in S /\ Holds(array, len, at, S \ {array[at]})
BY DEF Holds

(* The element behind the hole is moved into it. *)
LEMMA HoldsShifted ==
  ASSUME NEW array, NEW copy, NEW len \in Nat, NEW S, NEW at \in 1..len, at < len,
         Holds(array, len, at, S), copy[at] = array[at + 1],
         \A k \in 1..len : k # at => copy[k] = array[k]
  PROVE  Holds(copy, len, at + 1, S)
<1>1. at + 1 \in 1..len /\ at + 1 # at
  OBVIOUS
<1>2. \A j \in 1..len : j # at + 1 =>
        copy[j] = array[IF j = at THEN at + 1 ELSE j]
  BY <1>1
<1>3. \A j \in 1..len : j # at + 1 =>
        /\ (IF j = at THEN at + 1 ELSE j) \in 1..len
        /\ (IF j = at THEN at + 1 ELSE j) # at
  BY <1>1
<1>4. \A j \in 1..len : j # at + 1 => copy[j] \in S
  BY <1>2, <1>3 DEF Holds
<1>5. ASSUME NEW j \in 1..len, NEW k \in 1..len, j # at + 1, k # at + 1, copy[j] = copy[k]
      PROVE  j = k
  <2>1. (IF j = at THEN at + 1 ELSE j) = (IF k = at THEN at + 1 ELSE k)
    BY <1>2, <1>3, <1>5 DEF Holds
  <2> QED BY <1>5, <2>1
<1>6. ASSUME NEW t \in S
      PROVE  \E j \in 1..len : j # at + 1 /\ copy[j] = t
  <2>1. PICK j \in 1..len : j # at /\ array[j] = t
    BY DEF Holds
  <2>2. CASE j = at + 1
    BY <1>1, <2>1, <2>2
  <2>3. CASE j # at + 1
    BY <2>1, <2>3
  <2> QED BY <2>2, <2>3
<1> QED BY <1>4, <1>5, <1>6 DEF Holds

(* The last element is cut off when the hole has reached it. *)
LEMMA HoldsCut ==
  ASSUME NEW array, NEW len \in Nat, NEW S, len >= 1, Holds(array, len, len, S)
  PROVE  Holds(array, len - 1, 0, S)
<1>1. \A j \in 1..(len - 1) : j \in 1..len /\ j # len /\ j # 0
  OBVIOUS
<1>2. \A j \in 1..len : j # len => j \in 1..(len - 1)
  OBVIOUS
<1> QED BY <1>1, <1>2 DEF Holds

(* An array that holds tokens has as many elements. *)
LEMMA HoldsCount ==
  ASSUME NEW array, NEW len \in Nat, NEW S, Holds(array, len, 0, S)
  PROVE  S = {array[j] : j \in 1..len} /\ Cardinality(S) = len
<1>1. \A j \in 1..len : j # 0
  OBVIOUS
<1>2. S = {array[j] : j \in 1..len}
  BY <1>1 DEF Holds
<1> DEFINE g == [j \in 1..len |-> array[j]]
<1>3. g \in Bijection(1..len, S)
  BY <1>1, <1>2 DEF Holds, Bijection, Injection, Surjection, IsInjective
<1>4. ExistsBijection(1..len, S)
  BY <1>3 DEF ExistsBijection
<1> QED BY <1>2, <1>4, FS_CountingElements

-----------------------------------------------------------------------------
(* What a step of the console does to the arrays. *)

(* The arrays that slices of tokens are made of. *)
Arrays == Seq(Seq(Tokens \cup {None}))

(* They are sequences, and what they hold are tokens. *)
LEMMA ArraysKnown ==
  ASSUME NEW copy \in Arrays
  PROVE  /\ Len(copy) \in Nat /\ DOMAIN copy = 1..Len(copy)
         /\ \A a \in 1..Len(copy) :
              /\ copy[a] \in Seq(Tokens \cup {None}) /\ Len(copy[a]) \in Nat
              /\ DOMAIN copy[a] = 1..Len(copy[a])
              /\ \A k \in 1..Len(copy[a]) : copy[a][k] \in Tokens \cup {None}
<1>1. copy \in Seq(Seq(Tokens \cup {None}))
  BY DEF Arrays
<1>2. \A a \in 1..Len(copy) : copy[a] \in Seq(Tokens \cup {None})
  BY <1>1
<1> QED BY <1>1, <1>2

(* What the type of the store says. *)
LEMMA StoreKnown ==
  ASSUME TypeOK
  PROVE  /\ arrays \in Arrays
         /\ slice \in Slice /\ slice.array \in Nat /\ slice.len \in Nat
BY DEF TypeOK, Arrays, Slice

(* The rows of arrays. *)
RowsOf(copy, rows) ==
  /\ \A a \in 1..Len(copy) : \A k \in 1..Len(copy[a]) : rows[a][k] = copy[a][k]
  /\ \A a, k \in Nat : ~(a \in 1..Len(copy)) => rows[a][k] = None
  /\ \A a \in 1..Len(copy) : \A k \in Nat : ~(k \in 1..Len(copy[a])) => rows[a][k] = None

(* A row is its array, and None behind it. *)
LEMMA RowsKnown ==
  ASSUME NEW copy \in Arrays, NEW rows,
         \A a, k \in Nat : rows[a][k] =
           IF a \in DOMAIN copy /\ k \in DOMAIN copy[a] THEN copy[a][k] ELSE None
  PROVE  RowsOf(copy, rows)
<1>1. DOMAIN copy = 1..Len(copy) /\ \A a \in 1..Len(copy) : DOMAIN copy[a] = 1..Len(copy[a])
  BY ArraysKnown
<1>2. /\ \A a \in 1..Len(copy) : a \in Nat
      /\ \A a \in 1..Len(copy) : \A k \in 1..Len(copy[a]) : k \in Nat
  BY ArraysKnown
<1> QED BY <1>1, <1>2 DEF RowsOf

(* The larger array has room for the new element. *)
LEMMA RoomForOne ==
  ASSUME NEW n \in Nat
  PROVE  Max({1, 2 * n}) \in Nat /\ Max({1, 2 * n}) >= n + 1
<1>1. \E m \in {1, 2 * n} : \A k \in {1, 2 * n} : m >= k
  <2>1. CASE n = 0
    BY <2>1
  <2>2. CASE n # 0
    BY <2>2
  <2> QED BY <2>1, <2>2
<1>2. PICK m : m = Max({1, 2 * n})
  OBVIOUS
<1>3. m \in {1, 2 * n} /\ m >= 1 /\ m >= 2 * n
  BY <1>1, <1>2 DEF Max
<1> QED BY <1>2, <1>3

(* The array that append writes to. *)
Room == IF Full THEN Len(arrays) + 1 ELSE slice.array

(* append has room for one element behind those of the slice, in the same   *)
(* array or a copy, and moves no token.                                     *)
Grows(copy) ==
  /\ copy \in Arrays
  /\ Room \in 1..Len(copy) /\ Room \in Nat /\ slice.len + 1 \in 1..Len(copy[Room])
  /\ Full => Len(copy) = Len(arrays) + 1
  /\ \A k \in 1..slice.len : copy[Room][k] = arrays[slice.array][k]
  /\ \A a \in 1..Len(arrays) : a \in 1..Len(copy) /\ copy[a] = arrays[a]
  /\ \A a \in 1..Len(copy) : a \notin 1..Len(arrays) =>
       \A k \in 1..Len(copy[a]) :
         copy[a][k] = None \/ (k \in 1..slice.len /\ copy[a][k] = arrays[slice.array][k])

(* What Grown does to the arrays. *)
LEMMA AppendGrows ==
  ASSUME TypeOK, Fits(slice), NEW copy, copy = Grown
  PROVE  Grows(copy)
<1>1. /\ slice.array \in 1..Len(arrays) /\ slice.len \in 0..Len(arrays[slice.array])
      /\ slice.len \in Nat /\ slice.array \in Nat
  BY StoreKnown, ArraysKnown DEF Fits
<1>2. CASE Full
  <2> DEFINE size == Max({1, 2 * slice.len})
             larger == [k \in 1..size |-> IF k <= slice.len THEN arrays[slice.array][k] ELSE None]
  <2>1. copy = Append(arrays, larger)
    BY <1>2 DEF Grown
  <2>2. size \in Nat /\ size >= slice.len + 1
    BY <1>1, RoomForOne
  <2> HIDE DEF size
  <2>3. \A k \in 1..slice.len : arrays[slice.array][k] \in Tokens \cup {None}
    BY <1>1, <1>2, StoreKnown, ArraysKnown DEF Full
  <2>4. larger \in Seq(Tokens \cup {None}) /\ Len(larger) = size
    BY <1>1, <2>2, <2>3
  <2>5. /\ \A k \in 1..slice.len : larger[k] = arrays[slice.array][k]
        /\ \A k \in 1..size : \/ larger[k] = None
                              \/ k \in 1..slice.len /\ larger[k] = arrays[slice.array][k]
    BY <1>1, <2>2
  <2> HIDE DEF larger
  <2>6. /\ copy \in Arrays /\ Len(copy) = Len(arrays) + 1 /\ copy[Len(arrays) + 1] = larger
        /\ \A a \in 1..Len(arrays) : copy[a] = arrays[a]
    BY <2>1, <2>4, StoreKnown, ArraysKnown DEF Arrays
  <2>7. Room = Len(arrays) + 1 /\ Len(arrays) \in Nat
    BY <1>2, StoreKnown, ArraysKnown DEF Room
  <2>8. \A a \in 1..Len(copy) : a \notin 1..Len(arrays) => a = Len(arrays) + 1
    BY <2>6, <2>7
  <2>9. Room \in 1..Len(copy) /\ slice.len + 1 \in 1..Len(copy[Room])
    BY <1>1, <2>2, <2>4, <2>6, <2>7
  <2>10. \A a \in 1..Len(arrays) : a \in 1..Len(copy) /\ copy[a] = arrays[a]
    BY <2>6, <2>7
  <2> QED BY <2>4, <2>5, <2>6, <2>7, <2>8, <2>9, <2>10 DEF Grows
<1>3. CASE ~Full
  <2>1. copy = arrays /\ Room = slice.array
    BY <1>3 DEF Grown, Room
  <2>2. slice.len + 1 \in 1..Len(arrays[slice.array])
    BY <1>1, <1>3, StoreKnown, ArraysKnown DEF Full
  <2> QED BY <1>1, <1>3, <2>1, <2>2, StoreKnown, ArraysKnown DEF Grows
<1> QED BY <1>2, <1>3

(* After append has found room every token is where it was, and the room    *)
(* has those of the slice.                                                  *)
LEMMA GrownRows ==
  ASSUME TypeOK, Fits(slice), Grows(arrays')
  PROVE  /\ \A a, k \in Nat : Rows[a][k] # None => Rows'[a][k] = Rows[a][k]
         /\ \A k \in 1..slice.len : Rows'[Room][k] = Rows[slice.array][k]
         /\ \A k \in 1..slice.len : Rows'[slice.array][k] = Rows[slice.array][k]
         /\ \A a, k \in Nat : Rows'[a][k] # None => \E b, j \in Nat : Rows'[a][k] = Rows[b][j]
<1>1. /\ slice.array \in 1..Len(arrays) /\ slice.len \in 0..Len(arrays[slice.array])
      /\ slice.len \in Nat /\ slice.array \in Nat
  BY StoreKnown, ArraysKnown DEF Fits
<1>2. \A k \in 1..slice.len : k \in Nat /\ k \in 1..Len(arrays[slice.array])
  BY <1>1, StoreKnown, ArraysKnown
<1>3. PICK old, new, rows, next :
        old = arrays /\ new = arrays' /\ rows = Rows /\ next = Rows'
  OBVIOUS
<1>4. old \in Arrays /\ new \in Arrays
  BY <1>3, StoreKnown DEF Grows
<1>5. RowsOf(old, rows)
  <2>1. \A a, k \in Nat : rows[a][k] =
          IF a \in DOMAIN old /\ k \in DOMAIN old[a] THEN old[a][k] ELSE None
    BY <1>3 DEF Rows, Element
  <2> QED BY <1>4, <2>1, RowsKnown
<1>6. RowsOf(new, next)
  <2>1. \A a, k \in Nat : next[a][k] =
          IF a \in DOMAIN new /\ k \in DOMAIN new[a] THEN new[a][k] ELSE None
    BY <1>3 DEF Rows, Element
  <2> QED BY <1>4, <2>1, RowsKnown
<1>7. ASSUME NEW a \in 1..Len(old), NEW k \in Nat
      PROVE  next[a][k] = rows[a][k]
  <2>1. a \in 1..Len(new) /\ new[a] = old[a]
    BY <1>3 DEF Grows
  <2>2. CASE k \in 1..Len(old[a])
    BY <1>5, <1>6, <2>1, <2>2 DEF RowsOf
  <2>3. CASE k \notin 1..Len(old[a])
    BY <1>5, <1>6, <2>1, <2>3 DEF RowsOf
  <2> QED BY <2>2, <2>3
<1>8. \A a, k \in Nat : rows[a][k] # None => next[a][k] = rows[a][k]
  BY <1>5, <1>7 DEF RowsOf
<1>9. \A k \in 1..slice.len : next[slice.array][k] = rows[slice.array][k]
  BY <1>1, <1>2, <1>3, <1>7
<1>10. ASSUME NEW k \in 1..slice.len
       PROVE  next[Room][k] = rows[slice.array][k]
  <2>1. Room \in 1..Len(new) /\ slice.len + 1 \in 1..Len(new[Room])
        /\ new[Room][k] = old[slice.array][k]
    BY <1>3 DEF Grows
  <2>2. k \in 1..Len(new[Room])
    BY <1>1, <1>4, <2>1, ArraysKnown
  <2>3. rows[slice.array][k] = old[slice.array][k]
    BY <1>1, <1>2, <1>3, <1>5 DEF RowsOf
  <2> QED BY <1>6, <2>1, <2>2, <2>3 DEF RowsOf
<1>11. ASSUME NEW a \in Nat, NEW k \in Nat, next[a][k] # None
       PROVE  \E b, j \in Nat : next[a][k] = rows[b][j]
  <2>1. a \in 1..Len(new) /\ k \in 1..Len(new[a])
    BY <1>6, <1>11 DEF RowsOf
  <2>2. CASE a \in 1..Len(old)
    BY <1>7, <2>2
  <2>3. CASE a \notin 1..Len(old)
    <3>1. next[a][k] = new[a][k]
      BY <1>6, <2>1 DEF RowsOf
    <3>2. k \in 1..slice.len /\ new[a][k] = old[slice.array][k]
      BY <1>3, <1>11, <2>1, <2>3, <3>1 DEF Grows
    <3>3. rows[slice.array][k] = old[slice.array][k]
      BY <1>1, <1>2, <1>3, <1>5, <3>2 DEF RowsOf
    <3> QED BY <1>1, <1>2, <3>1, <3>2, <3>3
  <2> QED BY <2>2, <2>3
<1> QED BY <1>3, <1>8, <1>9, <1>10, <1>11

(* A write of one element of one array. *)
Writes(array, at, value) == arrays' = [arrays EXCEPT ![array][at] = value]

(* It changes that element of the rows. *)
LEMMA WrittenRows ==
  ASSUME TypeOK, NEW array \in 1..Len(arrays), NEW at \in 1..Len(arrays[array]),
         NEW value \in Tokens \cup {None}, Writes(array, at, value)
  PROVE  /\ arrays' \in Arrays /\ Len(arrays') = Len(arrays)
         /\ \A a \in 1..Len(arrays) : Len(arrays'[a]) = Len(arrays[a])
         /\ \A a, k \in Nat :
              Rows'[a][k] = IF a = array /\ k = at THEN value ELSE Rows[a][k]
<1> DEFINE written == [arrays[array] EXCEPT ![at] = value]
<1>1. /\ written \in Seq(Tokens \cup {None}) /\ Len(written) = Len(arrays[array])
      /\ \A k \in 1..Len(arrays[array]) : written[k] = IF k = at THEN value ELSE arrays[array][k]
      /\ DOMAIN written = 1..Len(arrays[array])
  BY StoreKnown, ArraysKnown
<1>2. arrays' = [arrays EXCEPT ![array] = written]
  BY DEF Writes
<1> HIDE DEF written
<1>3. PICK copy : copy = arrays'
  OBVIOUS
<1>4. /\ copy \in Arrays /\ Len(copy) = Len(arrays) /\ copy[array] = written
      /\ \A a \in 1..Len(arrays) : a # array => copy[a] = arrays[a]
      /\ DOMAIN copy = DOMAIN arrays
  BY <1>1, <1>2, <1>3, StoreKnown, ArraysKnown DEF Arrays
<1>5. \A a \in 1..Len(arrays) : Len(copy[a]) = Len(arrays[a]) /\ DOMAIN copy[a] = DOMAIN arrays[a]
  BY <1>1, <1>4, StoreKnown, ArraysKnown
<1>6. \A a, k \in Nat :
        Rows'[a][k] = IF a \in DOMAIN copy /\ k \in DOMAIN copy[a] THEN copy[a][k] ELSE None
  BY <1>3 DEF Rows, Element
<1>7. \A a, k \in Nat :
        Rows[a][k] = IF a \in DOMAIN arrays /\ k \in DOMAIN arrays[a] THEN arrays[a][k] ELSE None
  BY DEF Rows, Element
<1>8. ASSUME NEW a \in Nat, NEW k \in Nat
      PROVE  Rows'[a][k] = IF a = array /\ k = at THEN value ELSE Rows[a][k]
  <2>1. CASE a = array /\ k \in 1..Len(arrays[array])
    BY <1>1, <1>4, <1>5, <1>6, <1>7, <2>1, StoreKnown, ArraysKnown
  <2>2. CASE ~(a = array /\ k \in 1..Len(arrays[array]))
    <3>1. ~(a = array /\ k = at)
      BY <2>2
    <3>2. /\ DOMAIN arrays = 1..Len(arrays) /\ DOMAIN copy = 1..Len(arrays)
          /\ \A b \in 1..Len(arrays) : /\ DOMAIN arrays[b] = 1..Len(arrays[b])
                                       /\ DOMAIN copy[b] = 1..Len(arrays[b])
      BY <1>4, <1>5, StoreKnown, ArraysKnown
    <3>3. CASE a \notin 1..Len(arrays)
      BY <1>6, <1>7, <3>1, <3>2, <3>3
    <3>4. CASE a \in 1..Len(arrays) /\ a # array
      <4>1. copy[a] = arrays[a] /\ a \in DOMAIN copy /\ a \in DOMAIN arrays
        BY <1>4, <3>2, <3>4
      <4>2. Rows'[a][k] = IF k \in DOMAIN arrays[a] THEN arrays[a][k] ELSE None
        BY <1>6, <4>1
      <4>3. Rows[a][k] = IF k \in DOMAIN arrays[a] THEN arrays[a][k] ELSE None
        BY <1>7, <4>1
      <4> QED BY <3>4, <4>2, <4>3
    <3>5. CASE a = array
      <4>1. k \notin DOMAIN copy[a] /\ k \notin DOMAIN arrays[a]
        BY <2>2, <3>2, <3>5
      <4>2. Rows'[a][k] = None /\ Rows[a][k] = None
        BY <1>6, <1>7, <4>1
      <4> QED BY <3>1, <4>2
    <3> QED BY <3>3, <3>4, <3>5
  <2> QED BY <2>1, <2>2
<1> QED BY <1>3, <1>4, <1>5, <1>8

-----------------------------------------------------------------------------
(* The steps of a client. *)

(* A server has the lock. *)
LEMMA ServedLocks ==
  ASSUME TypeOK, CommandInv, Served # {}
  PROVE  lock # None
BY LocalAssumption DEF Served, TypeOK, CommandInv

(* A request to the console is one of three things. *)
LEMMA UserCases ==
  ASSUME TypeOK, NEW u \in Users
  PROVE  /\ user[u] = Idle \/ user[u].pc = "append" \/ user[u].pc = "shift"
         /\ user[u] = Idle => user[u].pc = "idle"
         /\ user[u].pc = "append" =>
              user[u] \in [pc : {"append"}, token : Tokens, slice : Slice, unwritten : SUBSET Parts]
         /\ user[u].pc = "shift" =>
              user[u] \in [pc : {"shift"}, token : Tokens, slice : Slice, at : Nat]
<1>1. user[u] \in User
  BY DEF TypeOK
<1>2. CASE user[u] \in [pc : {"idle"}]
  BY <1>2 DEF Idle
<1>3. CASE user[u] \in [pc : {"append"}, token : Tokens, slice : Slice, unwritten : SUBSET Parts]
  BY <1>3 DEF Idle
<1>4. CASE user[u] \in [pc : {"shift"}, token : Tokens, slice : Slice, at : Nat]
  BY <1>4 DEF Idle
<1> QED BY <1>1, <1>2, <1>3, <1>4 DEF User

(* A request that was sent and not answered. *)
LEMMA SentCases ==
  ASSUME TypeOK, NEW c \in Clients, Sent(c)
  PROVE  /\ client[c].conf \in File /\ client[c].conf.token \in Tokens /\ client[c].fate \in Fate
         /\ client[c].pc = "loading" =>
              /\ client[c].word \in {"array", "len"} /\ client[c].value \in Nat
              /\ client[c] \in [pc : {"loading"}, conf : File, word : {"array", "len"},
                                value : Nat, fate : Fate]
         /\ client[c].pc = "reading" =>
              /\ client[c].slice \in Slice /\ client[c].at \in Nat
              /\ client[c] \in [pc : {"reading"}, conf : File, slice : Slice, at : Nat, fate : Fate]
         /\ Seen(c).array \in Nat /\ Seen(c).len \in Nat /\ Position(c) \in Nat
<1>1. client[c] \in Client /\ slice.array \in Nat /\ slice.len \in Nat
  BY StoreKnown DEF TypeOK
<1>2. CASE client[c].pc = "loading"
  <2>1. client[c] \in [pc : {"loading"}, conf : File, word : {"array", "len"},
                       value : Nat, fate : Fate]
    BY <1>1, <1>2 DEF Client
  <2> QED BY <1>1, <1>2, <2>1 DEF File, Seen, Position
<1>3. CASE client[c].pc = "reading"
  <2>1. client[c] \in [pc : {"reading"}, conf : File, slice : Slice, at : Nat, fate : Fate]
    BY <1>1, <1>3 DEF Client
  <2> QED BY <1>3, <2>1 DEF File, Slice, Seen, Position
<1> QED BY <1>2, <1>3 DEF Sent

(* What a request will do does not depend on other clients. *)
LEMMA RequestKept ==
  ASSUME NEW c \in Clients, RequestInv(c), client'[c] = client[c],
         UNCHANGED <<lock, user, arrays, slice, created, revoked>>, drawn \subseteq drawn'
  PROVE  RequestInv(c)'
<1>1. Rows' = Rows /\ Seen(c)' = Seen(c) /\ Position(c)' = Position(c) /\ Sent(c)' = Sent(c)
  BY DEF Rows, Element, Seen, Position, Sent
<1>2. \A k : Settled(k)' = Settled(k)
  BY DEF Settled
<1>3. MissesUnknown(c) => MissesUnknown(c)'
  BY <1>1 DEF MissesUnknown
<1>4. FindsValid(c) => FindsValid(c)'
  BY <1>1, <1>2 DEF FindsValid
<1> QED BY <1>1, <1>3, <1>4 DEF RequestInv

(* A step of the console leaves a request in order if what the request      *)
(* misses or finds stays so.                                                *)
LEMMA RequestFollows ==
  ASSUME NEW c \in Clients, RequestInv(c), client'[c] = client[c],
         lock' = lock, drawn \subseteq drawn',
         Sent(c) /\ client[c].fate = "unknown" => MissesUnknown(c)',
         Sent(c) /\ client[c].fate = "valid" => FindsValid(c)'
  PROVE  RequestInv(c)'
BY DEF RequestInv, Sent

(* One of which nothing is known is in order. *)
LEMMA RequestFree ==
  ASSUME TypeOK, NEW c \in Clients, RequestInv(c), Sent(c),
         client'[c] = [client[c] EXCEPT !.fate = "either"],
         lock' = lock, drawn \subseteq drawn'
  PROVE  client'[c] \in Client /\ RequestInv(c)'
<1>1. CASE client[c].pc = "loading"
  <2>1. client[c] \in [pc : {"loading"}, conf : File, word : {"array", "len"},
                       value : Nat, fate : Fate]
    BY <1>1, SentCases
  <2>2. /\ client'[c].pc = "loading" /\ client'[c].conf = client[c].conf
        /\ client'[c].fate = "either"
        /\ client'[c] \in [pc : {"loading"}, conf : File, word : {"array", "len"},
                           value : Nat, fate : Fate]
    BY <2>1 DEF Fate
  <2> QED BY <1>1, <2>2 DEF RequestInv, Client
<1>2. CASE client[c].pc = "reading"
  <2>1. client[c] \in [pc : {"reading"}, conf : File, slice : Slice, at : Nat, fate : Fate]
    BY <1>2, SentCases
  <2>2. /\ client'[c].pc = "reading" /\ client'[c].conf = client[c].conf
        /\ client'[c].fate = "either" /\ client'[c].at = client[c].at
        /\ client'[c] \in [pc : {"reading"}, conf : File, slice : Slice, at : Nat, fate : Fate]
    BY <2>1 DEF Fate
  <2> QED BY <1>2, <2>2 DEF RequestInv, Client
<1> QED BY <1>1, <1>2 DEF Sent

(* The store and its requests do not depend on the command that draws a token. *)
LEMMA StoreKept ==
  ASSUME StoreInv, UNCHANGED <<lock, arrays, slice, created, revoked, user>>, drawn \subseteq drawn'
  PROVE  StoreInv'
<1>1. Rows' = Rows
  BY DEF Rows, Element
<1>2. /\ lock' = None => /\ arrays' = <<>> /\ slice'.array = 0 /\ slice'.len = 0
                         /\ created' = {} /\ revoked' = {}
      /\ \A u \in Users : user'[u] # Idle => lock' # None
  BY DEF StoreInv
<1>3. /\ \A a, k \in Nat : Rows'[a][k] \in created' \cup {None}
                           \/ \E u \in Users : user'[u].pc = "append" /\ user'[u].token = Rows'[a][k]
      /\ (\A u \in Users : user'[u] = Idle) =>
           Holds(Rows'[slice'.array], slice'.len, 0, created' \ revoked')
  BY <1>1 DEF StoreInv
<1>4. \A u \in Users : Appending(u) => Appending(u)'
  BY <1>1 DEF Appending
<1>5. \A u \in Users : Shifting(u) => Shifting(u)'
  BY <1>1 DEF Shifting
<1> QED BY <1>2, <1>3, <1>4, <1>5 DEF StoreInv, Idle

(* The invariants that no step of a client touches. *)
LEMMA ClientsOnlyRead ==
  ASSUME CommandInv, StoreInv, UNCHANGED <<file, lock, pc, own, user, store, drawn>>
  PROVE  CommandInv' /\ StoreInv'
<1>1. UNCHANGED <<arrays, slice, created, revoked>>
  BY DEF store
<1>2. CommandInv'
  BY <1>1 DEF CommandInv
<1>3. StoreInv'
  BY <1>1, StoreKept
<1> QED BY <1>2, <1>3

(* A client's step, when its request becomes one that is in order. *)
LEMMA TurnStep ==
  ASSUME IInv, NEW c \in Clients, NEW request \in Client,
         client' = [client EXCEPT ![c] = request],
         UNCHANGED <<file, lock, pc, own, user, store, drawn>>,
         RequestInv(c)'
  PROVE  IInv'
<1>1. UNCHANGED <<arrays, slice, created, revoked>>
  BY DEF store
<1>2. TypeOK'
  BY <1>1 DEF IInv, TypeOK, Fits
<1>3. ASSUME NEW d \in Clients, d # c
      PROVE  RequestInv(d)'
  <2>1. client'[d] = client[d]
    BY <1>3 DEF IInv, TypeOK
  <2> QED BY <1>1, <2>1, RequestKept DEF IInv, ClientInv
<1>4. CommandInv' /\ StoreInv'
  BY ClientsOnlyRead DEF IInv
<1> QED BY <1>2, <1>3, <1>4 DEF IInv, ClientInv

(* A client reads the configuration file. *)
LEMMA ConfigureStep ==
  ASSUME IInv, NEW c \in Clients, Configure(c)
  PROVE  IInv'
<1>1. PICK conf \in (IF file = None THEN {} ELSE {file})
                    \cup [token : created, url : {"collector"}, by : {None}] :
        client' = [client EXCEPT ![c] = [pc |-> "ready", conf |-> conf]]
  BY DEF Configure
<1>2. UNCHANGED <<file, lock, pc, own, user, store, drawn>>
  BY DEF Configure
<1>3. conf \in File /\ conf.token \in drawn
  BY DEF IInv, TypeOK, CommandInv, File
<1>4. [pc |-> "ready", conf |-> conf] \in Client
  BY <1>3 DEF Client
<1>5. client'[c] = [pc |-> "ready", conf |-> conf]
  BY <1>1 DEF IInv, TypeOK
<1>6. RequestInv(c)'
  BY <1>2, <1>3, <1>5 DEF RequestInv, Sent
<1> QED BY <1>1, <1>2, <1>4, <1>6, TurnStep

(* What the fate of a request says of the store when it is sent. *)
LEMMA FateIsKnown ==
  ASSUME NEW token
  PROVE  /\ FateOf(token) \in Fate
         /\ FateOf(token) = "valid" =>
              token \in created \ revoked /\ \A u \in Users : user[u].pc # "shift"
         /\ FateOf(token) = "unknown" =>
              /\ token \notin created \ revoked
              /\ \A u \in Users : user[u] # Idle => user[u].token # token
              /\ token \in revoked => \A u \in Users : user[u].pc # "append"
<1> DEFINE V == token \in created \ revoked /\ \A u \in Users : user[u].pc # "shift"
           U == /\ token \notin created \ revoked
                /\ \A u \in Users : user[u] # Idle => user[u].token # token
                /\ token \in revoked => \A u \in Users : user[u].pc # "append"
<1>1. FateOf(token) = CASE V -> "valid" [] U -> "unknown" [] OTHER -> "either"
  BY DEF FateOf
<1>2. ~(V /\ U)
  OBVIOUS
<1> HIDE DEF V, U
<1>3. FateOf(token) \in Fate /\ (FateOf(token) = "valid" => V) /\ (FateOf(token) = "unknown" => U)
  BY <1>1, <1>2 DEF Fate
<1> QED BY <1>3 DEF V, U

(* A stored token has a place that no append writes, while nobody shifts. *)
LEMMA TokenIsSettled ==
  ASSUME OneAtATime, TypeOK, StoreInv, NEW token \in created \ revoked,
         \A u \in Users : user[u].pc # "shift"
  PROVE  \E k \in 1..slice.len : Settled(k) /\ Rows[slice.array][k] = token
<1>1. CASE \A u \in Users : user[u] = Idle
  <2>1. Holds(Rows[slice.array], slice.len, 0, created \ revoked)
    BY <1>1 DEF StoreInv
  <2>2. PICK k \in 1..slice.len : Rows[slice.array][k] = token
    BY <2>1 DEF Holds
  <2> QED BY <1>1, <2>2 DEF Settled, Idle
<1>2. ASSUME NEW u \in Users, user[u] # Idle
      PROVE  \E k \in 1..slice.len : Settled(k) /\ Rows[slice.array][k] = token
  <2>1. user[u].pc = "append"
    BY <1>2, UserCases
  <2>2. Appending(u)
    BY <2>1 DEF StoreInv
  <2>3. PICK n : n = user[u].slice.len
    OBVIOUS
  <2>4. n \in Nat /\ slice.len \in Nat
    BY <2>1, <2>3, UserCases, StoreKnown DEF Slice
  <2>5. n >= 1 /\ slice.len >= n - 1 /\ Holds(Rows[slice.array], n - 1, 0, created \ revoked)
    BY <2>2, <2>3, <2>4 DEF Appending
  <2>6. PICK k \in 1..(n - 1) : Rows[slice.array][k] = token
    BY <2>5 DEF Holds
  <2>7. k \in 1..slice.len /\ k < n
    BY <2>4, <2>5, <2>6
  <2>8. \A v \in Users : v = u
    BY DEF OneAtATime
  <2> QED BY <2>3, <2>6, <2>7, <2>8 DEF Settled
<1> QED BY <1>1, <1>2

(* What is in the slice is stored, while nobody appends. *)
LEMMA SliceIsStored ==
  ASSUME OneAtATime, TypeOK, StoreInv, \A u \in Users : user[u].pc # "append"
  PROVE  \A k \in 1..slice.len : Rows[slice.array][k] \in created \ revoked
<1>1. CASE \A u \in Users : user[u] = Idle
  <2>1. Holds(Rows[slice.array], slice.len, 0, created \ revoked)
    BY <1>1 DEF StoreInv
  <2> QED BY <2>1 DEF Holds
<1>2. ASSUME NEW u \in Users, user[u] # Idle
      PROVE  \A k \in 1..slice.len : Rows[slice.array][k] \in created \ revoked
  <2>1. user[u].pc = "shift"
    BY <1>2, UserCases
  <2>2. Shifting(u)
    BY <2>1 DEF StoreInv
  <2> QED BY <2>2 DEF Shifting, Holds
<1> QED BY <1>1, <1>2

(* A request starts to look for its token. *)
LEMMA SendStep ==
  ASSUME OneAtATime, IInv, NEW c \in Clients, Send(c)
  PROVE  IInv'
<1>1. PICK token, fate, conf : /\ token = client[c].conf.token /\ fate = FateOf(token)
                               /\ conf = client[c].conf
  OBVIOUS
<1>2. PICK word \in {"array", "len"} : client' = [client EXCEPT ![c] =
        [pc |-> "loading", conf |-> conf, word |-> word, value |-> slice[word], fate |-> fate]]
  BY <1>1 DEF Send
<1>3. client[c].pc = "ready" /\ Served # {} /\ UNCHANGED <<file, lock, pc, own, user, store, drawn>>
  BY DEF Send
<1>4. UNCHANGED <<arrays, slice, created, revoked>>
  BY <1>3 DEF store
<1>5. slice \in Slice /\ slice[word] \in Nat /\ slice.array \in Nat /\ slice.len \in Nat
  BY <1>2, StoreKnown DEF IInv
<1>6. client[c] \in Client
  BY DEF IInv, TypeOK
<1>7. conf \in File /\ conf.token = token /\ token \in drawn
  BY <1>1, <1>3, <1>6 DEF Client, IInv, ClientInv, RequestInv
<1>8. /\ fate \in Fate
      /\ fate = "valid" => token \in created \ revoked /\ \A u \in Users : user[u].pc # "shift"
      /\ fate = "unknown" => /\ token \notin created \ revoked
                             /\ \A u \in Users : user[u] # Idle => user[u].token # token
                             /\ token \in revoked => \A u \in Users : user[u].pc # "append"
  BY <1>1, FateIsKnown
<1>9. PICK request : request =
        [pc |-> "loading", conf |-> conf, word |-> word, value |-> slice[word], fate |-> fate]
  OBVIOUS
<1>10. /\ request.pc = "loading" /\ request.conf = conf /\ request.fate = fate
       /\ request.word = word /\ request.value = slice[word] /\ request \in Client
  BY <1>5, <1>7, <1>8, <1>9 DEF Client
<1>11. client'[c] = request
  BY <1>2, <1>9 DEF IInv, TypeOK
<1>12. Seen(c)' = [array |-> slice.array, len |-> slice.len] /\ Position(c)' = 1 /\ Sent(c)'
  BY <1>2, <1>4, <1>10, <1>11 DEF Seen, Position, Sent
<1>13. Rows' = Rows /\ lock' # None
  BY <1>3, <1>4, ServedLocks DEF Rows, Element, IInv
<1>14. ASSUME fate = "unknown"
       PROVE  MissesUnknown(c)'
  <2>1. token \in revoked => \A k \in 1..slice.len : Rows[slice.array][k] # token
    BY <1>8, <1>14, SliceIsStored DEF IInv
  <2>2. \A u \in Users : user[u].pc = "append" => user[u].token # token /\ token \notin revoked
    BY <1>8, <1>14 DEF Idle
  <2> QED BY <1>3, <1>4, <1>7, <1>8, <1>10, <1>11, <1>12, <1>13, <1>14, <2>1, <2>2 DEF MissesUnknown
<1>15. ASSUME fate = "valid"
       PROVE  FindsValid(c)'
  <2>1. PICK k \in 1..slice.len : Settled(k) /\ Rows[slice.array][k] = token
    BY <1>8, <1>15, TokenIsSettled DEF IInv
  <2>2. Settled(k)'
    BY <1>3, <1>4, <2>1 DEF Settled
  <2> QED BY <1>3, <1>4, <1>7, <1>8, <1>10, <1>11, <1>12, <1>13, <1>15, <2>1, <2>2 DEF FindsValid
<1>16. RequestInv(c)'
  BY <1>3, <1>7, <1>10, <1>11, <1>13, <1>14, <1>15 DEF RequestInv
<1> QED BY <1>2, <1>3, <1>9, <1>10, <1>16, TurnStep

(* A request has loaded both words of the slice. *)
LEMMA LoadStep ==
  ASSUME IInv, NEW c \in Clients, Load(c)
  PROVE  IInv'
<1>1. PICK get : get = client[c]
  OBVIOUS
<1>2. get.pc = "loading" /\ UNCHANGED <<file, lock, pc, own, user, store, drawn>>
  BY <1>1 DEF Load
<1>3. UNCHANGED <<arrays, slice, created, revoked>>
  BY <1>2 DEF store
<1>4. PICK read : read = [slice EXCEPT ![get.word] = get.value]
  OBVIOUS
<1>5. /\ get.word \in {"array", "len"} /\ get.value \in Nat /\ get.conf \in File
      /\ get.fate \in Fate
  BY <1>1, <1>2, SentCases DEF Sent, IInv
<1>6. slice \in Slice
  BY StoreKnown DEF IInv
<1>7. read \in Slice /\ read = Seen(c)
  <2>1. CASE get.word = "array"
    <3>1. read.array = get.value /\ read.len = slice.len /\ read \in Slice
      BY <1>4, <1>5, <1>6, <2>1 DEF Slice
    <3>2. Seen(c) = [array |-> get.value, len |-> slice.len]
      BY <1>1, <1>2, <2>1 DEF Seen
    <3> QED BY <3>1, <3>2 DEF Slice
  <2>2. CASE get.word = "len"
    <3>1. read.array = slice.array /\ read.len = get.value /\ read \in Slice
      BY <1>4, <1>5, <1>6, <2>2 DEF Slice
    <3>2. Seen(c) = [array |-> slice.array, len |-> get.value]
      BY <1>1, <1>2, <2>2 DEF Seen
    <3> QED BY <3>1, <3>2 DEF Slice
  <2> QED BY <1>5, <2>1, <2>2
<1>8. PICK request :
        /\ request = [pc |-> "reading", conf |-> get.conf, slice |-> read, at |-> 1, fate |-> get.fate]
        /\ client' = [client EXCEPT ![c] = request]
  BY <1>1, <1>4 DEF Load
<1>9. /\ request.pc = "reading" /\ request.conf = get.conf /\ request.slice = read
      /\ request.at = 1 /\ request.fate = get.fate /\ request \in Client
  BY <1>5, <1>7, <1>8 DEF Client
<1>10. client'[c] = request
  BY <1>8 DEF IInv, TypeOK
<1>11. /\ Seen(c)' = Seen(c) /\ Position(c)' = Position(c) /\ Rows' = Rows
       /\ \A k : Settled(k)' = Settled(k)
  BY <1>1, <1>2, <1>3, <1>7, <1>9, <1>10 DEF Seen, Position, Rows, Element, Settled
<1>12. RequestInv(c) /\ Sent(c)
  BY <1>1, <1>2 DEF IInv, ClientInv, Sent
<1>13. MissesUnknown(c) => MissesUnknown(c)'
  BY <1>1, <1>2, <1>3, <1>9, <1>10, <1>11 DEF MissesUnknown
<1>14. FindsValid(c) => FindsValid(c)'
  BY <1>1, <1>2, <1>3, <1>9, <1>10, <1>11 DEF FindsValid
<1>15. RequestInv(c)'
  BY <1>1, <1>2, <1>9, <1>10, <1>12, <1>13, <1>14 DEF RequestInv
<1> QED BY <1>2, <1>8, <1>9, <1>15, TurnStep

(* A request reads one element of the slice it holds. *)
LEMMA GetStep ==
  ASSUME IInv, NEW c \in Clients, Get(c)
  PROVE  IInv'
<1>1. PICK get : get = client[c]
  OBVIOUS
<1>2. get.pc = "reading" /\ UNCHANGED <<file, lock, pc, own, user, store, drawn>>
  BY <1>1 DEF Get
<1>3. UNCHANGED <<arrays, slice, created, revoked>>
  BY <1>2 DEF store
<1>4. Sent(c) /\ RequestInv(c) /\ TypeOK /\ StoreInv
  BY <1>1, <1>2 DEF Sent, IInv, ClientInv
<1>5. /\ get.conf \in File /\ get.conf.token \in Tokens /\ get.fate \in Fate
      /\ get.slice \in Slice /\ get.slice.array \in Nat /\ get.slice.len \in Nat /\ get.at \in Nat
      /\ get \in [pc : {"reading"}, conf : File, slice : Slice, at : Nat, fate : Fate]
  BY <1>1, <1>2, <1>4, SentCases DEF Slice
<1>6. /\ get.conf.token \in drawn /\ lock # None /\ get.at >= 1
      /\ get.fate = "unknown" => MissesUnknown(c)
      /\ get.fate = "valid" => FindsValid(c)
      /\ Seen(c) = get.slice /\ Position(c) = get.at
  BY <1>1, <1>2, <1>4 DEF RequestInv, Seen, Position
<1>7. Rows[get.slice.array][get.at] = Element(get.slice.array, get.at)
  BY <1>5 DEF Rows
<1>8. PICK request :
        /\ client' = [client EXCEPT ![c] = request]
        /\ request = IF get.at > get.slice.len
                     THEN [pc |-> "rejected", conf |-> get.conf, fate |-> get.fate]
                     ELSE IF Element(get.slice.array, get.at) = get.conf.token
                     THEN [pc |-> "accepted", conf |-> get.conf, fate |-> get.fate]
                     ELSE [get EXCEPT !.at = @ + 1]
  BY <1>1 DEF Get
<1>9. client'[c] = request
  BY <1>8 DEF IInv, TypeOK
<1>10. CASE get.at > get.slice.len
  <2>1. request = [pc |-> "rejected", conf |-> get.conf, fate |-> get.fate]
    BY <1>8, <1>10
  <2>2. request \in Client
    BY <1>5, <2>1 DEF Client
  <2>3. get.fate # "valid"
    BY <1>5, <1>6, <1>10 DEF FindsValid
  <2>4. RequestInv(c)'
    BY <1>2, <1>6, <1>9, <2>1, <2>3 DEF RequestInv, Sent
  <2> QED BY <1>2, <1>8, <2>2, <2>4, TurnStep
<1>11. CASE ~(get.at > get.slice.len) /\ Element(get.slice.array, get.at) = get.conf.token
  <2>1. request = [pc |-> "accepted", conf |-> get.conf, fate |-> get.fate]
    BY <1>8, <1>11
  <2>2. request \in Client
    BY <1>5, <2>1 DEF Client
  <2>3. get.at \in 1..get.slice.len
    BY <1>5, <1>6, <1>11
  <2>4. ASSUME get.fate = "unknown"
        PROVE  FALSE
    <3>1. /\ get.conf.token \notin created \ revoked
          /\ \A u \in Users : user[u].pc = "append" => user[u].token # get.conf.token
          /\ get.conf.token \in revoked =>
               \A k \in 1..get.slice.len : Rows[get.slice.array][k] # get.conf.token
      BY <1>1, <1>6, <2>4 DEF MissesUnknown
    <3>2. get.conf.token \notin revoked
      BY <1>7, <1>11, <2>3, <3>1
    <3>3. get.conf.token \notin created \cup {None}
      BY <1>5, <3>1, <3>2, LocalAssumption
    <3> QED BY <1>4, <1>5, <1>7, <1>11, <3>1, <3>3 DEF StoreInv
  <2>5. RequestInv(c)'
    BY <1>2, <1>6, <1>9, <2>1, <2>4 DEF RequestInv, Sent
  <2> QED BY <1>2, <1>8, <2>2, <2>5, TurnStep
<1>12. CASE ~(get.at > get.slice.len) /\ Element(get.slice.array, get.at) # get.conf.token
  <2>1. request = [get EXCEPT !.at = @ + 1]
    BY <1>8, <1>12
  <2>2. /\ request.pc = "reading" /\ request.conf = get.conf /\ request.slice = get.slice
        /\ request.at = get.at + 1 /\ request.fate = get.fate
        /\ request \in [pc : {"reading"}, conf : File, slice : Slice, at : Nat, fate : Fate]
    BY <1>5, <2>1
  <2>3. request \in Client
    BY <2>2 DEF Client
  <2>4. /\ Seen(c)' = get.slice /\ Position(c)' = get.at + 1 /\ Rows' = Rows /\ Sent(c)'
        /\ \A k : Settled(k)' = Settled(k)
    BY <1>2, <1>3, <1>9, <2>2 DEF Seen, Position, Rows, Element, Sent, Settled
  <2>5. ASSUME get.fate = "unknown"
        PROVE  MissesUnknown(c)'
    BY <1>1, <1>2, <1>3, <1>6, <1>9, <2>2, <2>4, <2>5 DEF MissesUnknown
  <2>6. ASSUME get.fate = "valid"
        PROVE  FindsValid(c)'
    <3>1. PICK k \in get.at..get.slice.len :
            /\ Settled(k) /\ Rows[get.slice.array][k] = get.conf.token
            /\ Rows[slice.array][k] = get.conf.token
      BY <1>1, <1>6, <2>6 DEF FindsValid
    <3>2. k # get.at
      BY <1>7, <1>12, <3>1
    <3>3. k \in (get.at + 1)..get.slice.len
      BY <1>5, <3>1, <3>2
    <3> QED BY <1>1, <1>2, <1>3, <1>6, <1>9, <2>2, <2>4, <2>6, <3>1, <3>3 DEF FindsValid
  <2>7. get.at + 1 >= 1
    BY <1>5
  <2>8. RequestInv(c)'
    BY <1>2, <1>6, <1>9, <2>2, <2>5, <2>6, <2>7 DEF RequestInv
  <2> QED BY <1>2, <1>8, <2>3, <2>8, TurnStep
<1> QED BY <1>10, <1>11, <1>12

-----------------------------------------------------------------------------
(* The steps of the command. *)

(* A step of the command before it serves leaves the store and requests.   *)
LEMMA CommandOnly ==
  ASSUME IInv, TypeOK', CommandInv', drawn \subseteq drawn',
         UNCHANGED <<lock, arrays, slice, created, revoked, user, client>>
  PROVE  IInv'
<1>1. StoreInv'
  BY StoreKept DEF IInv
<1>2. ASSUME NEW c \in Clients
      PROVE  RequestInv(c)'
  BY RequestKept DEF IInv, ClientInv
<1> QED BY <1>1, <1>2 DEF IInv, ClientInv

(* The command draws its own token before it serves. *)
LEMMA CreateLocalTokenStep ==
  ASSUME IInv, NEW p \in Invocations, NEW token \in Tokens, CreateLocalToken(p, token)
  PROVE  IInv'
<1>1. UNCHANGED <<file, lock, arrays, slice, created, revoked, user, client>>
  BY DEF CreateLocalToken, store
<1>2. /\ drawn' = drawn \cup {token} /\ pc[p] = "off"
      /\ pc' = [pc EXCEPT ![p] = "token"] /\ own' = [own EXCEPT ![p] = token]
  BY DEF CreateLocalToken
<1>3. TypeOK'
  BY <1>1, <1>2 DEF IInv, TypeOK, Fits
<1>4. CommandInv'
  BY <1>1, <1>2 DEF IInv, TypeOK, CommandInv
<1> QED BY <1>1, <1>2, <1>3, <1>4, CommandOnly

(* It looks for its configuration. *)
LEMMA LoadConfigStep ==
  ASSUME IInv, NEW p \in Invocations, LoadConfig(p)
  PROVE  IInv'
<1>1. UNCHANGED <<file, lock, own, arrays, slice, created, revoked, user, client, drawn>>
  BY DEF LoadConfig, store
<1>2. PICK next \in {"absent", "found"} : pc[p] = "token" /\ pc' = [pc EXCEPT ![p] = next]
  BY DEF LoadConfig
<1>3. TypeOK'
  BY <1>1, <1>2 DEF IInv, TypeOK, Fits
<1>4. CommandInv'
  BY <1>1, <1>2 DEF IInv, TypeOK, CommandInv
<1> QED BY <1>1, <1>3, <1>4, CommandOnly

(* The command saves its configuration. *)
LEMMA SaveConfigStep ==
  ASSUME IInv, NEW p \in Invocations, SaveConfig(p)
  PROVE  IInv'
<1>1. UNCHANGED <<lock, own, arrays, slice, created, revoked, user, client, drawn>>
  BY DEF SaveConfig, store
<1>2. /\ file' = [token |-> own[p], by |-> p,
                  url |-> IF pc[p] = "absent" THEN "console" ELSE "collector"]
      /\ pc[p] \in {"found", "absent"} /\ pc' = [pc EXCEPT ![p] = "saved"]
  BY DEF SaveConfig
<1>3. own[p] \in drawn /\ own[p] \in Tokens
  BY <1>2 DEF IInv, TypeOK, CommandInv
<1>4. file' \in File /\ file'.token = own[p] /\ file'.by = p /\ file' # None
  BY <1>2, <1>3, LocalAssumption DEF File
<1>5. TypeOK'
  BY <1>1, <1>2, <1>4 DEF IInv, TypeOK, Fits
<1>6. CommandInv'
  BY <1>1, <1>2, <1>3, <1>4 DEF IInv, TypeOK, CommandInv
<1> QED BY <1>1, <1>5, <1>6, CommandOnly

(* The command ends before it serves. *)
LEMMA ExitStep ==
  ASSUME IInv, NEW p \in Invocations, Exit(p)
  PROVE  IInv'
<1>1. UNCHANGED <<file, lock, arrays, slice, created, revoked, user, client, drawn>>
  BY DEF Exit, store
<1>2. /\ pc[p] \in {"token", "found", "absent", "saved"} /\ pc' = [pc EXCEPT ![p] = "off"]
      /\ own' = [own EXCEPT ![p] = None]
  BY DEF Exit
<1>3. TypeOK'
  BY <1>1, <1>2 DEF IInv, TypeOK, Fits
<1>4. CommandInv'
  BY <1>1, <1>2 DEF IInv, TypeOK, CommandInv
<1> QED BY <1>1, <1>3, <1>4, CommandOnly

(* The store of a server begins with the token of the command. *)
LEMMA ServeStep ==
  ASSUME IInv, NEW p \in Invocations, Serve(p)
  PROVE  IInv'
<1>1. UNCHANGED <<file, own, user, client, revoked, drawn>>
  BY DEF Serve
<1>2. PICK token : token = own[p]
  OBVIOUS
<1>3. /\ pc[p] = "saved" /\ lock = None /\ lock' = p /\ pc' = [pc EXCEPT ![p] = "serving"]
      /\ arrays' = << <<token>> >> /\ slice' = [array |-> 1, len |-> 1] /\ created' = {token}
  BY <1>2 DEF Serve
<1>4. token \in drawn /\ token \in Tokens /\ p # None
  BY <1>2, <1>3, LocalAssumption DEF IInv, TypeOK, CommandInv
<1>5. revoked = {} /\ \A u \in Users : user[u] = Idle
  BY <1>3 DEF IInv, StoreInv
<1>6. /\ arrays' \in Seq(Seq(Tokens \cup {None})) /\ Len(arrays') = 1
      /\ Len(arrays'[1]) = 1 /\ arrays'[1][1] = token
      /\ DOMAIN arrays' = {1} /\ DOMAIN arrays'[1] = {1}
  BY <1>3, <1>4
<1>7. slice' \in Slice /\ slice'.array = 1 /\ slice'.len = 1
  BY <1>3 DEF Slice
<1>8. Fits(slice)'
  BY <1>6, <1>7 DEF Fits
<1>9. TypeOK'
  BY <1>1, <1>3, <1>4, <1>5, <1>6, <1>7, <1>8 DEF IInv, TypeOK
<1>10. CommandInv'
  <2>1. \A q \in Invocations : pc[q] # "serving"
    BY <1>3, LocalAssumption DEF IInv, CommandInv
  <2>2. \A q \in Invocations : pc'[q] = IF q = p THEN "serving" ELSE pc[q]
    BY <1>3 DEF IInv, TypeOK
  <2> QED BY <1>1, <1>2, <1>3, <1>4, <2>1, <2>2 DEF IInv, CommandInv
<1>11. \A a, k \in Nat : Rows'[a][k] = IF a = 1 /\ k = 1 THEN token ELSE None
  BY <1>6 DEF Rows, Element
<1>12. StoreInv'
  <2>1. Rows'[1][1] = token
    BY <1>11
  <2>2. Holds(Rows'[1], 1, 0, {token})
    BY <2>1 DEF Holds
  <2>3. created' \ revoked' = {token}
    BY <1>1, <1>3, <1>5
  <2>4. Holds(Rows'[slice'.array], slice'.len, 0, created' \ revoked')
    BY <1>7, <2>2, <2>3
  <2>5. \A u \in Users : user'[u] = Idle
    BY <1>1, <1>5
  <2>6. \A a, k \in Nat : Rows'[a][k] \in created' \cup {None}
    BY <1>3, <1>11
  <2> QED BY <1>3, <1>4, <2>4, <2>5, <2>6 DEF StoreInv, Idle
<1>13. ASSUME NEW c \in Clients
       PROVE  RequestInv(c)'
  BY <1>1, <1>3 DEF IInv, ClientInv, RequestInv, Sent
<1> QED BY <1>9, <1>10, <1>12, <1>13 DEF IInv, ClientInv

(* With the server its store and all requests end. *)
LEMMA StopStep ==
  ASSUME IInv, NEW p \in Invocations, Stop(p)
  PROVE  IInv'
<1>1. /\ pc[p] = "serving" /\ lock' = None /\ UNCHANGED <<file, drawn>>
      /\ pc' = [pc EXCEPT ![p] = "off"] /\ own' = [own EXCEPT ![p] = None]
      /\ arrays' = <<>> /\ slice' = [array |-> 0, len |-> 0]
      /\ created' = {} /\ revoked' = {} /\ user' = [u \in Users |-> Idle]
  BY DEF Stop
<1>2. client' = [c \in Clients |-> IF client[c].pc = "idle" THEN Idle
                                   ELSE [pc |-> "ready", conf |-> client[c].conf]]
  BY DEF Stop
<1>3. ASSUME NEW c \in Clients
      PROVE  client'[c] \in Client /\ RequestInv(c)'
  <2>1. client[c] \in Client /\ RequestInv(c)
    BY DEF IInv, TypeOK, ClientInv
  <2>2. CASE client[c].pc = "idle"
    <3>1. client'[c] = [pc |-> "idle"]
      BY <1>2, <2>2 DEF Idle
    <3> QED BY <3>1 DEF Client, RequestInv, Sent
  <2>3. CASE client[c].pc # "idle"
    <3>1. client'[c] = [pc |-> "ready", conf |-> client[c].conf]
      BY <1>2, <2>3
    <3>2. client[c].conf \in File /\ client[c].conf.token \in drawn
      BY <2>1, <2>3 DEF Client, RequestInv
    <3> QED BY <1>1, <3>1, <3>2 DEF Client, RequestInv, Sent
  <2> QED BY <2>2, <2>3
<1>4. slice' \in Slice /\ slice'.array = 0 /\ slice'.len = 0
  BY <1>1 DEF Slice
<1>5. arrays' \in Seq(Seq(Tokens \cup {None})) /\ DOMAIN arrays' = {}
  BY <1>1
<1>6. user' \in [Users -> User] /\ client' \in [Clients -> Client]
  <2>1. Idle \in User
    BY DEF User, Idle
  <2> QED BY <1>1, <1>2, <1>3, <2>1
<1>7. TypeOK'
  BY <1>1, <1>4, <1>5, <1>6 DEF IInv, TypeOK
<1>8. CommandInv'
  <2>1. \A q \in Invocations : pc[q] = "serving" => q = p
    BY <1>1 DEF IInv, CommandInv
  <2>2. \A q \in Invocations : /\ pc'[q] = (IF q = p THEN "off" ELSE pc[q])
                               /\ own'[q] = (IF q = p THEN None ELSE own[q])
    BY <1>1 DEF IInv, TypeOK
  <2> QED BY <1>1, <2>1, <2>2, LocalAssumption DEF IInv, CommandInv
<1>9. StoreInv'
  <2>1. Holds(Rows'[slice'.array], slice'.len, 0, created' \ revoked')
    BY <1>1, <1>4 DEF Holds
  <2>2. \A u \in Users : user'[u] = Idle
    BY <1>1
  <2>3. \A a, k \in Nat : Rows'[a][k] = None
    BY <1>5 DEF Rows, Element
  <2> QED BY <1>1, <1>4, <2>1, <2>2, <2>3 DEF StoreInv, Idle
<1> QED BY <1>3, <1>7, <1>8, <1>9 DEF IInv, ClientInv

-----------------------------------------------------------------------------
(* The steps of the console, which makes one request at a time. *)

(* No request of the console changes what the command is at. *)
LEMMA CommandKept ==
  ASSUME CommandInv, UNCHANGED <<file, lock, pc, own>>, drawn \subseteq drawn',
         created \subseteq created'
  PROVE  CommandInv'
BY DEF CommandInv

(* The one request of the console. *)
LEMMA TheUser ==
  ASSUME OneAtATime, TypeOK, NEW u \in Users, NEW next, user' = [user EXCEPT ![u] = next]
  PROVE  \A v \in Users : v = u /\ user'[v] = next
BY DEF OneAtATime, TypeOK

(* A step of the console has the type of the request it leaves.             *)
LEMMA ConsoleTyped ==
  ASSUME TypeOK, NEW u \in Users, NEW next \in User, user' = [user EXCEPT ![u] = next],
         UNCHANGED <<file, lock, pc, own>>,
         arrays' \in Arrays, slice' \in Slice, client' \in [Clients -> Client],
         created' \subseteq drawn', revoked' \subseteq created', drawn' \subseteq Tokens,
         \A v \in Users : v = u,
         next = Idle => Fits(slice)',
         next # Idle => Fits(user[u].slice)'
  PROVE  TypeOK'
<1>1. user' \in [Users -> User] /\ \A v \in Users : v = u /\ user'[v] = next
  BY DEF TypeOK
<1>2. lock' # None /\ (\A v \in Users : user'[v] = Idle) => Fits(slice)'
  BY <1>1
<1>3. \A v \in Users : user'[v] # Idle => Fits(user[v].slice)'
  BY <1>1
<1> QED BY <1>1, <1>2, <1>3 DEF TypeOK, Arrays, Idle

(* The first words of append: the console creates a token. *)
LEMMA CreateStep ==
  ASSUME OneAtATime, IInv, NEW u \in Users, NEW token \in Tokens, Create(u, token)
  PROVE  IInv'
<1>1. UNCHANGED <<file, lock, pc, own, slice, created, revoked>>
  BY DEF Create
<1>2. /\ user[u] = Idle /\ Served # {} /\ token \notin drawn /\ drawn' = drawn \cup {token}
      /\ arrays' = Grown /\ client' = [c \in Clients |-> BesideCreate(c)]
  BY DEF Create
<1>3. lock # None /\ \A v \in Users : v = u /\ user[v] = Idle
  BY <1>2, ServedLocks DEF IInv, OneAtATime
<1>4. Fits(slice) /\ TypeOK /\ StoreInv /\ CommandInv
  BY <1>3 DEF IInv, TypeOK
<1>5. Grows(arrays')
  <2>1. PICK copy : copy = arrays'
    OBVIOUS
  <2> QED BY <1>2, <1>4, <2>1, AppendGrows
<1>6. slice \in Slice /\ slice.array \in Nat /\ slice.len \in Nat /\ arrays \in Arrays
      /\ Len(arrays) \in Nat
  BY <1>4, StoreKnown, ArraysKnown
<1>7. PICK next : next = [pc |-> "append", token |-> token,
                          slice |-> [array |-> Room, len |-> slice.len + 1],
                          unwritten |-> IF Full THEN Parts ELSE Parts \ {"array"}]
  OBVIOUS
<1>8. user' = [user EXCEPT ![u] = next]
  <2>1. Full => Len(arrays') = Len(arrays) + 1
    BY <1>5 DEF Grows
  <2> QED BY <1>7, <2>1 DEF Create, Room
<1>9. /\ next.pc = "append" /\ next.token = token /\ next.slice.array = Room
      /\ next.slice.len = slice.len + 1 /\ next.unwritten \subseteq Parts
      /\ "len" \in next.unwritten /\ "element" \in next.unwritten
      /\ "array" \notin next.unwritten => Room = slice.array
      /\ next \in User /\ next # Idle
  <2>1. Room \in Nat
    BY <1>5 DEF Grows
  <2>2. [array |-> Room, len |-> slice.len + 1] \in Slice
    BY <1>6, <2>1 DEF Slice
  <2>3. \A words \in SUBSET Parts :
          [pc |-> "append", token |-> token,
           slice |-> [array |-> Room, len |-> slice.len + 1], unwritten |-> words] \in User
    BY <2>2 DEF User
  <2> QED BY <1>7, <2>3 DEF Parts, Room, Idle
<1>10. \A v \in Users : v = u /\ user'[v] = next
  BY <1>8, TheUser DEF IInv
<1>11. /\ \A a, k \in Nat : Rows[a][k] # None => Rows'[a][k] = Rows[a][k]
       /\ \A k \in 1..slice.len : Rows'[Room][k] = Rows[slice.array][k]
       /\ \A k \in 1..slice.len : Rows'[slice.array][k] = Rows[slice.array][k]
       /\ \A a, k \in Nat : Rows'[a][k] # None => \E b, j \in Nat : Rows'[a][k] = Rows[b][j]
  BY <1>4, <1>5, GrownRows
<1>12. ASSUME NEW c \in Clients
       PROVE  client'[c] \in Client /\ RequestInv(c)'
  <2>1. client'[c] = BesideCreate(c) /\ client[c] \in Client /\ RequestInv(c)
    BY <1>2 DEF IInv, TypeOK, ClientInv
  <2>2. CASE Sent(c) /\ client[c].fate = "unknown" /\ client[c].conf.token \in revoked
    <3>1. client'[c] = [client[c] EXCEPT !.fate = "either"]
      BY <2>1, <2>2 DEF BesideCreate
    <3> QED BY <1>1, <1>2, <1>4, <2>1, <2>2, <3>1, RequestFree
  <2>3. CASE ~(Sent(c) /\ client[c].fate = "unknown" /\ client[c].conf.token \in revoked)
    <3>1. client'[c] = client[c]
      BY <2>1, <2>3 DEF BesideCreate
    <3>2. /\ Seen(c)' = Seen(c) /\ Position(c)' = Position(c)
          /\ client[c].pc # "idle" => client[c].conf.token \in drawn
      BY <1>1, <2>1, <3>1 DEF Seen, Position, RequestInv
    <3>3. ASSUME Sent(c), client[c].fate = "unknown"
          PROVE  MissesUnknown(c)'
      <4>1. MissesUnknown(c) /\ client[c].conf.token # token
        BY <1>2, <2>1, <3>2, <3>3 DEF RequestInv, Sent
      <4> QED BY <1>1, <1>9, <1>10, <2>3, <3>1, <3>3, <4>1 DEF MissesUnknown
    <3>4. ASSUME Sent(c), client[c].fate = "valid"
          PROVE  FindsValid(c)'
      <4>1. PICK t : t = client[c].conf.token
        OBVIOUS
      <4>2. FindsValid(c)
        BY <2>1, <3>4 DEF RequestInv
      <4>3. PICK k \in Position(c)..Seen(c).len :
              Settled(k) /\ Rows[Seen(c).array][k] = t /\ Rows[slice.array][k] = t
        BY <4>1, <4>2 DEF FindsValid
      <4>4. t # None /\ Seen(c).array \in Nat /\ k \in 1..slice.len /\ k \in Nat
        BY <1>4, <1>6, <3>4, <4>1, <4>3, SentCases, LocalAssumption DEF Settled
      <4>5. Rows'[Seen(c).array][k] = t /\ Rows'[slice.array][k] = t
        BY <1>6, <1>11, <4>3, <4>4
      <4>6. Settled(k)'
        BY <1>1, <1>6, <1>9, <1>10, <4>4 DEF Settled
      <4> QED BY <1>1, <1>9, <1>10, <3>1, <3>2, <4>1, <4>3, <4>5, <4>6 DEF FindsValid
    <3>5. RequestInv(c)'
      BY <1>1, <1>2, <2>1, <3>1, <3>3, <3>4, RequestFollows
    <3> QED BY <2>1, <3>1, <3>5
  <2> QED BY <2>2, <2>3
<1>13. TypeOK'
  <2>1. Fits(user[u].slice)'
    BY <1>5, <1>9, <1>10, ArraysKnown DEF Fits, Grows
  <2>2. client' \in [Clients -> Client]
    BY <1>2, <1>12
  <2>3. created' \subseteq drawn' /\ revoked' \subseteq created' /\ drawn' \subseteq Tokens
    BY <1>1, <1>2, <1>4 DEF TypeOK
  <2> QED BY <1>1, <1>4, <1>5, <1>6, <1>8, <1>9, <1>10, <2>1, <2>2, <2>3, ConsoleTyped DEF Grows
<1>14. CommandInv'
  BY <1>1, <1>2, CommandKept DEF IInv
<1>15. StoreInv'
  <2>1. Holds(Rows[slice.array], slice.len, 0, created \ revoked)
    BY <1>3 DEF IInv, StoreInv
  <2>2. Holds(Rows'[slice.array], slice.len, 0, created \ revoked)
    <3>1. PICK old, new, S : /\ old = Rows[slice.array] /\ new = Rows'[slice.array]
                             /\ S = created \ revoked
      OBVIOUS
    <3>2. Holds(old, slice.len, 0, S) /\ \A k \in 1..slice.len : new[k] = old[k]
      BY <1>11, <2>1, <3>1
    <3>3. Holds(new, slice.len, 0, S)
      BY <1>6, <3>2, HoldsSame
    <3> QED BY <3>1, <3>3
  <2>3. \A k \in 1..slice.len : Rows'[Room][k] = Rows'[slice.array][k]
    BY <1>11
  <2>4. Appending(u)'
    <3>1. user'[u] = next
      BY <1>10
    <3>2. /\ next.token \in drawn' \ created' /\ next.slice.len >= 1
          /\ next.slice.len - 1 = slice'.len
      <4>1. created \subseteq drawn
        BY <1>4 DEF TypeOK
      <4>2. next.token \in drawn' \ created'
        BY <1>1, <1>2, <1>9, <4>1
      <4>3. next.slice.len = slice.len + 1 /\ slice.len \in Nat /\ slice' = slice
        BY <1>1, <1>6, <1>9
      <4>4. next.slice.len >= 1 /\ next.slice.len - 1 = slice.len
        BY <4>3
      <4> QED BY <4>2, <4>3, <4>4
    <3>3. /\ Holds(Rows'[slice'.array], next.slice.len - 1, 0, created' \ revoked')
          /\ \A k \in 1..(next.slice.len - 1) : Rows'[next.slice.array][k] = Rows'[slice'.array][k]
      BY <1>1, <1>9, <2>2, <2>3, <3>2
    <3>4. "array" \notin next.unwritten => slice'.array = next.slice.array
      BY <1>1, <1>9
    <3> QED BY <1>9, <3>1, <3>2, <3>3, <3>4 DEF Appending
  <2>5. \A a, k \in Nat : Rows'[a][k] \in created' \cup {None}
    <3> SUFFICES ASSUME NEW a \in Nat, NEW k \in Nat, Rows'[a][k] # None
                 PROVE  Rows'[a][k] \in created'
      OBVIOUS
    <3>1. PICK b, j \in Nat : Rows'[a][k] = Rows[b][j]
      BY <1>11
    <3>2. \A v \in Users : user[v].pc # "append"
      BY <1>3 DEF Idle
    <3> QED BY <1>1, <1>4, <3>1, <3>2 DEF StoreInv
  <2>6. lock' # None /\ \A v \in Users : v = u /\ user'[v].pc = "append" /\ user'[v] # Idle
    BY <1>1, <1>3, <1>9, <1>10
  <2>7. \A v \in Users : Appending(v)'
    BY <2>4, <2>6
  <2> QED BY <2>5, <2>6, <2>7 DEF StoreInv, Idle
<1> QED BY <1>12, <1>13, <1>14, <1>15 DEF IInv, ClientInv

(* What is known of the request that creates a token. *)
LEMMA AppendingKnown ==
  ASSUME OneAtATime, IInv, NEW u \in Users, user[u].pc = "append"
  PROVE  /\ user[u] \in [pc : {"append"}, token : Tokens, slice : Slice, unwritten : SUBSET Parts]
         /\ user[u].slice.array \in Nat /\ user[u].slice.len \in Nat
         /\ user[u].token \in Tokens
         /\ user[u].token \in drawn \ created
         /\ Appending(u) /\ Fits(user[u].slice) /\ lock # None
         /\ slice \in Slice /\ slice.array \in Nat /\ slice.len \in Nat /\ arrays \in Arrays
         /\ \A v \in Users : v = u
<1>1. user[u] # Idle
  BY DEF Idle
<1>2. /\ user[u] \in [pc : {"append"}, token : Tokens, slice : Slice, unwritten : SUBSET Parts]
      /\ slice \in Slice /\ slice.array \in Nat /\ slice.len \in Nat /\ arrays \in Arrays
  BY UserCases, StoreKnown DEF IInv
<1>3. user[u].slice.array \in Nat /\ user[u].slice.len \in Nat /\ user[u].token \in Tokens
  BY <1>2 DEF Slice
<1>4. Appending(u) /\ Fits(user[u].slice) /\ lock # None
  BY <1>1 DEF IInv, TypeOK, StoreInv
<1>5. user[u].token \in drawn \ created
  BY <1>4 DEF Appending
<1> QED BY <1>2, <1>3, <1>4, <1>5 DEF OneAtATime

(* A word of the slice is written. *)
LEMMA WriteHeaderStep ==
  ASSUME OneAtATime, IInv, NEW u \in Users, NEW word, WriteHeader(u, word)
  PROVE  IInv'
<1>1. UNCHANGED <<file, lock, pc, own, arrays, client, created, revoked, drawn>>
  BY DEF WriteHeader
<1>2. PICK new : new = user[u]
  OBVIOUS
<1>3. PICK next : next = [new EXCEPT !.unwritten = @ \ {word}]
  OBVIOUS
<1>4. /\ new.pc = "append" /\ word \in new.unwritten /\ word \in {"array", "len"}
      /\ slice' = [slice EXCEPT ![word] = new.slice[word]]
      /\ user' = [user EXCEPT ![u] = next]
  BY <1>2, <1>3 DEF WriteHeader
<1>5. /\ new \in [pc : {"append"}, token : Tokens, slice : Slice, unwritten : SUBSET Parts]
      /\ new.slice \in Slice /\ new.slice.array \in Nat /\ new.slice.len \in Nat
      /\ new.token \in drawn \ created /\ new.token \in Tokens
      /\ Appending(u) /\ Fits(new.slice) /\ lock # None
      /\ slice \in Slice /\ slice.array \in Nat /\ slice.len \in Nat /\ arrays \in Arrays
      /\ \A v \in Users : v = u
  BY <1>2, <1>4, AppendingKnown
<1>6. /\ next.pc = "append" /\ next.token = new.token /\ next.slice = new.slice
      /\ next.unwritten = new.unwritten \ {word} /\ next \in User /\ next # Idle
  <2>1. /\ next \in [pc : {"append"}, token : Tokens, slice : Slice, unwritten : SUBSET Parts]
        /\ next.token = new.token /\ next.slice = new.slice
        /\ next.unwritten = new.unwritten \ {word}
    BY <1>3, <1>5
  <2> QED BY <2>1 DEF User, Idle
<1>7. \A v \in Users : v = u /\ user'[v] = next
  BY <1>4, TheUser DEF IInv
<1>8. Rows' = Rows
  BY <1>1 DEF Rows, Element
<1>9. /\ new.slice.len >= 1
      /\ "array" \notin new.unwritten => slice.array = new.slice.array
      /\ slice.len = IF "len" \in new.unwritten THEN new.slice.len - 1 ELSE new.slice.len
      /\ Holds(Rows[slice.array], new.slice.len - 1, 0, created \ revoked)
      /\ \A k \in 1..(new.slice.len - 1) : Rows[new.slice.array][k] = Rows[slice.array][k]
      /\ "element" \notin new.unwritten => Rows[new.slice.array][new.slice.len] = new.token
  BY <1>2, <1>5 DEF Appending
<1>10. /\ slice'.array = (IF word = "array" THEN new.slice.array ELSE slice.array)
       /\ slice'.len = (IF word = "len" THEN new.slice.len ELSE slice.len)
       /\ slice' \in Slice
  <2>1. CASE word = "array"
    BY <1>4, <1>5, <2>1 DEF Slice
  <2>2. CASE word = "len"
    BY <1>4, <1>5, <2>2 DEF Slice
  <2> QED BY <1>4, <2>1, <2>2
<1>11. \A k \in 1..(new.slice.len - 1) : Rows[slice'.array][k] = Rows[slice.array][k]
  BY <1>9, <1>10
<1>12. slice'.len >= slice.len /\ slice.len >= new.slice.len - 1 /\ slice'.len \in Nat
  BY <1>4, <1>5, <1>9, <1>10
<1>13. TypeOK'
  <2>1. user'[u] = next
    BY <1>7
  <2>2. Fits(user[u].slice)'
    BY <1>1, <1>5, <1>6, <2>1 DEF Fits
  <2>3. TypeOK
    BY DEF IInv
  <2> QED BY <1>1, <1>4, <1>5, <1>6, <1>10, <2>2, <2>3, ConsoleTyped DEF TypeOK
<1>14. CommandInv'
  BY <1>1, CommandKept DEF IInv
<1>15. StoreInv'
  <2>1. Holds(Rows[slice'.array], new.slice.len - 1, 0, created \ revoked)
    <3>1. PICK old, row, n, S : /\ old = Rows[slice.array] /\ row = Rows[slice'.array]
                                /\ n = new.slice.len - 1 /\ S = created \ revoked
      OBVIOUS
    <3>2. n \in Nat
      BY <1>5, <1>9, <3>1
    <3>3. Holds(old, n, 0, S) /\ \A k \in 1..n : row[k] = old[k]
      BY <1>9, <1>11, <3>1
    <3>4. Holds(row, n, 0, S)
      BY <3>2, <3>3, HoldsSame
    <3> QED BY <3>1, <3>4
  <2>2. \A k \in 1..(new.slice.len - 1) : Rows[new.slice.array][k] = Rows[slice'.array][k]
    BY <1>9, <1>11
  <2>3. "array" \notin next.unwritten => slice'.array = new.slice.array
    BY <1>6, <1>9, <1>10
  <2>4. slice'.len = IF "len" \in next.unwritten THEN new.slice.len - 1 ELSE new.slice.len
    BY <1>4, <1>6, <1>9, <1>10
  <2>5. "element" \notin next.unwritten => "element" \notin new.unwritten
    BY <1>4, <1>6
  <2>6. Appending(u)'
    <3>1. user'[u] = next
      BY <1>7
    <3> QED BY <1>1, <1>5, <1>6, <1>8, <1>9, <2>1, <2>2, <2>3, <2>4, <2>5, <3>1 DEF Appending
  <2>7. \A v \in Users : Appending(v)' /\ user'[v].pc = "append" /\ user'[v] # Idle
    BY <1>6, <1>7, <2>6
  <2>8. \A a, k \in Nat : Rows'[a][k] \in created' \cup {None}
                          \/ \E v \in Users : user'[v].pc = "append" /\ user'[v].token = Rows'[a][k]
    <3>1. \A v \in Users : user'[v].token = user[v].token /\ user'[v].pc = user[v].pc
      BY <1>2, <1>4, <1>6, <1>7
    <3> QED BY <1>1, <1>8, <3>1 DEF IInv, StoreInv
  <2>9. lock' # None
    BY <1>1, <1>5
  <2>10. u \in Users /\ user'[u] # Idle
    BY <2>7
  <2> QED BY <2>7, <2>8, <2>9, <2>10 DEF StoreInv, Idle
<1>16. ASSUME NEW c \in Clients
       PROVE  RequestInv(c)'
  <2>1. RequestInv(c) /\ client'[c] = client[c] /\ TypeOK
    BY <1>1 DEF IInv, ClientInv
  <2>2. ASSUME Sent(c), client[c].fate = "unknown"
        PROVE  MissesUnknown(c)'
    <3>1. PICK t : t = client[c].conf.token
      OBVIOUS
    <3>2. t \notin created \ revoked /\ new.token # t /\ t \notin revoked
      BY <1>2, <1>4, <2>1, <2>2, <3>1 DEF RequestInv, MissesUnknown
    <3> QED BY <1>1, <1>6, <1>7, <2>1, <3>1, <3>2 DEF MissesUnknown
  <2>3. ASSUME Sent(c), client[c].fate = "valid"
        PROVE  FindsValid(c)'
    <3>1. PICK t : t = client[c].conf.token
      OBVIOUS
    <3>2. FindsValid(c)
      BY <2>1, <2>3 DEF RequestInv
    <3>3. PICK k \in Position(c)..Seen(c).len :
            Settled(k) /\ Rows[Seen(c).array][k] = t /\ Rows[slice.array][k] = t
      BY <3>1, <3>2 DEF FindsValid
    <3>4. k \in 1..slice.len /\ k < new.slice.len
      BY <1>2, <1>4, <3>3 DEF Settled
    <3>5. k \in 1..(new.slice.len - 1) /\ k \in 1..slice'.len
      BY <1>5, <1>12, <3>4
    <3>6. Settled(k)'
      BY <1>6, <1>7, <3>4, <3>5 DEF Settled
    <3>7. Rows[slice'.array][k] = t
      BY <1>11, <3>3, <3>5
    <3>8. /\ Position(c)' = Position(c) /\ k \in Position(c)..Seen(c)'.len
          /\ Rows[Seen(c)'.array][k] = t
      <4>1. CASE client[c].pc = "loading"
        <5>1. /\ Seen(c)'.array = (IF client[c].word = "array" THEN client[c].value ELSE slice'.array)
              /\ Seen(c)'.len = (IF client[c].word = "len" THEN client[c].value ELSE slice'.len)
              /\ Seen(c).array = (IF client[c].word = "array" THEN client[c].value ELSE slice.array)
              /\ Seen(c).len = (IF client[c].word = "len" THEN client[c].value ELSE slice.len)
              /\ Position(c)' = Position(c) /\ Position(c) = 1
          BY <2>1, <4>1 DEF Seen, Position
        <5>2. client[c].value \in Nat
          BY <2>1, <2>3, <4>1, SentCases
        <5>3. k \in 1..Seen(c)'.len
          BY <1>5, <1>12, <3>3, <3>5, <5>1, <5>2
        <5> QED BY <3>3, <3>7, <5>1, <5>3
      <4>2. CASE client[c].pc # "loading"
        BY <2>1, <3>3, <4>2 DEF Seen, Position
      <4> QED BY <4>1, <4>2
    <3>9. \A v \in Users : user'[v].pc # "shift"
      BY <1>6, <1>7
    <3> QED BY <1>8, <2>1, <3>1, <3>6, <3>7, <3>8, <3>9 DEF FindsValid
  <2> QED BY <1>1, <2>1, <2>2, <2>3, RequestFollows
<1> QED BY <1>13, <1>14, <1>15, <1>16 DEF IInv, ClientInv

(* The new element is written. *)
LEMMA WriteElementStep ==
  ASSUME OneAtATime, IInv, NEW u \in Users, WriteElement(u)
  PROVE  IInv'
<1>1. UNCHANGED <<file, lock, pc, own, slice, client, created, revoked, drawn>>
  BY DEF WriteElement
<1>2. PICK new : new = user[u]
  OBVIOUS
<1>3. PICK next : next = [new EXCEPT !.unwritten = @ \ {"element"}]
  OBVIOUS
<1>4. /\ new.pc = "append" /\ "element" \in new.unwritten
      /\ arrays' = [arrays EXCEPT ![new.slice.array][new.slice.len] = new.token]
      /\ user' = [user EXCEPT ![u] = next]
  BY <1>2, <1>3 DEF WriteElement
<1>5. /\ new \in [pc : {"append"}, token : Tokens, slice : Slice, unwritten : SUBSET Parts]
      /\ new.slice.array \in Nat /\ new.slice.len \in Nat
      /\ new.token \in drawn \ created /\ new.token \in Tokens
      /\ Appending(u) /\ Fits(new.slice) /\ lock # None
      /\ slice \in Slice /\ slice.array \in Nat /\ slice.len \in Nat /\ arrays \in Arrays
      /\ \A v \in Users : v = u
  BY <1>2, <1>4, AppendingKnown
<1>6. /\ next.pc = "append" /\ next.token = new.token /\ next.slice = new.slice
      /\ next.unwritten = new.unwritten \ {"element"} /\ next \in User /\ next # Idle
  <2>1. /\ next \in [pc : {"append"}, token : Tokens, slice : Slice, unwritten : SUBSET Parts]
        /\ next.token = new.token /\ next.slice = new.slice
        /\ next.unwritten = new.unwritten \ {"element"}
    BY <1>3, <1>5
  <2> QED BY <2>1 DEF User, Idle
<1>7. \A v \in Users : v = u /\ user'[v] = next
  BY <1>4, TheUser DEF IInv
<1>8. /\ new.slice.len >= 1
      /\ "array" \notin new.unwritten => slice.array = new.slice.array
      /\ slice.len = IF "len" \in new.unwritten THEN new.slice.len - 1 ELSE new.slice.len
      /\ Holds(Rows[slice.array], new.slice.len - 1, 0, created \ revoked)
      /\ \A k \in 1..(new.slice.len - 1) : Rows[new.slice.array][k] = Rows[slice.array][k]
  BY <1>2, <1>5 DEF Appending
<1>9. new.slice.array \in 1..Len(arrays) /\ new.slice.len \in 1..Len(arrays[new.slice.array])
  BY <1>5, <1>8, ArraysKnown DEF Fits
<1>10. /\ arrays' \in Arrays /\ Len(arrays') = Len(arrays)
       /\ \A a \in 1..Len(arrays) : Len(arrays'[a]) = Len(arrays[a])
       /\ \A a, k \in Nat : Rows'[a][k] =
            IF a = new.slice.array /\ k = new.slice.len THEN new.token ELSE Rows[a][k]
  <2>1. TypeOK /\ new.token \in Tokens \cup {None}
    BY <1>5 DEF IInv
  <2>2. Writes(new.slice.array, new.slice.len, new.token)
    BY <1>4 DEF Writes
  <2> QED BY <1>9, <2>1, <2>2, WrittenRows
<1>11. \A k \in 1..(new.slice.len - 1) : /\ k \in Nat /\ k # new.slice.len
                                         /\ \A a \in Nat : Rows'[a][k] = Rows[a][k]
  <2>1. \A k \in 1..(new.slice.len - 1) : k \in Nat /\ k # new.slice.len
    BY <1>5
  <2> QED BY <1>10, <2>1
<1>12. TypeOK'
  <2>1. user'[u] = next
    BY <1>7
  <2>2. Fits(user[u].slice)'
    <3>1. DOMAIN arrays' = 1..Len(arrays) /\ DOMAIN arrays = 1..Len(arrays)
      BY <1>5, <1>10, ArraysKnown
    <3> QED BY <1>5, <1>6, <1>9, <1>10, <2>1, <3>1 DEF Fits
  <2>3. TypeOK
    BY DEF IInv
  <2>4. /\ slice \in Slice /\ client \in [Clients -> Client]
        /\ created \subseteq drawn /\ revoked \subseteq created /\ drawn \subseteq Tokens
    BY <2>3 DEF TypeOK
  <2>5. /\ UNCHANGED <<file, lock, pc, own>> /\ arrays' \in Arrays
        /\ user' = [user EXCEPT ![u] = next]
    BY <1>1, <1>4, <1>10
  <2>6. /\ slice' \in Slice /\ client' \in [Clients -> Client]
        /\ created' \subseteq drawn' /\ revoked' \subseteq created' /\ drawn' \subseteq Tokens
    BY <1>1, <2>4
  <2>7. /\ \A v \in Users : v = u
        /\ next = Idle => Fits(slice)'
        /\ next # Idle => Fits(user[u].slice)'
    BY <1>5, <1>6, <2>2
  <2> QED BY <1>6, <2>3, <2>5, <2>6, <2>7, ConsoleTyped
<1>13. CommandInv'
  BY <1>1, CommandKept DEF IInv
<1>14. StoreInv'
  <2>1. Holds(Rows'[slice.array], new.slice.len - 1, 0, created \ revoked)
    <3>1. PICK old, row, n, S : /\ old = Rows[slice.array] /\ row = Rows'[slice.array]
                                /\ n = new.slice.len - 1 /\ S = created \ revoked
      OBVIOUS
    <3>2. n \in Nat
      BY <1>5, <1>8, <3>1
    <3>3. Holds(old, n, 0, S) /\ \A k \in 1..n : row[k] = old[k]
      BY <1>5, <1>8, <1>11, <3>1
    <3>4. Holds(row, n, 0, S)
      BY <3>2, <3>3, HoldsSame
    <3> QED BY <3>1, <3>4
  <2>2. \A k \in 1..(new.slice.len - 1) : Rows'[new.slice.array][k] = Rows'[slice.array][k]
    BY <1>5, <1>8, <1>11
  <2>3. Rows'[new.slice.array][new.slice.len] = new.token
    BY <1>5, <1>10
  <2>4. /\ "array" \notin next.unwritten => slice'.array = new.slice.array
        /\ slice'.len = IF "len" \in next.unwritten THEN new.slice.len - 1 ELSE new.slice.len
    BY <1>1, <1>6, <1>8
  <2>5. Appending(u)'
    <3>1. user'[u] = next
      BY <1>7
    <3> QED BY <1>1, <1>5, <1>6, <1>8, <2>1, <2>2, <2>3, <2>4, <3>1 DEF Appending
  <2>6. u \in Users /\ \A v \in Users : /\ Appending(v)' /\ user'[v].pc = "append"
                                       /\ user'[v] # Idle /\ user'[v].token = new.token
                                       /\ user[v].token = new.token
    BY <1>2, <1>6, <1>7, <2>5
  <2>7. \A a, k \in Nat : Rows'[a][k] \in created' \cup {None}
                          \/ \E v \in Users : user'[v].pc = "append" /\ user'[v].token = Rows'[a][k]
    <3> SUFFICES ASSUME NEW a \in Nat, NEW k \in Nat
                 PROVE  Rows'[a][k] \in created \cup {None} \/ Rows'[a][k] = new.token
      BY <1>1, <2>6
    <3>1. Rows[a][k] \in created \cup {None} \/ Rows[a][k] = new.token
      BY <2>6 DEF IInv, StoreInv
    <3> QED BY <1>10, <3>1
  <2>8. lock' # None
    BY <1>1, <1>5
  <2> QED BY <2>6, <2>7, <2>8 DEF StoreInv, Idle
<1>15. ASSUME NEW c \in Clients
       PROVE  RequestInv(c)'
  <2>1. RequestInv(c) /\ client'[c] = client[c] /\ TypeOK
    BY <1>1 DEF IInv, ClientInv
  <2>2. Seen(c)' = Seen(c) /\ Position(c)' = Position(c)
    BY <1>1, <2>1 DEF Seen, Position
  <2>3. ASSUME Sent(c), client[c].fate = "unknown"
        PROVE  MissesUnknown(c)'
    <3>1. PICK t : t = client[c].conf.token
      OBVIOUS
    <3>2. t \notin created \ revoked /\ new.token # t /\ t \notin revoked
      BY <1>2, <1>4, <2>1, <2>3, <3>1 DEF RequestInv, MissesUnknown
    <3> QED BY <1>1, <1>6, <1>7, <2>1, <3>1, <3>2 DEF MissesUnknown
  <2>4. ASSUME Sent(c), client[c].fate = "valid"
        PROVE  FindsValid(c)'
    <3>1. PICK t : t = client[c].conf.token
      OBVIOUS
    <3>2. FindsValid(c)
      BY <2>1, <2>4 DEF RequestInv
    <3>3. PICK k \in Position(c)..Seen(c).len :
            Settled(k) /\ Rows[Seen(c).array][k] = t /\ Rows[slice.array][k] = t
      BY <3>1, <3>2 DEF FindsValid
    <3>4. k \in 1..slice.len /\ k < new.slice.len
      BY <1>2, <1>4, <3>3 DEF Settled
    <3>5. k \in 1..(new.slice.len - 1)
      BY <1>5, <3>4
    <3>6. Seen(c).array \in Nat
      BY <2>1, <2>4, SentCases
    <3>7. Rows'[Seen(c).array][k] = t /\ Rows'[slice.array][k] = t
      BY <1>5, <1>11, <3>3, <3>5, <3>6
    <3>8. Settled(k)'
      BY <1>1, <1>6, <1>7, <3>4 DEF Settled
    <3>9. \A v \in Users : user'[v].pc # "shift"
      BY <1>6, <1>7
    <3> QED BY <1>1, <2>1, <2>2, <3>1, <3>3, <3>7, <3>8, <3>9 DEF FindsValid
  <2> QED BY <1>1, <2>1, <2>3, <2>4, RequestFollows
<1> QED BY <1>12, <1>13, <1>14, <1>15 DEF IInv, ClientInv

(* Then all is written, and the store has the token. *)
LEMMA CreateEndsStep ==
  ASSUME OneAtATime, IInv, NEW u \in Users, CreateEnds(u)
  PROVE  IInv'
<1>1. UNCHANGED <<file, lock, pc, own, arrays, slice, client, revoked, drawn>>
  BY DEF CreateEnds
<1>2. PICK new, token : new = user[u] /\ token = new.token
  OBVIOUS
<1>3. /\ new.pc = "append" /\ new.unwritten = {} /\ created' = created \cup {token}
      /\ user' = [user EXCEPT ![u] = Idle]
  BY <1>2 DEF CreateEnds
<1>4. /\ new.slice \in Slice /\ new.slice.array \in Nat /\ new.slice.len \in Nat
      /\ token \in drawn \ created /\ token \in Tokens
      /\ Appending(u) /\ Fits(new.slice) /\ lock # None
      /\ slice \in Slice /\ slice.array \in Nat /\ slice.len \in Nat /\ arrays \in Arrays
      /\ \A v \in Users : v = u
  BY <1>2, <1>3, AppendingKnown
<1>5. /\ slice.array = new.slice.array /\ slice.len = new.slice.len /\ slice.len >= 1
      /\ Holds(Rows[slice.array], slice.len - 1, 0, created \ revoked)
      /\ Rows[slice.array][slice.len] = token
  BY <1>2, <1>3, <1>4 DEF Appending
<1>6. (created \cup {token}) \ revoked = (created \ revoked) \cup {token}
  BY <1>4 DEF IInv, TypeOK
<1>7. Holds(Rows[slice.array], slice.len, 0, (created \ revoked) \cup {token})
  <2>1. PICK row, n, S : row = Rows[slice.array] /\ n = slice.len - 1 /\ S = created \ revoked
    OBVIOUS
  <2>2. n \in Nat /\ n + 1 = slice.len
    BY <1>4, <1>5, <2>1
  <2>3. token \notin S /\ Holds(row, n, 0, S) /\ row[n + 1] = token
    BY <1>4, <1>5, <2>1, <2>2
  <2>4. Holds(row, n + 1, 0, S \cup {token})
    BY <2>2, <2>3, HoldsAppended
  <2> QED BY <2>1, <2>2, <2>4
<1>8. \A v \in Users : v = u /\ user'[v] = Idle
  BY <1>3, TheUser DEF IInv
<1>9. Rows' = Rows /\ Idle \in User /\ Idle.pc = "idle"
  BY <1>1 DEF Rows, Element, User, Idle
<1>10. TypeOK'
  <2>1. Fits(slice)'
    BY <1>1, <1>4, <1>5 DEF Fits
  <2>2. TypeOK
    BY DEF IInv
  <2>3. created' \subseteq drawn' /\ revoked' \subseteq created' /\ drawn' \subseteq Tokens
    BY <1>1, <1>3, <1>4, <2>2 DEF TypeOK
  <2>4. client' \in [Clients -> Client]
    BY <1>1, <2>2 DEF TypeOK
  <2> QED BY <1>1, <1>3, <1>4, <1>9, <2>1, <2>2, <2>3, <2>4, ConsoleTyped
<1>11. CommandInv'
  BY <1>1, <1>3, CommandKept DEF IInv
<1>12. StoreInv'
  <2>1. Holds(Rows'[slice'.array], slice'.len, 0, created' \ revoked')
    BY <1>1, <1>3, <1>6, <1>7, <1>9
  <2>2. \A a, k \in Nat : Rows'[a][k] \in created' \cup {None}
    <3> SUFFICES ASSUME NEW a \in Nat, NEW k \in Nat
                 PROVE  Rows[a][k] \in created \cup {token} \cup {None}
      BY <1>3, <1>9
    <3>1. \A v \in Users : user[v].token = token
      BY <1>2, <1>4
    <3> QED BY <3>1 DEF IInv, StoreInv
  <2> QED BY <1>1, <1>4, <1>8, <1>9, <2>1, <2>2 DEF StoreInv
<1>13. ASSUME NEW c \in Clients
       PROVE  RequestInv(c)'
  <2>1. RequestInv(c) /\ client'[c] = client[c]
    BY <1>1 DEF IInv, ClientInv
  <2>2. Seen(c)' = Seen(c) /\ Position(c)' = Position(c)
    BY <1>1, <2>1 DEF Seen, Position
  <2>3. MissesUnknown(c) => MissesUnknown(c)'
    BY <1>1, <1>2, <1>3, <1>6, <1>8, <1>9, <2>1, <2>2 DEF MissesUnknown
  <2>4. \A k : Settled(k) => Settled(k)'
    BY <1>1, <1>8, <1>9 DEF Settled
  <2>5. FindsValid(c) => FindsValid(c)'
    BY <1>1, <1>8, <1>9, <2>1, <2>2, <2>4 DEF FindsValid
  <2> QED BY <1>1, <2>1, <2>3, <2>5, RequestFollows DEF RequestInv
<1> QED BY <1>10, <1>11, <1>12, <1>13 DEF IInv, ClientInv

(* The console deletes a token: the shift starts at its element. *)
LEMMA DeleteStep ==
  ASSUME OneAtATime, IInv, NEW u \in Users, NEW token \in Tokens, Delete(u, token)
  PROVE  IInv'
<1>1. UNCHANGED <<file, lock, pc, own, arrays, slice, created, revoked, drawn>>
  BY DEF Delete, store
<1>2. PICK k \in DOMAIN Stored :
        /\ Stored[k] = token
        /\ user' = [user EXCEPT ![u] = [pc |-> "shift", token |-> token, slice |-> slice, at |-> k]]
  BY DEF Delete
<1>3. user[u] = Idle /\ Served # {} /\ client' = [c \in Clients |-> BesideDelete(c)]
  BY DEF Delete
<1>4. slice \in Slice /\ slice.array \in Nat /\ slice.len \in Nat /\ arrays \in Arrays
  BY StoreKnown DEF IInv
<1>5. k \in 1..slice.len /\ k \in Nat /\ Rows[slice.array][k] = token
  BY <1>2, <1>4 DEF Stored, Rows
<1>6. PICK next : next = [pc |-> "shift", token |-> token, slice |-> slice, at |-> k]
  OBVIOUS
<1>7. /\ next.pc = "shift" /\ next.token = token /\ next.slice = slice /\ next.at = k
      /\ next \in User /\ next # Idle
  BY <1>4, <1>5, <1>6 DEF User, Idle
<1>8. \A v \in Users : v = u /\ user[v] = Idle /\ user'[v] = next
  BY <1>2, <1>3, <1>6, TheUser DEF IInv
<1>9. lock # None /\ Fits(slice) /\ TypeOK
  BY <1>3, <1>8, ServedLocks DEF IInv, TypeOK
<1>10. Holds(Rows[slice.array], slice.len, 0, created \ revoked)
  BY <1>8 DEF IInv, StoreInv
<1>11. /\ token \in created \ revoked
       /\ Holds(Rows[slice.array], slice.len, k, (created \ revoked) \ {token})
  BY <1>4, <1>5, <1>10, HoldsWithout
<1>12. Rows' = Rows
  BY <1>1 DEF Rows, Element
<1>13. ASSUME NEW c \in Clients
       PROVE  client'[c] \in Client /\ RequestInv(c)'
  <2>1. client'[c] = BesideDelete(c) /\ client[c] \in Client /\ RequestInv(c)
    BY <1>3 DEF IInv, TypeOK, ClientInv
  <2>2. CASE Sent(c) /\ client[c].fate = "valid"
    <3>1. client'[c] = [client[c] EXCEPT !.fate = "either"]
      BY <2>1, <2>2 DEF BesideDelete
    <3> QED BY <1>1, <1>9, <2>1, <2>2, <3>1, RequestFree
  <2>3. CASE ~(Sent(c) /\ client[c].fate = "valid")
    <3>1. client'[c] = client[c]
      BY <2>1, <2>3 DEF BesideDelete
    <3>2. Seen(c)' = Seen(c)
      BY <1>1, <3>1 DEF Seen
    <3>3. MissesUnknown(c) => MissesUnknown(c)'
      BY <1>1, <1>7, <1>8, <1>12, <3>1, <3>2 DEF MissesUnknown
    <3>4. RequestInv(c)'
      BY <1>1, <2>1, <2>3, <3>1, <3>3, RequestFollows DEF RequestInv
    <3> QED BY <2>1, <3>1, <3>4
  <2> QED BY <2>2, <2>3
<1>14. TypeOK'
  <2>1. user'[u] = next
    BY <1>8
  <2>2. Fits(user[u].slice)'
    BY <1>1, <1>7, <1>9, <2>1 DEF Fits
  <2>3. client' \in [Clients -> Client]
    BY <1>3, <1>13
  <2>4. user' = [user EXCEPT ![u] = next]
    BY <1>2, <1>6
  <2> QED BY <1>1, <1>4, <1>7, <1>8, <1>9, <2>2, <2>3, <2>4, ConsoleTyped DEF TypeOK
<1>15. CommandInv'
  BY <1>1, CommandKept DEF IInv
<1>16. StoreInv'
  <2>1. Shifting(u)'
    <3>1. user'[u] = next
      BY <1>8
    <3> QED BY <1>1, <1>5, <1>7, <1>11, <1>12, <3>1 DEF Shifting
  <2>2. u \in Users /\ \A v \in Users : Shifting(v)' /\ user'[v].pc = "shift" /\ user'[v] # Idle
    BY <1>7, <1>8, <2>1
  <2>3. \A a, j \in Nat : Rows'[a][j] \in created' \cup {None}
    <3>1. \A v \in Users : user[v].pc # "append"
      BY <1>8 DEF Idle
    <3> QED BY <1>1, <1>12, <3>1 DEF IInv, StoreInv
  <2> QED BY <1>1, <1>9, <2>2, <2>3 DEF StoreInv, Idle
<1> QED BY <1>13, <1>14, <1>15, <1>16 DEF IInv, ClientInv

(* What is known of the request that deletes a token. *)
Deleting(u, del) ==
  /\ del = user[u]
  /\ del.token \in created \ revoked /\ del.token \in Tokens
  /\ del.slice = slice /\ slice \in Slice
  /\ slice.array \in Nat /\ slice.len \in Nat /\ arrays \in Arrays
  /\ slice.array \in 1..Len(arrays) /\ slice.len \in 0..Len(arrays[slice.array])
  /\ del.at \in 1..slice.len /\ del.at \in Nat
  /\ Rows[slice.array][del.at] \in created \ revoked
  /\ Holds(Rows[slice.array], slice.len, del.at, (created \ revoked) \ {del.token})
  /\ lock # None
  /\ \A v \in Users : v = u

(* While the console deletes a token no request is owed its own. *)
LEMMA DeletingKnown ==
  ASSUME OneAtATime, IInv, NEW u \in Users, user[u].pc = "shift"
  PROVE  /\ \E del \in [pc : {"shift"}, token : Tokens, slice : Slice, at : Nat] : Deleting(u, del)
         /\ \A c \in Clients : Sent(c) => client[c].fate # "valid"
<1>1. PICK del \in [pc : {"shift"}, token : Tokens, slice : Slice, at : Nat] : del = user[u]
  BY UserCases DEF IInv
<1>2. del # Idle /\ del.at \in Nat /\ del.token \in Tokens
  BY <1>1 DEF Idle
<1>3. Shifting(u) /\ Fits(del.slice) /\ lock # None
  BY <1>1, <1>2 DEF IInv, TypeOK, StoreInv
<1>4. /\ del.token \in created \ revoked
      /\ del.slice = slice
      /\ del.at \in 1..slice.len
      /\ Rows[slice.array][del.at] \in created \ revoked
      /\ Holds(Rows[slice.array], slice.len, del.at, (created \ revoked) \ {del.token})
  BY <1>1, <1>3 DEF Shifting
<1>5. slice \in Slice /\ slice.array \in Nat /\ slice.len \in Nat /\ arrays \in Arrays
  BY StoreKnown DEF IInv
<1>6. slice.array \in 1..Len(arrays) /\ slice.len \in 0..Len(arrays[slice.array])
  BY <1>3, <1>4, <1>5, ArraysKnown DEF Fits
<1>7. \A v \in Users : v = u
  BY DEF OneAtATime
<1>8. Deleting(u, del)
  BY <1>1, <1>2, <1>3, <1>4, <1>5, <1>6, <1>7 DEF Deleting
<1>9. \A c \in Clients : Sent(c) => client[c].fate # "valid"
  BY DEF IInv, ClientInv, RequestInv, FindsValid
<1> QED BY <1>8, <1>9

(* The elements after the deleted one move down, one by one. *)
LEMMA ShiftStep ==
  ASSUME OneAtATime, IInv, NEW u \in Users, Shift(u)
  PROVE  IInv'
<1>1. UNCHANGED <<file, lock, pc, own, slice, client, created, revoked, drawn>>
  BY DEF Shift
<1>2. user[u].pc = "shift"
  BY DEF Shift
<1>3. PICK del \in [pc : {"shift"}, token : Tokens, slice : Slice, at : Nat] : Deleting(u, del)
  BY <1>2, DeletingKnown
<1>4. PICK next : next = [del EXCEPT !.at = del.at + 1]
  OBVIOUS
<1>5. PICK value : value = arrays[slice.array][del.at + 1]
  OBVIOUS
<1>6. /\ del.at < slice.len
      /\ Writes(slice.array, del.at, value)
      /\ user' = [user EXCEPT ![u] = next]
  BY <1>3, <1>4, <1>5 DEF Shift, Deleting, Writes
<1>7. /\ del = user[u]
      /\ del.token \in created \ revoked /\ del.token \in Tokens
      /\ del.slice = slice /\ slice \in Slice
      /\ slice.array \in Nat /\ slice.len \in Nat /\ arrays \in Arrays
      /\ slice.array \in 1..Len(arrays) /\ slice.len \in 0..Len(arrays[slice.array])
      /\ del.at \in 1..slice.len /\ del.at \in Nat
      /\ Holds(Rows[slice.array], slice.len, del.at, (created \ revoked) \ {del.token})
      /\ lock # None
      /\ \A v \in Users : v = u
  BY <1>3 DEF Deleting
<1>8. /\ next.pc = "shift" /\ next.token = del.token /\ next.slice = slice
      /\ next.at = del.at + 1 /\ next \in User /\ next # Idle
  <2>1. /\ next.token = del.token /\ next.slice = slice /\ next.at = del.at + 1
        /\ next \in [pc : {"shift"}, token : Tokens, slice : Slice, at : Nat]
    BY <1>3, <1>4, <1>7
  <2> QED BY <2>1 DEF User, Idle
<1>9. \A v \in Users : v = u /\ user'[v] = next
  BY <1>6, TheUser DEF IInv
<1>10. Len(arrays[slice.array]) \in Nat
  BY <1>7, ArraysKnown
<1>11. /\ del.at + 1 \in 1..slice.len /\ del.at + 1 # del.at
       /\ del.at \in 1..Len(arrays[slice.array]) /\ del.at + 1 \in 1..Len(arrays[slice.array])
  BY <1>6, <1>7, <1>10
<1>12. value \in Tokens \cup {None} /\ Rows[slice.array][del.at + 1] = value
  <2>1. RowsOf(arrays, Rows)
    <3>1. PICK copy, rows : copy = arrays /\ rows = Rows
      OBVIOUS
    <3>2. copy \in Arrays /\ \A a, k \in Nat : rows[a][k] =
            IF a \in DOMAIN copy /\ k \in DOMAIN copy[a] THEN copy[a][k] ELSE None
      BY <1>7, <3>1 DEF Rows, Element
    <3>3. RowsOf(copy, rows)
      BY <3>2, RowsKnown
    <3> QED BY <3>1, <3>3
  <2>2. arrays[slice.array][del.at + 1] \in Tokens \cup {None}
    BY <1>7, <1>11, ArraysKnown
  <2> QED BY <1>5, <1>7, <1>11, <2>1, <2>2 DEF RowsOf
<1>13. /\ arrays' \in Arrays /\ Len(arrays') = Len(arrays)
       /\ \A a \in 1..Len(arrays) : Len(arrays'[a]) = Len(arrays[a])
       /\ \A a, k \in Nat : Rows'[a][k] =
            IF a = slice.array /\ k = del.at THEN value ELSE Rows[a][k]
  <2>1. TypeOK
    BY DEF IInv
  <2> QED BY <1>6, <1>7, <1>11, <1>12, <2>1, WrittenRows
<1>14. value \in created \ revoked /\ value # del.token
  BY <1>7, <1>11, <1>12 DEF Holds
<1>15. TypeOK'
  <2>1. user'[u] = next
    BY <1>9
  <2>2. Fits(user[u].slice)'
    <3>1. DOMAIN arrays' = 1..Len(arrays)
      BY <1>13, ArraysKnown
    <3> QED BY <1>1, <1>7, <1>8, <1>13, <2>1, <3>1 DEF Fits
  <2>3. TypeOK
    BY DEF IInv
  <2>4. /\ slice \in Slice /\ client \in [Clients -> Client]
        /\ created \subseteq drawn /\ revoked \subseteq created /\ drawn \subseteq Tokens
    BY <2>3 DEF TypeOK
  <2>5. /\ UNCHANGED <<file, lock, pc, own>> /\ arrays' \in Arrays
        /\ user' = [user EXCEPT ![u] = next]
    BY <1>1, <1>6, <1>13
  <2>6. /\ slice' \in Slice /\ client' \in [Clients -> Client]
        /\ created' \subseteq drawn' /\ revoked' \subseteq created' /\ drawn' \subseteq Tokens
    BY <1>1, <2>4
  <2>7. /\ \A v \in Users : v = u
        /\ next = Idle => Fits(slice)'
        /\ next # Idle => Fits(user[u].slice)'
    BY <1>7, <1>8, <2>2
  <2> QED BY <1>8, <2>3, <2>5, <2>6, <2>7, ConsoleTyped
<1>16. CommandInv'
  BY <1>1, CommandKept DEF IInv
<1>17. StoreInv'
  <2>1. PICK old, new, S, n, k : /\ old = Rows[slice.array] /\ new = Rows'[slice.array]
                                 /\ S = (created \ revoked) \ {del.token}
                                 /\ n = slice.len /\ k = del.at
    OBVIOUS
  <2>2. n \in Nat /\ k \in 1..n /\ k < n /\ Holds(old, n, k, S)
    BY <1>6, <1>7, <2>1
  <2>3. new[k] = old[k + 1] /\ \A j \in 1..n : j # k => new[j] = old[j]
    BY <1>7, <1>11, <1>12, <1>13, <2>1
  <2>4. Holds(new, n, k + 1, S)
    BY <2>2, <2>3, HoldsShifted
  <2>5. Rows'[slice.array][del.at + 1] = value
    BY <1>7, <1>11, <1>12, <1>13
  <2>6. Holds(Rows'[slice.array], slice.len, del.at + 1, (created \ revoked) \ {del.token})
    BY <2>1, <2>4
  <2>7. Shifting(u)'
    <3>1. user'[u] = next
      BY <1>9
    <3> QED BY <1>1, <1>7, <1>8, <1>11, <1>14, <2>5, <2>6, <3>1 DEF Shifting
  <2>8. u \in Users /\ \A v \in Users : Shifting(v)' /\ user'[v].pc = "shift" /\ user'[v] # Idle
    BY <1>8, <1>9, <2>7
  <2>9. \A a, j \in Nat : Rows'[a][j] \in created' \cup {None}
    <3> SUFFICES ASSUME NEW a \in Nat, NEW j \in Nat
                 PROVE  Rows'[a][j] \in created \cup {None}
      BY <1>1
    <3>1. \A v \in Users : user[v].pc # "append"
      BY <1>2, <1>7
    <3>2. Rows[a][j] \in created \cup {None}
      BY <3>1 DEF IInv, StoreInv
    <3> QED BY <1>13, <1>14, <3>2
  <2> QED BY <1>1, <1>7, <2>8, <2>9 DEF StoreInv, Idle
<1>18. ASSUME NEW c \in Clients
       PROVE  RequestInv(c)'
  <2>1. RequestInv(c) /\ client'[c] = client[c] /\ TypeOK
    BY <1>1 DEF IInv, ClientInv
  <2>2. Seen(c)' = Seen(c)
    BY <1>1, <2>1 DEF Seen
  <2>3. ASSUME Sent(c), MissesUnknown(c)
        PROVE  MissesUnknown(c)'
    <3>1. PICK t, seen : t = client[c].conf.token /\ seen = Seen(c)
      OBVIOUS
    <3>2. /\ t \notin created \ revoked
          /\ t \in revoked => \A k \in 1..seen.len : Rows[seen.array][k] # t
      BY <2>3, <3>1 DEF MissesUnknown
    <3>3. seen.array \in Nat /\ \A k \in 1..seen.len : k \in Nat
      BY <2>1, <2>3, <3>1, SentCases
    <3>4. t \in revoked => \A k \in 1..seen.len : Rows'[seen.array][k] # t
      BY <1>13, <1>14, <3>2, <3>3
    <3>5. \A v \in Users : user'[v].pc # "append"
      BY <1>8, <1>9
    <3> QED BY <1>1, <2>1, <2>2, <3>1, <3>2, <3>4, <3>5 DEF MissesUnknown
  <2>4. Sent(c) => client[c].fate # "valid"
    BY <1>2, DeletingKnown
  <2> QED BY <1>1, <2>1, <2>3, <2>4, RequestFollows DEF RequestInv
<1> QED BY <1>15, <1>16, <1>17, <1>18 DEF IInv, ClientInv

(* Then the slice is assigned without its last element. *)
LEMMA DeleteEndsStep ==
  ASSUME OneAtATime, IInv, NEW u \in Users, DeleteEnds(u)
  PROVE  IInv'
<1>1. UNCHANGED <<file, lock, pc, own, arrays, client, created, drawn>>
  BY DEF DeleteEnds
<1>2. user[u].pc = "shift"
  BY DEF DeleteEnds
<1>3. PICK del \in [pc : {"shift"}, token : Tokens, slice : Slice, at : Nat] : Deleting(u, del)
  BY <1>2, DeletingKnown
<1>4. PICK next : next = [slice EXCEPT !.len = @ - 1]
  OBVIOUS
<1>5. /\ del.at = slice.len /\ slice' = next /\ revoked' = revoked \cup {del.token}
      /\ user' = [user EXCEPT ![u] = Idle]
  BY <1>3, <1>4 DEF DeleteEnds, Deleting
<1>6. /\ del.token \in created \ revoked
      /\ slice \in Slice /\ slice.array \in Nat /\ slice.len \in Nat /\ arrays \in Arrays
      /\ slice.array \in 1..Len(arrays) /\ slice.len \in 0..Len(arrays[slice.array])
      /\ slice.len >= 1 /\ slice.len - 1 \in Nat
      /\ Holds(Rows[slice.array], slice.len, slice.len, (created \ revoked) \ {del.token})
      /\ lock # None /\ \A v \in Users : v = u
  BY <1>3, <1>5 DEF Deleting
<1>7. next.array = slice.array /\ next.len = slice.len - 1 /\ next \in Slice
  BY <1>4, <1>6 DEF Slice
<1>8. \A v \in Users : v = u /\ user'[v] = Idle
  BY <1>5, TheUser DEF IInv
<1>9. Rows' = Rows /\ Idle \in User /\ Idle.pc = "idle"
  BY <1>1 DEF Rows, Element, User, Idle
<1>10. TypeOK'
  <2>1. Fits(slice)'
    <3>1. Len(arrays[slice.array]) \in Nat /\ DOMAIN arrays = 1..Len(arrays)
      BY <1>6, ArraysKnown
    <3> QED BY <1>1, <1>5, <1>6, <1>7, <3>1 DEF Fits
  <2>2. TypeOK
    BY DEF IInv
  <2>3. created' \subseteq drawn' /\ revoked' \subseteq created' /\ drawn' \subseteq Tokens
    BY <1>1, <1>5, <1>6, <2>2 DEF TypeOK
  <2>4. client' \in [Clients -> Client]
    BY <1>1, <2>2 DEF TypeOK
  <2> QED BY <1>1, <1>5, <1>6, <1>7, <1>9, <2>1, <2>2, <2>3, <2>4, ConsoleTyped
<1>11. CommandInv'
  BY <1>1, CommandKept DEF IInv
<1>12. StoreInv'
  <2>1. PICK row, S : row = Rows[slice.array] /\ S = (created \ revoked) \ {del.token}
    OBVIOUS
  <2>2. Holds(row, slice.len - 1, 0, S)
    BY <1>6, <2>1, HoldsCut
  <2>3. created' \ revoked' = S
    BY <1>1, <1>5, <2>1
  <2>4. Holds(Rows'[slice'.array], slice'.len, 0, created' \ revoked')
    BY <1>5, <1>7, <1>9, <2>1, <2>2, <2>3
  <2>5. \A a, j \in Nat : Rows'[a][j] \in created' \cup {None}
    <3>1. \A v \in Users : user[v].pc # "append"
      BY <1>2, <1>6
    <3> QED BY <1>1, <1>9, <3>1 DEF IInv, StoreInv
  <2> QED BY <1>1, <1>6, <1>8, <1>9, <2>4, <2>5 DEF StoreInv
<1>13. ASSUME NEW c \in Clients
       PROVE  RequestInv(c)'
  <2>1. RequestInv(c) /\ client'[c] = client[c] /\ TypeOK
    BY <1>1 DEF IInv, ClientInv
  <2>2. ASSUME Sent(c), MissesUnknown(c)
        PROVE  MissesUnknown(c)'
    <3>1. PICK t, seen, later : t = client[c].conf.token /\ seen = Seen(c) /\ later = Seen(c)'
      OBVIOUS
    <3>2. /\ t \notin created \ revoked
          /\ t \in revoked => \A k \in 1..seen.len : Rows[seen.array][k] # t
      BY <2>2, <3>1 DEF MissesUnknown
    <3>3. later.array = seen.array /\ (later.len = seen.len \/ later.len + 1 = seen.len)
          /\ seen.len \in Nat /\ later.len \in Nat
      <4>1. CASE client[c].pc = "loading"
        <5>1. /\ later.array = (IF client[c].word = "array" THEN client[c].value ELSE slice'.array)
              /\ later.len = (IF client[c].word = "len" THEN client[c].value ELSE slice'.len)
              /\ seen.array = (IF client[c].word = "array" THEN client[c].value ELSE slice.array)
              /\ seen.len = (IF client[c].word = "len" THEN client[c].value ELSE slice.len)
          BY <2>1, <3>1, <4>1 DEF Seen
        <5>2. seen.len \in Nat
          BY <2>1, <2>2, <3>1, SentCases
        <5> QED BY <1>5, <1>6, <1>7, <5>1, <5>2
      <4>2. CASE client[c].pc # "loading"
        <5>1. later = seen
          BY <2>1, <3>1, <4>2 DEF Seen
        <5> QED BY <2>1, <2>2, <3>1, <5>1, SentCases
      <4> QED BY <4>1, <4>2
    <3>4. \A k \in 1..later.len : k \in 1..seen.len
      BY <3>3
    <3>5. t \notin created' \ revoked' /\ (t \in revoked' => t \in revoked)
      BY <1>1, <1>5, <1>6, <3>2
    <3>6. t \in revoked' => \A k \in 1..later.len : Rows'[later.array][k] # t
      BY <1>9, <3>2, <3>3, <3>4, <3>5
    <3>7. \A v \in Users : user'[v].pc # "append"
      BY <1>8, <1>9
    <3>8. t = client'[c].conf.token
      BY <2>1, <3>1
    <3> QED BY <3>1, <3>5, <3>6, <3>7, <3>8 DEF MissesUnknown
  <2>3. Sent(c) => client[c].fate # "valid"
    BY <1>2, DeletingKnown
  <2> QED BY <1>1, <2>1, <2>2, <2>3, RequestFollows DEF RequestInv
<1> QED BY <1>10, <1>11, <1>12, <1>13 DEF IInv, ClientInv

-----------------------------------------------------------------------------
(* The invariant holds at first and is kept by every step. *)

(* Without invocations, requests and arrays the invariant holds. *)
LEMMA InitIsInv == Init => IInv
<1> SUFFICES ASSUME Init PROVE IInv
  OBVIOUS
<1>1. file \in File \cup {None}
  BY LocalAssumption DEF Init
<1>2. drawn \subseteq Tokens /\ (file # None => file.token \in drawn)
  BY <1>1 DEF Init, File
<1>3. Idle \in User /\ Idle \in Client /\ Idle.pc = "idle"
  BY DEF User, Client, Idle
<1>4. slice.array = 0 /\ slice.len = 0 /\ slice \in Slice
  BY DEF Init, Slice
<1>5. arrays = <<>> /\ arrays \in Seq(Seq(Tokens \cup {None})) /\ Len(arrays) = 0
  BY DEF Init
<1>6. TypeOK
  BY <1>1, <1>2, <1>3, <1>4, <1>5 DEF Init, TypeOK, Fits
<1>7. CommandInv
  BY <1>2, LocalAssumption DEF Init, CommandInv
<1>8. StoreInv
  <2>1. \A a, k \in Nat : Rows[a][k] = None
    BY <1>5 DEF Rows, Element
  <2> QED BY <1>3, <1>4, <2>1 DEF Init, StoreInv, Holds
<1>9. ClientInv
  BY <1>3 DEF Init, ClientInv, RequestInv, Sent
<1> QED BY <1>6, <1>7, <1>8, <1>9 DEF IInv

(* Every step keeps the invariant. *)
LEMMA NextKeepsInv ==
  ASSUME OneAtATime, IInv, [Next]_vars
  PROVE  IInv'
<1>1. CASE UNCHANGED vars
  <2>1. UNCHANGED <<file, lock, pc, own, user, client, arrays, slice, created, revoked, drawn>>
    BY <1>1 DEF vars
  <2>2. TypeOK'
    BY <2>1 DEF IInv, TypeOK, Fits
  <2>3. CommandInv' /\ StoreInv'
    BY <2>1, ClientsOnlyRead DEF IInv, store
  <2>4. \A c \in Clients : RequestInv(c)'
    BY <2>1, RequestKept DEF IInv, ClientInv
  <2> QED BY <2>2, <2>3, <2>4 DEF IInv, ClientInv
<1>2. CASE \E u \in Users, token \in Tokens : Create(u, token) \/ Delete(u, token)
  BY <1>2, CreateStep, DeleteStep
<1>3. CASE \E u \in Users, word \in {"array", "len"} : WriteHeader(u, word)
  BY <1>3, WriteHeaderStep
<1>4. CASE \E u \in Users : WriteElement(u) \/ CreateEnds(u) \/ Shift(u) \/ DeleteEnds(u)
  BY <1>4, WriteElementStep, CreateEndsStep, ShiftStep, DeleteEndsStep
<1>5. CASE \E c \in Clients : Configure(c) \/ Send(c) \/ Load(c) \/ Get(c)
  BY <1>5, ConfigureStep, SendStep, LoadStep, GetStep
<1>6. CASE \E p \in Invocations, token \in Tokens : CreateLocalToken(p, token)
  BY <1>6, CreateLocalTokenStep
<1>7. CASE \E p \in Invocations : LoadConfig(p) \/ SaveConfig(p) \/ Serve(p) \/ Exit(p) \/ Stop(p)
  BY <1>7, LoadConfigStep, SaveConfigStep, ServeStep, ExitStep, StopStep
<1> QED BY <1>1, <1>2, <1>3, <1>4, <1>5, <1>6, <1>7 DEF Next

(* With one console request at a time the store of tokens, what requests    *)
(* read of it and the command keep the inductive invariant, for any number  *)
(* of invocations and clients.                                              *)
THEOREM Invariance == ASSUME OneAtATime PROVE Spec => []IInv
<1>1. IInv /\ [Next]_vars => IInv'
  BY NextKeepsInv
<1> QED BY <1>1, InitIsInv, PTL DEF Spec

(* The variables have their types: what a Delete takes out of the store is *)
(* a token that was created, and a slice is never longer than its array.   *)
THEOREM StoreTyped == ASSUME OneAtATime PROVE Spec => []TypeOK
<1>1. IInv => TypeOK
  BY DEF IInv
<1> QED BY <1>1, Invariance, PTL

(* CollectorTokenAuth: a request with a token the server never had is not  *)
(* accepted, wherever its loop is when the array is appended to or shifted *)
(* under it, nor one with a token deleted before, unless a Create overlaps *)
(* it, for any number of clients and tokens.                               *)
THEOREM DeletedIsRejected == ASSUME OneAtATime PROVE Spec => []UnknownIsRejected
<1>1. IInv => UnknownIsRejected
  BY DEF IInv, ClientInv, RequestInv, UnknownIsRejected
<1> QED BY <1>1, Invariance, PTL

(* A request with a stored token is not rejected when tokens are created   *)
(* meanwhile, in whatever order append writes the element and the words of *)
(* the slice, and the request loads them.                                  *)
THEOREM CreateHidesNothing == ASSUME OneAtATime PROVE Spec => []ValidIsAccepted
<1>1. IInv => ValidIsAccepted
  BY DEF IInv, ClientInv, RequestInv, ValidIsAccepted
<1> QED BY <1>1, Invariance, PTL

(* The elements of s.tokens. *)
LEMMA StoredElements ==
  ASSUME TypeOK
  PROVE  /\ Len(Stored) = slice.len
         /\ ToSet(Stored) = {Rows[slice.array][k] : k \in 1..slice.len}
<1>1. slice.array \in Nat /\ slice.len \in Nat
  BY StoreKnown
<1>2. /\ DOMAIN Stored = 1..slice.len
      /\ \A k \in 1..slice.len : Stored[k] = Rows[slice.array][k]
  BY <1>1 DEF Stored, Rows
<1>3. Len(Stored) = slice.len
  <2>1. PICK n \in Nat : n = slice.len
    BY <1>1
  <2>2. \E S : Stored \in [1..n -> S]
    <3>1. Stored \in [1..n -> {Stored[k] : k \in 1..n}]
      BY <2>1 DEF Stored
    <3> QED BY <3>1
  <2>3. PICK S : Stored \in Seq(S)
    BY <2>1, <2>2
  <2> QED BY <1>2, <2>1, <2>3
<1> QED BY <1>2, <1>3 DEF ToSet

(* s.tokens is what was created and not deleted, each token once: Delete   *)
(* takes out one element and shifts the others without losing one.         *)
THEOREM StoreIsExact == ASSUME OneAtATime PROVE Spec => []KeepsItsTokens
<1>1. IInv => KeepsItsTokens
  <2> SUFFICES ASSUME IInv, \A u \in Users : user[u] = Idle
               PROVE  /\ ToSet(Stored) = created \ revoked
                      /\ Len(Stored) = Cardinality(created \ revoked)
    BY DEF KeepsItsTokens
  <2>1. PICK row, n, S : row = Rows[slice.array] /\ n = slice.len /\ S = created \ revoked
    OBVIOUS
  <2>2. Holds(row, n, 0, S) /\ n \in Nat
    BY <2>1, StoreKnown DEF IInv, StoreInv
  <2>3. S = {row[k] : k \in 1..n} /\ Cardinality(S) = n
    BY <2>2, HoldsCount
  <2> QED BY <2>1, <2>3, StoredElements DEF IInv
<1> QED BY <1>1, Invariance, PTL

(* With a file to begin with, one that the serving command wrote has the   *)
(* collector's URL.                                                        *)
FileInv ==
  /\ file # None
  /\ \A p \in Invocations :
       /\ pc[p] # "absent"
       /\ pc[p] \in {"saved", "serving"} /\ file.by = p => file.url = "collector"

(* Then the file names the server that answers, once it has saved. *)
LEMMA FileInvariance == ASSUME OneAtATime, None \notin Files PROVE Spec => []FileInv
<1>1. Init => FileInv
  BY DEF Init, FileInv
<1>2. IInv /\ FileInv /\ [Next]_vars => FileInv'
  <2> SUFFICES ASSUME IInv, FileInv, [Next]_vars PROVE FileInv'
    OBVIOUS
  <2>1. CASE UNCHANGED <<file, pc>>
    BY <2>1 DEF FileInv
  <2>2. ASSUME NEW p \in Invocations, SaveConfig(p)
        PROVE  FileInv'
    <3>1. /\ file' = [token |-> own[p], by |-> p, url |-> "collector"]
          /\ pc[p] \in {"found", "absent"} /\ pc' = [pc EXCEPT ![p] = "saved"]
      BY <2>2 DEF SaveConfig, FileInv
    <3>2. own[p] \in Tokens
      BY <3>1 DEF IInv, TypeOK, CommandInv
    <3>3. file' \in File /\ file'.url = "collector"
      BY <3>1, <3>2 DEF File
    <3>4. \A q \in Invocations : pc'[q] = IF q = p THEN "saved" ELSE pc[q]
      BY <3>1 DEF IInv, TypeOK
    <3> QED BY <3>3, <3>4, LocalAssumption DEF FileInv
  <2>3. ASSUME NEW p \in Invocations, NEW next, next \in {"off", "token", "found", "serving"},
               next = "serving" => pc[p] = "saved",
               file' = file, pc' = [pc EXCEPT ![p] = next]
        PROVE  FileInv'
    <3>1. \A q \in Invocations : pc'[q] = IF q = p THEN next ELSE pc[q]
      BY <2>3 DEF IInv, TypeOK
    <3> QED BY <2>3, <3>1 DEF FileInv
  <2>4. CASE \E u \in Users, token \in Tokens : Create(u, token) \/ Delete(u, token)
    BY <2>1, <2>4 DEF Create, Delete
  <2>5. CASE \E u \in Users, word \in {"array", "len"} : WriteHeader(u, word)
    BY <2>1, <2>5 DEF WriteHeader
  <2>6. CASE \E u \in Users : WriteElement(u) \/ CreateEnds(u) \/ Shift(u) \/ DeleteEnds(u)
    BY <2>1, <2>6 DEF WriteElement, CreateEnds, Shift, DeleteEnds
  <2>7. CASE \E c \in Clients : Configure(c) \/ Send(c) \/ Load(c) \/ Get(c)
    BY <2>1, <2>7 DEF Configure, Send, Load, Get
  <2>8. CASE \E p \in Invocations, token \in Tokens : CreateLocalToken(p, token)
    BY <2>3, <2>8 DEF CreateLocalToken
  <2>9. ASSUME NEW p \in Invocations, LoadConfig(p)
        PROVE  FileInv'
    <3>1. file' = file /\ pc' = [pc EXCEPT ![p] = "found"]
      BY <2>9 DEF LoadConfig, FileInv
    <3> QED BY <2>3, <3>1
  <2>10. ASSUME NEW p \in Invocations, Serve(p) \/ Exit(p) \/ Stop(p)
         PROVE  FileInv'
    BY <2>3, <2>10 DEF Serve, Exit, Stop
  <2>11. CASE UNCHANGED vars
    BY <2>1, <2>11 DEF vars
  <2> QED BY <2>2, <2>4, <2>5, <2>6, <2>7, <2>8, <2>9, <2>10, <2>11 DEF Next
<1> QED BY <1>1, <1>2, Invariance, PTL DEF Spec

(* The token in the file that the serving command wrote is in its store    *)
(* until the console deletes that token, and the file leads clients to the *)
(* collector, however often the command was run and stopped before.  The   *)
(* hypothesis None \notin Files is the code's: without a file the command  *)
(* writes the console's URL.                                               *)
THEOREM FileNamesTheServer ==
  ASSUME OneAtATime, None \notin Files PROVE Spec => []ConfigNamesTheServer
<1>1. IInv /\ FileInv => ConfigNamesTheServer
  <2> SUFFICES ASSUME IInv, FileInv, NEW p \in Served, file.by = p
               PROVE  /\ file.url = "collector"
                      /\ \/ file.token \in ToSet(Stored) \cup revoked
                         \/ \E u \in Users : user[u].pc = "shift" /\ user[u].token = file.token
    BY DEF ConfigNamesTheServer
  <2>1. p \in Invocations /\ pc[p] = "serving"
    BY DEF Served
  <2>2. file.url = "collector" /\ file.token = own[p] /\ own[p] \in created
    BY <2>1 DEF IInv, FileInv, CommandInv
  <2>3. ToSet(Stored) = {Rows[slice.array][k] : k \in 1..slice.len} /\ TypeOK /\ StoreInv
    BY StoredElements DEF IInv
  <2>4. CASE file.token \in revoked
    BY <2>2, <2>4
  <2>5. CASE file.token \notin revoked /\ \A u \in Users : user[u].pc # "shift"
    <3>1. \E k \in 1..slice.len : Rows[slice.array][k] = file.token
      BY <2>2, <2>3, <2>5, TokenIsSettled
    <3> QED BY <2>2, <2>3, <3>1
  <2>6. ASSUME NEW u \in Users, file.token \notin revoked, user[u].pc = "shift",
               user[u].token # file.token
        PROVE  file.token \in ToSet(Stored) \cup revoked
    <3>1. Holds(Rows[slice.array], slice.len, user[u].at, (created \ revoked) \ {user[u].token})
      BY <2>3, <2>6 DEF StoreInv, Shifting
    <3> QED BY <2>2, <2>3, <2>6, <3>1 DEF Holds
  <2> QED BY <2>2, <2>4, <2>5, <2>6
<1> QED BY <1>1, Invariance, FileInvariance, PTL


=============================================================================
