----------------------------- MODULE AtomicStore -----------------------------
(***************************************************************************)
(* What clients are promised: a map from keys to objects in which every    *)
(* request takes effect, and gets its answer, at one instant between being *)
(* received and being answered.  An object's size and ETag are those of    *)
(* the very content it is served with.  A request may also fail (500) with *)
(* no effect at all.                                                       *)
(***************************************************************************)
EXTENDS Objects

CONSTANTS
  Slot,      \* requests in progress at the same time
  Content,   \* bodies of the objects there at the start
  MaxTime    \* the clock stops here

VARIABLES
  objects,   \* what is stored under each key
  asked,     \* the request in each slot, or None
  answered   \* the answer it has got, or None

atomicVars == <<objects, asked, answered>>

Object(data, mtime, headers) == [data |-> data, mtime |-> mtime, headers |-> headers]

ObjectEntry(object) ==
  IF object = None THEN None ELSE EntryOf(object.data, object.mtime, object.headers)

AtomicInit ==
  /\ objects \in [Key -> {None} \cup {Object(data, 0, << >>) : data \in Content}]
  /\ asked = [s \in Slot |-> None]
  /\ answered = [s \in Slot |-> None]

Pending(s, op) == asked[s] # None /\ asked[s].op = op /\ answered[s] = None

Ask(s, r) ==
  /\ asked[s] = None
  /\ asked' = [asked EXCEPT ![s] = r]
  /\ UNCHANGED <<objects, answered>>

Settle(s, answer) ==
  /\ answered' = [answered EXCEPT ![s] = answer]
  /\ UNCHANGED asked

Fail(s) ==
  /\ asked[s] # None /\ answered[s] = None
  /\ Settle(s, InternalError)
  /\ UNCHANGED objects

RefusePut(s) ==
  /\ Pending(s, "put")
  /\ LET r == asked[s] IN
       \/ PutInvalid(r) # None /\ Settle(s, PutInvalid(r))
       \/ /\ PutInvalid(r) = None
          /\ PutRefused(r, ObjectEntry(objects[KeyOf(r)])) # None
          /\ Settle(s, PutRefused(r, ObjectEntry(objects[KeyOf(r)])))
  /\ UNCHANGED objects

Put(s) ==
  /\ Pending(s, "put")
  /\ LET r == asked[s] IN
       /\ PutInvalid(r) = None
       /\ PutRefused(r, ObjectEntry(objects[KeyOf(r)])) = None
       /\ \E mtime \in 0 .. MaxTime :
            LET object == Object(r.body, mtime, r.headers) IN
            /\ objects' = [objects EXCEPT ![KeyOf(r)] = object]
            /\ Settle(s, PutDone(ObjectEntry(object)))

RefuseDelete(s) ==
  /\ Pending(s, "delete")
  /\ LET r == asked[s] IN
       \/ DeleteInvalid(r) # None /\ Settle(s, DeleteInvalid(r))
       \/ /\ DeleteInvalid(r) = None
          /\ DeleteRefused(r, ObjectEntry(objects[KeyOf(r)])) # None
          /\ Settle(s, DeleteRefused(r, ObjectEntry(objects[KeyOf(r)])))
  /\ UNCHANGED objects

Delete(s) ==
  /\ Pending(s, "delete")
  /\ LET r == asked[s] IN
       /\ DeleteInvalid(r) = None
       /\ DeleteRefused(r, ObjectEntry(objects[KeyOf(r)])) = None
       /\ objects' = [objects EXCEPT ![KeyOf(r)] = None]
  /\ Settle(s, DeleteDone)

Get(s) ==
  /\ Pending(s, "get")
  /\ LET r == asked[s] IN
       \/ GetInvalid(r) # None /\ Settle(s, GetInvalid(r))
       \/ /\ GetInvalid(r) = None
          /\ LET object == objects[KeyOf(r)]
                 refused == GetRefused(r, ObjectEntry(object))
             IN  Settle(s, IF refused # None
                             THEN refused
                             ELSE GetDone(r, ObjectEntry(object), object.data))
  /\ UNCHANGED objects

AddHeader(s) ==
  /\ Pending(s, "add_header")
  /\ LET r == asked[s] IN
       \/ AddHeaderInvalid(r) # None /\ Settle(s, AddHeaderInvalid(r)) /\ UNCHANGED objects
       \/ /\ AddHeaderInvalid(r) = None
          /\ LET entry == ObjectEntry(objects[KeyOf(r)])
                 refused == AddHeaderRefused(r, entry)
             IN  IF refused # None
                   THEN Settle(s, refused) /\ UNCHANGED objects
                   ELSE /\ Settle(s, HeaderDone)
                        /\ objects' = [objects EXCEPT ![KeyOf(r)].headers = HeaderAdded(r, entry).headers]

Reply(s) ==
  /\ answered[s] # None
  /\ asked' = [asked EXCEPT ![s] = None]
  /\ answered' = [answered EXCEPT ![s] = None]
  /\ UNCHANGED objects

AtomicNext ==
  \E s \in Slot :
    \/ \E r \in Request : Ask(s, r)
    \/ RefusePut(s) \/ Put(s)
    \/ RefuseDelete(s) \/ Delete(s)
    \/ Get(s)
    \/ AddHeader(s)
    \/ Fail(s)
    \/ Reply(s)

AtomicSpec == AtomicInit /\ [][AtomicNext]_atomicVars
=============================================================================
