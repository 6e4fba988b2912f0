--------------------------- MODULE LifecycleProofs ---------------------------
(***************************************************************************)
(* Proofs about Lifecycle, for any number of machines and file             *)
(* descriptors, with and without pipe2().                                  *)
(***************************************************************************)
EXTENDS Lifecycle, TLAPS

-----------------------------------------------------------------------------
(* The event array.                                                        *)

\* The structures have their type, without regard to the file descriptors.
EventFields ==
  /\ em \in [Machines -> Structures]
  /\ heap \subseteq Machines

\* What init makes of the event array of a machine.
LEMMA WithEventsType ==
  ASSUME EventFields, NEW m \in Machines, NEW e \in WithEvents(m)
  PROVE  /\ e \in Structures
         /\ e.queue_fd = em[m].queue_fd
         /\ e.read = em[m].read
         /\ e.write = em[m].write
         /\ e.max_events > 0
         /\ \/ e.do_free_events /\ e.events \in {"heap", "null"}
            \/ ~e.do_free_events /\ e.events = em[m].events
<1> DEFINE sized == [em[m] EXCEPT !.max_events = IF @ > 0 THEN @ ELSE 1]
<1>1. em[m] \in Structures
  BY DEF EventFields
<1>2. /\ sized \in Structures
      /\ sized.queue_fd = em[m].queue_fd
      /\ sized.read = em[m].read
      /\ sized.write = em[m].write
      /\ sized.max_events > 0
      /\ sized.events = em[m].events
  BY <1>1 DEF Structures
<1>3. CASE e = [sized EXCEPT !.do_free_events = FALSE]
  <2>1. e \in Structures
    BY <1>2, <1>3 DEF Structures
  <2>2. /\ e.queue_fd = sized.queue_fd /\ e.read = sized.read
        /\ e.write = sized.write /\ e.max_events = sized.max_events
        /\ e.events = sized.events /\ e.do_free_events = FALSE
    BY <1>2, <1>3 DEF Structures
  <2>3. QED
    BY <1>2, <2>1, <2>2
<1>4. ASSUME NEW block \in {"heap", "null"},
             e = [sized EXCEPT !.events = block, !.do_free_events = TRUE]
      PROVE  /\ e \in Structures
             /\ e.queue_fd = sized.queue_fd /\ e.read = sized.read
             /\ e.write = sized.write /\ e.max_events = sized.max_events
             /\ e.events = block /\ e.do_free_events = TRUE
  BY <1>2, <1>4 DEF Structures
<1>5. \/ e = [sized EXCEPT !.do_free_events = FALSE]
      \/ \E block \in {"heap", "null"} :
           e = [sized EXCEPT !.events = block, !.do_free_events = TRUE]
  BY DEF WithEvents
<1>6. QED
  BY <1>2, <1>3, <1>4, <1>5

\* What a call that ends with structure e means for the event array of m.
LEMMA LeavesEvents ==
  ASSUME EventFields, EventsOwned, NEW m \in Machines,
         NEW e0 \in WithEvents(m), NEW e \in Structures,
         e.events = e0.events, e.do_free_events = e0.do_free_events,
         NEW outcome, Leaves(m, e, outcome)
  PROVE  EventFields' /\ EventsOwned'
<1>1. EventFields'
  BY DEF Leaves, EventFields
<1>2. \/ e.do_free_events /\ e.events \in {"heap", "null"}
      \/ ~e.do_free_events /\ e.events = em[m].events
  BY WithEventsType
<1>3. em'[m] = e /\ \A k \in Machines \ {m} : em'[k] = em[k]
  BY DEF Leaves, EventFields
<1>4. heap \subseteq heap' /\ (e.do_free_events /\ e.events = "heap" => m \in heap')
  BY DEF Leaves
<1>5. EventsOwned'
  BY <1>2, <1>3, <1>4 DEF EventsOwned
<1>6. QED
  BY <1>1, <1>5

\* init, at whatever step it ends.
LEMMA InitEvents ==
  ASSUME EventFields, EventsOwned, NEW m \in Machines, InitCall(m)
  PROVE  EventFields' /\ EventsOwned'
<1>1. CASE InitFailsAtPipe(m)
  BY <1>1, LeavesEvents, WithEventsType DEF InitFailsAtPipe
<1>2. ASSUME NEW e \in WithEvents(m), NEW r \in Numbers, NEW w \in Numbers,
             Leaves(m, [e EXCEPT !.read = r, !.write = w], "failed")
      PROVE  EventFields' /\ EventsOwned'
  <2> DEFINE e1 == [e EXCEPT !.read = r, !.write = w]
  <2>1. e \in Structures
    BY WithEventsType
  <2>2. e1 \in Structures /\ e1.events = e.events /\ e1.do_free_events = e.do_free_events
    BY <2>1 DEF Structures
  <2>3. QED
    BY <1>2, <2>2, LeavesEvents
<1>3. ASSUME NEW e \in WithEvents(m), NEW r \in Numbers, NEW w \in Numbers,
             NEW q \in Numbers, NEW outcome,
             Leaves(m, [e EXCEPT !.read = r, !.write = w, !.queue_fd = q], outcome)
      PROVE  EventFields' /\ EventsOwned'
  <2> DEFINE e1 == [e EXCEPT !.read = r, !.write = w, !.queue_fd = q]
  <2>1. e \in Structures
    BY WithEventsType
  <2>2. e1 \in Structures /\ e1.events = e.events /\ e1.do_free_events = e.do_free_events
    BY <2>1 DEF Structures
  <2>3. QED
    BY <1>3, <2>2, LeavesEvents
<1>4. QED
  BY <1>1, <1>2, <1>3 DEF InitCall, InitFailsAtFcntl, InitFailsAtQueue, InitReachesCtl

\* destroy, at whatever step it ends.
LEMMA DestroyEvents ==
  ASSUME EventFields, EventsOwned, NEW m \in Machines, DestroyCall(m)
  PROVE  EventFields' /\ EventsOwned'
<1>1. CASE DestroyWithQueue(m)
  BY <1>1 DEF DestroyWithQueue, EventFields, EventsOwned
<1>2. CASE DestroyWithoutQueue(m)
  <2> DEFINE freed == Freed(m)
  <2>1. /\ freed \in Structures
        /\ freed.do_free_events = em[m].do_free_events
        /\ freed.events = IF em[m].do_free_events THEN "null" ELSE em[m].events
    BY DEF Freed, EventFields, Structures
  <2>2. PICK e \in Structures :
          /\ em' = [em EXCEPT ![m] = e]
          /\ e.do_free_events = freed.do_free_events
          /\ e.events = freed.events
    <3>1. ASSUME NEW r \in Numbers \cup {-1}, NEW w \in Numbers \cup {-1},
                 NEW e, e = [freed EXCEPT !.write = w, !.read = r]
          PROVE  /\ e \in Structures
                 /\ e.do_free_events = freed.do_free_events
                 /\ e.events = freed.events
      BY <2>1, <3>1 DEF Structures
    <3>2. \/ em' = [em EXCEPT ![m] = [freed EXCEPT !.write = -1, !.read = -1]]
          \/ em' = [em EXCEPT ![m] = [freed EXCEPT !.write = -1]]
          \/ em' = [em EXCEPT ![m] = freed]
      BY <1>2 DEF DestroyWithoutQueue
    <3>3. /\ [freed EXCEPT !.write = -1] = [freed EXCEPT !.write = -1, !.read = freed.read]
          /\ freed.read \in Numbers \cup {-1}
      BY <2>1 DEF Structures
    <3>4. CASE em' = [em EXCEPT ![m] = [freed EXCEPT !.write = -1, !.read = -1]]
      BY <3>1, <3>4
    <3>5. CASE em' = [em EXCEPT ![m] = [freed EXCEPT !.write = -1]]
      BY <3>1, <3>3, <3>5
    <3>6. CASE em' = [em EXCEPT ![m] = freed]
      BY <2>1, <3>6
    <3>7. QED
      BY <3>2, <3>4, <3>5, <3>6
  <2>3. heap' = IF em[m].do_free_events THEN heap \ {m} ELSE heap
    BY <1>2 DEF DestroyWithoutQueue
  <2>4. em'[m] = e /\ \A k \in Machines \ {m} : em'[k] = em[k]
    BY <2>2 DEF EventFields
  <2>5. EventFields'
    BY <2>2, <2>3 DEF EventFields
  <2>6. EventsOwned'
    BY <2>1, <2>2, <2>3, <2>4 DEF EventsOwned
  <2>7. QED
    BY <2>5, <2>6
<1>3. QED
  BY <1>1, <1>2 DEF DestroyCall

\* A structure as it is set up before init.
LEMMA StaticFields ==
  \A e \in Statics :
    /\ e \in Structures
    /\ e.queue_fd = -1 /\ e.read = -1 /\ e.write = -1
    /\ e.events # "heap" /\ ~e.do_free_events
<1> SUFFICES ASSUME NEW maxevs \in {0, 1}, NEW evs \in {"user", "null"}, NEW e,
                    e = [queue_fd |-> -1, read |-> -1, write |-> -1,
                         max_events |-> maxevs, events |-> evs,
                         do_free_events |-> FALSE]
             PROVE  /\ e \in Structures
                    /\ e.queue_fd = -1 /\ e.read = -1 /\ e.write = -1
                    /\ e.events # "heap" /\ ~e.do_free_events
  BY DEF Statics
<1>1. e.queue_fd = -1 /\ e.read = -1 /\ e.write = -1 /\ e.events = evs
  OBVIOUS
<1>2. e.do_free_events = FALSE
  OBVIOUS
<1>3. e \in Structures
  BY DEF Structures
<1>4. QED
  BY <1>1, <1>2, <1>3

\* Initially no event array is allocated.
LEMMA EventsInit == Init => EventFields /\ EventsOwned
BY StaticFields DEF Init, EventFields, EventsOwned

\* Every step preserves the ownership of event arrays.
LEMMA EventsStep ==
  EventFields /\ EventsOwned /\ [Next]_vars => (EventFields /\ EventsOwned)'
<1> SUFFICES ASSUME EventFields, EventsOwned, [Next]_vars
             PROVE  EventFields' /\ EventsOwned'
  OBVIOUS
<1>1. CASE UNCHANGED <<em, heap>>
  BY <1>1 DEF EventFields, EventsOwned
<1>2. CASE OpenOther \/ (\E n \in Numbers : CloseOther(n)) \/ UNCHANGED vars
  BY <1>1, <1>2 DEF OpenOther, CloseOther, vars
<1>3. QED
  BY <1>2, InitEvents, DestroyEvents DEF Next

\* No machine ever points to an event array that was freed, nor would destroy
\* free one of the user's, in whatever order init and destroy are called.
THEOREM EventsAreOwned == Spec => []EventsOwned
<1>1. EventFields /\ EventsOwned => EventsOwned
  OBVIOUS
<1>2. QED
  BY <1>1, EventsInit, EventsStep, PTL DEF Spec

-----------------------------------------------------------------------------
(* The file descriptors.                                                   *)

Table == fds \in [Numbers -> Objects]

\* What a machine has stored is what it has open, as long as its destroy has
\* not failed; before init and after destroy it has nothing.
Owns(m) ==
  phase[m] # "undestroyed" =>
    /\ \A n \in Numbers :
         /\ fds[n] = <<m, "queue">> <=> em[m].queue_fd = n
         /\ fds[n] = <<m, "read">> <=> em[m].read = n
         /\ fds[n] = <<m, "write">> <=> em[m].write = n
    /\ phase[m] \in {"raw", "released"} =>
         em[m].queue_fd = -1 /\ em[m].read = -1 /\ em[m].write = -1 /\ m \notin heap
    /\ phase[m] = "up" =>
         em[m].queue_fd \in Numbers /\ em[m].read \in Numbers /\ em[m].write \in Numbers
    /\ m \in heap => em[m].do_free_events

DescriptorInv ==
  /\ Table
  /\ \A m \in Machines : Owns(m)

Of(m) == {m} \X {"queue", "read", "write"}

\* A machine is not affected by what happens to descriptors of others.
LEMMA OwnsUntouched ==
  ASSUME NEW m \in Machines, Owns(m),
         em'[m] = em[m], phase'[m] = phase[m], m \in heap' <=> m \in heap,
         \A n \in Numbers :
           fds'[n] = fds[n] \/ (fds[n] \notin Of(m) /\ fds'[n] \notin Of(m))
  PROVE  Owns(m)'
<1>1. \A kind \in {"queue", "read", "write"} : <<m, kind>> \in Of(m)
  BY DEF Of
<1>2. \A n \in Numbers : \A kind \in {"queue", "read", "write"} :
        fds'[n] = <<m, kind>> <=> fds[n] = <<m, kind>>
  BY <1>1
<1>3. QED
  BY <1>2 DEF Owns

\* The two ends of a new pipe are two numbers that were free.
LEMMA PipeNumbers ==
  ASSUME NEW r, NEW w, OpensPipe(r, w)
  PROVE  /\ r \in Numbers /\ w \in Numbers /\ r # w
         /\ fds[r] = Closed /\ fds[w] = Closed
BY DEF OpensPipe, Lowest, Free

\* What a call of m that ends with structure e means for the other machines.
LEMMA LeavesOthers ==
  ASSUME EventFields, NEW m \in Machines, NEW e, NEW outcome, Leaves(m, e, outcome),
         DescriptorInv, NEW k \in Machines \ {m},
         \A n \in Numbers :
           fds'[n] = fds[n] \/ (fds[n] = Closed /\ fds'[n] \in Of(m))
  PROVE  Owns(k)'
<1>1. em'[k] = em[k] /\ (k \in heap' <=> k \in heap)
  BY DEF Leaves, EventFields
<1>2. phase'[k] = phase[k]
  BY DEF Leaves
<1>3. Closed \notin Of(k) /\ \A o \in Of(m) : o \notin Of(k)
  BY DEF Of, Closed
<1>4. QED
  BY <1>1, <1>2, <1>3, OwnsUntouched DEF DescriptorInv

\* init of m, as far as m itself is concerned: the descriptors it was given
\* are those that were opened, and it had none before.
LEMMA LeavesOwn ==
  ASSUME EventFields, DescriptorInv, NEW m \in Machines,
         phase \in [Machines -> Phases], phase[m] \in {"raw", "released"},
         NEW e, NEW outcome \in {"failed", "up"}, Leaves(m, e, outcome),
         \A n \in Numbers :
           /\ fds'[n] = <<m, "queue">> <=> e.queue_fd = n
           /\ fds'[n] = <<m, "read">> <=> e.read = n
           /\ fds'[n] = <<m, "write">> <=> e.write = n,
         outcome = "up" =>
           e.queue_fd \in Numbers /\ e.read \in Numbers /\ e.write \in Numbers
  PROVE  Owns(m)'
<1>1. em'[m] = e /\ phase'[m] = outcome
  BY DEF Leaves, EventFields
<1>2. m \notin heap
  BY DEF DescriptorInv, Owns
<1>3. m \in heap' => e.do_free_events
  BY <1>2 DEF Leaves
<1>4. QED
  BY <1>1, <1>3 DEF Owns

\* The careful application calls init for a machine that has nothing.
LEMMA InitDescriptors ==
  ASSUME Careful, EventFields, DescriptorInv, phase \in [Machines -> Phases],
         NEW m \in Machines, InitCall(m)
  PROVE  DescriptorInv'
<1>1. /\ phase[m] \in {"raw", "released"}
      /\ em[m].queue_fd = -1 /\ em[m].read = -1 /\ em[m].write = -1
      /\ \A n \in Numbers : fds[n] \notin Of(m)
  <2>1. phase[m] \in {"raw", "released"}
    BY DEF InitCall, InitFailsAtPipe, InitFailsAtFcntl, InitFailsAtQueue,
       InitReachesCtl, MayInit
  <2>2. em[m].queue_fd = -1 /\ em[m].read = -1 /\ em[m].write = -1
    BY <2>1 DEF DescriptorInv, Owns
  <2>3. \A n \in Numbers : n # -1
    BY LifecycleAssumption DEF LifecycleAssumption, Numbers
  <2>4. \A n \in Numbers : /\ fds[n] # <<m, "queue">>
                           /\ fds[n] # <<m, "read">>
                           /\ fds[n] # <<m, "write">>
    BY <2>1, <2>2, <2>3 DEF DescriptorInv, Owns
  <2>5. QED
    BY <2>1, <2>2, <2>4 DEF Of
<1>2. /\ <<m, "queue">> \in Of(m) /\ <<m, "read">> \in Of(m) /\ <<m, "write">> \in Of(m)
      /\ <<m, "queue">> # <<m, "read">> /\ <<m, "queue">> # <<m, "write">>
      /\ <<m, "read">> # <<m, "write">>
      /\ Of(m) \subseteq Objects
  BY DEF Of, Objects
<1>3. \A n \in Numbers : n # -1
  BY LifecycleAssumption DEF LifecycleAssumption, Numbers
<1>4. CASE InitFailsAtPipe(m)
  <2>1. PICK e \in WithEvents(m) : Leaves(m, e, "failed") /\ fds' = fds
    BY <1>4 DEF InitFailsAtPipe
  <2>2. e.queue_fd = -1 /\ e.read = -1 /\ e.write = -1
    BY <1>1, WithEventsType
  <2>3. Owns(m)'
    BY <1>1, <1>2, <1>3, <2>1, <2>2, LeavesOwn
  <2>4. \A k \in Machines \ {m} : Owns(k)'
    BY <2>1, LeavesOthers
  <2>5. QED
    BY <2>1, <2>3, <2>4 DEF DescriptorInv, Table
<1>5. ASSUME NEW e \in WithEvents(m), NEW r \in Numbers, NEW w \in Numbers,
             OpensPipe(r, w), fds' = PipeTable(m, r, w),
             Leaves(m, [e EXCEPT !.read = r, !.write = w], "failed")
      PROVE  DescriptorInv'
  <2> DEFINE e1 == [e EXCEPT !.read = r, !.write = w]
  <2>1. e \in Structures /\ e.queue_fd = -1
    BY <1>1, WithEventsType
  <2>2. /\ e1.queue_fd = -1 /\ e1.read = r /\ e1.write = w
        /\ e1.events = e.events /\ e1.do_free_events = e.do_free_events
    BY <2>1 DEF Structures
  <2>3. r # w /\ fds[r] = Closed /\ fds[w] = Closed
    BY <1>5, PipeNumbers
  <2>4. \A n \in Numbers :
          fds'[n] = IF n = w THEN <<m, "write">>
                    ELSE IF n = r THEN <<m, "read">> ELSE fds[n]
    BY <1>5, <2>3 DEF PipeTable, DescriptorInv, Table
  <2>5. Table'
    BY <1>2, <1>5 DEF PipeTable, DescriptorInv, Table
  <2>6. Owns(m)'
    <3>1. \A n \in Numbers :
            /\ fds'[n] = <<m, "queue">> <=> e1.queue_fd = n
            /\ fds'[n] = <<m, "read">> <=> e1.read = n
            /\ fds'[n] = <<m, "write">> <=> e1.write = n
      BY <1>1, <1>2, <1>3, <2>2, <2>3, <2>4
    <3>2. Leaves(m, e1, "failed")
      BY <1>5
    <3>3. QED
      <4> HIDE DEF e1
      <4>1. QED
        BY <1>1, <3>1, <3>2, LeavesOwn
  <2>7. \A k \in Machines \ {m} : Owns(k)'
    BY <1>2, <1>5, <2>3, <2>4, LeavesOthers
  <2>8. QED
    BY <2>5, <2>6, <2>7 DEF DescriptorInv
<1>6. ASSUME NEW e \in WithEvents(m), NEW r \in Numbers, NEW w \in Numbers,
             NEW q \in Numbers, NEW outcome \in {"failed", "up"},
             OpensPipe(r, w), Lowest(q, Free(fds) \ {r, w}),
             fds' = [PipeTable(m, r, w) EXCEPT ![q] = <<m, "queue">>],
             Leaves(m, [e EXCEPT !.read = r, !.write = w, !.queue_fd = q], outcome)
      PROVE  DescriptorInv'
  <2> DEFINE e1 == [e EXCEPT !.read = r, !.write = w, !.queue_fd = q]
  <2>1. e \in Structures
    BY WithEventsType
  <2>2. /\ e1.queue_fd = q /\ e1.read = r /\ e1.write = w
        /\ e1.events = e.events /\ e1.do_free_events = e.do_free_events
    BY <2>1 DEF Structures
  <2>3. /\ r # w /\ q # r /\ q # w
        /\ fds[r] = Closed /\ fds[w] = Closed /\ fds[q] = Closed
    BY <1>6, PipeNumbers DEF Lowest, Free
  <2>4. \A n \in Numbers :
          fds'[n] = IF n = q THEN <<m, "queue">>
                    ELSE IF n = w THEN <<m, "write">>
                    ELSE IF n = r THEN <<m, "read">> ELSE fds[n]
    BY <1>6, <2>3 DEF PipeTable, DescriptorInv, Table
  <2>5. Table'
    BY <1>2, <1>6 DEF PipeTable, DescriptorInv, Table
  <2>6. Owns(m)'
    <3>1. \A n \in Numbers :
            /\ fds'[n] = <<m, "queue">> <=> e1.queue_fd = n
            /\ fds'[n] = <<m, "read">> <=> e1.read = n
            /\ fds'[n] = <<m, "write">> <=> e1.write = n
      BY <1>1, <1>2, <2>2, <2>3, <2>4
    <3>2. Leaves(m, e1, outcome)
      BY <1>6
    <3>3. QED
      <4> HIDE DEF e1
      <4>1. QED
        BY <1>1, <2>2, <3>1, <3>2, LeavesOwn
  <2>7. \A k \in Machines \ {m} : Owns(k)'
    BY <1>2, <1>6, <2>3, <2>4, LeavesOthers
  <2>8. QED
    BY <2>5, <2>6, <2>7 DEF DescriptorInv
<1>7. QED
  BY <1>4, <1>5, <1>6 DEF InitCall, InitFailsAtFcntl, InitFailsAtQueue, InitReachesCtl

\* What destroy closes is the machine's own, and a machine without a queue is
\* left without anything.
LEMMA DestroyDescriptors ==
  ASSUME Careful, EventFields, DescriptorInv, phase \in [Machines -> Phases],
         NEW m \in Machines, DestroyCall(m)
  PROVE  DescriptorInv'
<1>1. phase[m] # "undestroyed" /\ Owns(m)
  BY DEF DestroyCall, DestroyWithQueue, DestroyWithoutQueue, MayDestroy, DescriptorInv
<1>2. em[m] \in Structures
  BY DEF EventFields
<1>3. /\ \A n \in Numbers : n # -1 /\ n >= 0
      /\ \A n \in Numbers \cup {-1} : n < 0 <=> n = -1
      /\ \A n \in Numbers \cup {-1} : n >= 0 <=> n \in Numbers
  BY LifecycleAssumption DEF LifecycleAssumption, Numbers
<1>4. \A n \in Numbers :
        /\ em[m].queue_fd = n => fds[n] \in Of(m)
        /\ em[m].read = n => fds[n] \in Of(m)
        /\ em[m].write = n => fds[n] \in Of(m)
  <2>1. <<m, "queue">> \in Of(m) /\ <<m, "read">> \in Of(m) /\ <<m, "write">> \in Of(m)
    BY DEF Of
  <2>2. QED
    BY <1>1, <2>1 DEF Owns
<1>5. \A k \in Machines \ {m} : Closed \notin Of(k) /\ \A o \in Of(m) : o \notin Of(k)
  BY DEF Of, Closed
<1>6. Closed \notin Of(m) /\ Closed \in Objects
  BY DEF Of, Closed, Objects
<1>7. CASE DestroyWithQueue(m)
  <2>1. \A n \in Numbers :
          fds'[n] = IF n = em[m].queue_fd THEN Closed ELSE fds[n]
    BY <1>7 DEF DestroyWithQueue, CloseNumber
  <2>2. Table'
    BY <1>6, <1>7, <2>1 DEF DestroyWithQueue, CloseNumber, DescriptorInv, Table
  <2>3. em' = em /\ heap' = heap
    BY <1>7 DEF DestroyWithQueue
  <2>4. phase'[m] = "undestroyed" /\ \A k \in Machines \ {m} : phase'[k] = phase[k]
    BY <1>7 DEF DestroyWithQueue
  <2>5. Owns(m)'
    BY <2>4 DEF Owns
  <2>6. ASSUME NEW k \in Machines \ {m} PROVE Owns(k)'
    <3>1. \A n \in Numbers :
            fds'[n] = fds[n] \/ (fds[n] \notin Of(k) /\ fds'[n] \notin Of(k))
      BY <1>4, <1>5, <2>1
    <3>2. QED
      BY <2>3, <2>4, <3>1, OwnsUntouched DEF DescriptorInv
  <2>7. QED
    BY <2>2, <2>5, <2>6 DEF DescriptorInv
<1>8. CASE DestroyWithoutQueue(m)
  <2> DEFINE freed == Freed(m)
             e == [freed EXCEPT !.write = -1, !.read = -1]
             w == em[m].write
             r == em[m].read
  <2>1. /\ freed \in Structures
        /\ freed.queue_fd = em[m].queue_fd /\ freed.read = r /\ freed.write = w
        /\ freed.do_free_events = em[m].do_free_events
    BY <1>2 DEF Freed, Structures
  <2>2. e.queue_fd = em[m].queue_fd /\ e.read = -1 /\ e.write = -1
    BY <2>1 DEF Structures
  <2>3. em[m].queue_fd = -1
    BY <1>2, <1>3, <1>8 DEF DestroyWithoutQueue, Structures
  <2>4. (w < 0 \/ IsOpen(w)) /\ (r < 0 \/ IsOpen(r))
    BY <1>2, <1>3, <1>4, <1>6 DEF Structures, IsOpen
  <2>5. /\ fds' = CloseNumber(CloseNumber(fds, w), r)
        /\ em' = [em EXCEPT ![m] = e]
        /\ phase' = [phase EXCEPT ![m] = "released"]
    BY <1>8, <2>1, <2>4 DEF DestroyWithoutQueue
  <2>6. m \notin heap'
    BY <1>1, <1>8 DEF DestroyWithoutQueue, Owns
  <2>7. \A n \in Numbers : fds'[n] = IF n = w \/ n = r THEN Closed ELSE fds[n]
    BY <2>5 DEF CloseNumber
  <2>8. Table'
    BY <1>6, <2>5, <2>7 DEF CloseNumber, DescriptorInv, Table
  <2>9. em'[m] = e /\ phase'[m] = "released"
    BY <2>5 DEF EventFields
  <2>10. \A n \in Numbers : /\ fds'[n] # <<m, "queue">>
                            /\ fds'[n] # <<m, "read">>
                            /\ fds'[n] # <<m, "write">>
    <3>1. <<m, "queue">> # Closed /\ <<m, "read">> # Closed /\ <<m, "write">> # Closed
      BY DEF Closed
    <3>2. QED
      BY <1>1, <1>3, <2>3, <2>7, <3>1 DEF Owns
  <2>11. Owns(m)'
    BY <1>3, <2>2, <2>3, <2>6, <2>9, <2>10 DEF Owns
  <2>12. ASSUME NEW k \in Machines \ {m} PROVE Owns(k)'
    <3>1. \A n \in Numbers :
            fds'[n] = fds[n] \/ (fds[n] \notin Of(k) /\ fds'[n] \notin Of(k))
      BY <1>4, <1>5, <2>7
    <3>2. em'[k] = em[k] /\ phase'[k] = phase[k]
      BY <2>5 DEF EventFields
    <3>3. k \in heap' <=> k \in heap
      BY <1>8 DEF DestroyWithoutQueue
    <3>4. QED
      BY <3>1, <3>2, <3>3, OwnsUntouched DEF DescriptorInv
  <2>13. QED
    BY <2>8, <2>11, <2>12 DEF DescriptorInv
<1>9. QED
  BY <1>7, <1>8 DEF DestroyCall

\* What the rest of the process does concerns no machine.
LEMMA OtherDescriptors ==
  ASSUME DescriptorInv, OpenOther \/ (\E n \in Numbers : CloseOther(n))
  PROVE  DescriptorInv'
<1>1. /\ \A m \in Machines : Closed \notin Of(m) /\ Other \notin Of(m)
      /\ Closed \in Objects /\ Other \in Objects
  BY DEF Of, Closed, Other, Objects
<1>2. UNCHANGED <<em, heap, phase>>
  BY DEF OpenOther, CloseOther
<1>3. PICK n \in Numbers :
        \/ fds[n] = Closed /\ fds' = [fds EXCEPT ![n] = Other]
        \/ fds[n] = Other /\ fds' = [fds EXCEPT ![n] = Closed]
  BY DEF OpenOther, CloseOther, Lowest, Free
<1>4. Table'
  BY <1>1, <1>3 DEF DescriptorInv, Table
<1>5. ASSUME NEW m \in Machines PROVE Owns(m)'
  <2>1. \A k \in Numbers :
          fds'[k] = fds[k] \/ (fds[k] \notin Of(m) /\ fds'[k] \notin Of(m))
    BY <1>1, <1>3 DEF DescriptorInv, Table
  <2>2. QED
    BY <1>2, <2>1, OwnsUntouched DEF DescriptorInv
<1>6. QED
  BY <1>4, <1>5 DEF DescriptorInv

\* The inductive invariant holds for the careful application.
THEOREM DescriptorsAreOwned ==
  ASSUME Careful
  PROVE  Spec => []DescriptorInv
<1> DEFINE Inv == /\ EventFields /\ EventsOwned
                  /\ phase \in [Machines -> Phases]
                  /\ DescriptorInv
<1>1. Init => Inv
  <2> SUFFICES ASSUME Init PROVE Inv
    OBVIOUS
  <2>1. EventFields /\ EventsOwned
    BY EventsInit
  <2>2. phase \in [Machines -> Phases] /\ \A m \in Machines : phase[m] = "raw"
    BY DEF Init, Phases
  <2>3. Table /\ \A n \in Numbers : fds[n] = Closed
    BY DEF Init, Table, Objects
  <2>4. \A m \in Machines :
          em[m].queue_fd = -1 /\ em[m].read = -1 /\ em[m].write = -1
    BY StaticFields DEF Init
  <2>5. \A n \in Numbers : n # -1
    BY LifecycleAssumption DEF LifecycleAssumption, Numbers
  <2>6. ASSUME NEW m \in Machines PROVE Owns(m)
    <3>1. <<m, "queue">> # Closed /\ <<m, "read">> # Closed /\ <<m, "write">> # Closed
      BY DEF Closed
    <3>2. m \notin heap
      BY DEF Init
    <3>3. QED
      BY <2>2, <2>3, <2>4, <2>5, <3>1, <3>2 DEF Owns
  <2>7. QED
    BY <2>1, <2>2, <2>3, <2>6 DEF DescriptorInv
<1>2. Inv /\ [Next]_vars => Inv'
  <2> SUFFICES ASSUME Inv, [Next]_vars PROVE Inv'
    OBVIOUS
  <2>1. EventFields' /\ EventsOwned'
    BY EventsStep
  <2>2. phase' \in [Machines -> Phases]
    <3>1. ASSUME NEW m \in Machines, InitCall(m)
          PROVE  phase' \in {[phase EXCEPT ![m] = "failed"], [phase EXCEPT ![m] = "up"]}
      BY <3>1 DEF InitCall, InitFailsAtPipe, InitFailsAtFcntl, InitFailsAtQueue,
         InitReachesCtl, Leaves
    <3>2. ASSUME NEW m \in Machines, DestroyCall(m)
          PROVE  phase' \in {[phase EXCEPT ![m] = "released"],
                             [phase EXCEPT ![m] = "undestroyed"]}
      BY <3>2 DEF DestroyCall, DestroyWithQueue, DestroyWithoutQueue
    <3>3. CASE OpenOther \/ (\E n \in Numbers : CloseOther(n)) \/ UNCHANGED vars
      BY <3>3 DEF OpenOther, CloseOther, vars
    <3>4. QED
      BY <3>1, <3>2, <3>3 DEF Next, Phases
  <2>3. DescriptorInv'
    <3>1. CASE UNCHANGED vars
      BY <3>1 DEF vars, DescriptorInv, Table, Owns
    <3>2. QED
      BY <3>1, InitDescriptors, DestroyDescriptors, OtherDescriptors DEF Next
  <2>4. QED
    BY <2>1, <2>2, <2>3
<1>3. Inv => DescriptorInv
  OBVIOUS
<1>4. QED
  BY <1>1, <1>2, <1>3, PTL DEF Spec

\* A machine that is up has its own queue and its own pipe behind its numbers.
THEOREM OwnDescriptorsKept ==
  ASSUME Careful
  PROVE  Spec => []OwnDescriptors
<1>1. DescriptorInv => OwnDescriptors
  BY DEF DescriptorInv, Owns, OwnDescriptors
<1>2. QED
  BY <1>1, DescriptorsAreOwned, PTL

\* A destroy that succeeds leaves nothing behind.
THEOREM ReleaseIsComplete ==
  ASSUME Careful
  PROVE  Spec => []ReleasedLeavesNothing
<1>1. DescriptorInv => ReleasedLeavesNothing
  <2> SUFFICES ASSUME DescriptorInv, NEW m \in Machines, phase[m] = "released"
               PROVE  LeavesNothing(m)
    BY DEF ReleasedLeavesNothing
  <2>1. m \notin heap
    BY DEF DescriptorInv, Owns
  <2>2. ASSUME NEW n \in Numbers PROVE fds[n][1] # m
    <3>1. n # -1
      BY LifecycleAssumption DEF LifecycleAssumption, Numbers
    <3>2. /\ fds[n] # <<m, "queue">> /\ fds[n] # <<m, "read">>
          /\ fds[n] # <<m, "write">>
      BY <3>1 DEF DescriptorInv, Owns
    <3>3. fds[n] \in Objects /\ m # "nobody"
      BY LifecycleAssumption DEF LifecycleAssumption, DescriptorInv, Table
    <3>4. \A o \in Objects :
            o[1] = m => o \in {<<m, "queue">>, <<m, "read">>, <<m, "write">>}
      BY <3>3 DEF Objects, Closed, Other
    <3>5. QED
      BY <3>2, <3>3, <3>4
  <2>3. QED
    BY <2>1, <2>2 DEF LeavesNothing
<1>2. QED
  BY <1>1, DescriptorsAreOwned, PTL

-----------------------------------------------------------------------------
(* The other variables.                                                    *)

FlagsType == [Machines -> [Ends -> SUBSET {"nonblock", "cloexec"}]]

KernelType ==
  /\ Table
  /\ flags \in FlagsType
  /\ phase \in [Machines -> Phases]

\* Whatever number is closed, a table of file descriptors is left.
LEMMA CloseNumberType ==
  ASSUME NEW table \in [Numbers -> Objects], NEW n
  PROVE  CloseNumber(table, n) \in [Numbers -> Objects]
BY DEF CloseNumber, Objects

\* init, at whatever step it ends: unless it is up, a machine's pipe may block.
LEMMA InitKernel ==
  ASSUME KernelType, TerminateNeverBlocks, NEW m \in Machines, InitCall(m)
  PROVE  KernelType' /\ TerminateNeverBlocks'
<1>1. fds' \in [Numbers -> Objects]
  <2>1. \A end \in {"queue", "read", "write"} : <<m, end>> \in Objects
    BY DEF Objects
  <2>2. ASSUME NEW r \in Numbers, NEW w \in Numbers
        PROVE  PipeTable(m, r, w) \in [Numbers -> Objects]
    BY <2>1 DEF PipeTable, KernelType, Table
  <2>3. CASE InitFailsAtPipe(m)
    BY <2>3 DEF InitFailsAtPipe, KernelType, Table
  <2>4. CASE InitFailsAtFcntl(m) \/ InitFailsAtQueue(m)
    BY <2>2, <2>4 DEF InitFailsAtFcntl, InitFailsAtQueue
  <2>5. ASSUME NEW outcome, InitReachesCtl(m, outcome) PROVE fds' \in [Numbers -> Objects]
    <3>1. PICK r \in Numbers, w \in Numbers, q \in Numbers :
            fds' = [PipeTable(m, r, w) EXCEPT ![q] = <<m, "queue">>]
      BY <2>5 DEF InitReachesCtl
    <3>2. QED
      BY <2>1, <2>2, <3>1
  <2>6. QED
    BY <2>3, <2>4, <2>5 DEF InitCall
<1>2. PICK outcome \in {"failed", "up"}, f \in [Ends -> SUBSET {"nonblock", "cloexec"}] :
        /\ phase' = [phase EXCEPT ![m] = outcome]
        /\ flags' = [flags EXCEPT ![m] = f]
        /\ outcome = "up" => "nonblock" \in f["write"]
  <2>1. PipeFlags \in [Ends -> SUBSET {"nonblock", "cloexec"}]
    BY DEF PipeFlags
  <2>2. "nonblock" \in PipeFlags["write"]
    BY DEF PipeFlags, Ends
  <2>3. CASE InitFailsAtPipe(m)
    <3>1. phase' = [phase EXCEPT ![m] = "failed"] /\ flags' = flags
      BY <2>3 DEF InitFailsAtPipe, Leaves
    <3>2. flags[m] \in [Ends -> SUBSET {"nonblock", "cloexec"}]
          /\ flags = [flags EXCEPT ![m] = flags[m]]
      BY DEF KernelType, FlagsType
    <3>3. QED
      BY <3>1, <3>2
  <2>4. CASE InitFailsAtFcntl(m)
    <3>1. phase' = [phase EXCEPT ![m] = "failed"]
      BY <2>4 DEF InitFailsAtFcntl, Leaves
    <3>2. PICK done \in {{}, {"read"}} :
            flags' = [flags EXCEPT ![m] =
                        [end \in Ends |-> IF end \in done THEN PipeFlags[end] ELSE {}]]
      BY <2>4 DEF InitFailsAtFcntl
    <3>3. [end \in Ends |-> IF end \in done THEN PipeFlags[end] ELSE {}]
            \in [Ends -> SUBSET {"nonblock", "cloexec"}]
      BY <2>1
    <3>4. QED
      BY <3>1, <3>2, <3>3
  <2>5. CASE InitFailsAtQueue(m) \/ \E outcome \in {"failed", "up"} : InitReachesCtl(m, outcome)
    <3>1. flags' = [flags EXCEPT ![m] = PipeFlags]
      BY <2>5 DEF InitFailsAtQueue, InitReachesCtl
    <3>2. \E outcome \in {"failed", "up"} : phase' = [phase EXCEPT ![m] = outcome]
      BY <2>5 DEF InitFailsAtQueue, InitReachesCtl, Leaves
    <3>3. QED
      BY <2>1, <2>2, <3>1, <3>2
  <2>6. QED
    BY <2>3, <2>4, <2>5 DEF InitCall
<1>3. flags' \in FlagsType /\ phase' \in [Machines -> Phases]
  BY <1>2 DEF KernelType, FlagsType, Phases
<1>4. TerminateNeverBlocks'
  BY <1>2 DEF TerminateNeverBlocks, KernelType, FlagsType
<1>5. QED
  BY <1>1, <1>3, <1>4 DEF KernelType, Table

\* destroy: the machine is not up any more.
LEMMA DestroyKernel ==
  ASSUME KernelType, TerminateNeverBlocks, NEW m \in Machines, DestroyCall(m)
  PROVE  KernelType' /\ TerminateNeverBlocks'
<1>1. fds' \in [Numbers -> Objects]
  BY CloseNumberType DEF DestroyCall, DestroyWithQueue, DestroyWithoutQueue,
     KernelType, Table
<1>2. PICK outcome \in {"released", "undestroyed"} :
        phase' = [phase EXCEPT ![m] = outcome] /\ flags' = flags
  BY DEF DestroyCall, DestroyWithQueue, DestroyWithoutQueue
<1>3. QED
  BY <1>1, <1>2 DEF KernelType, Table, Phases, TerminateNeverBlocks

\* Every step preserves the types of the other variables.
LEMMA KernelStep ==
  ASSUME KernelType, TerminateNeverBlocks, [Next]_vars
  PROVE  KernelType' /\ TerminateNeverBlocks'
<1>1. CASE OpenOther \/ (\E n \in Numbers : CloseOther(n)) \/ UNCHANGED vars
  <2>1. UNCHANGED <<flags, phase>>
    BY <1>1 DEF OpenOther, CloseOther, vars
  <2>2. fds' \in [Numbers -> Objects]
    BY <1>1 DEF OpenOther, CloseOther, vars, KernelType, Table, Objects
  <2>3. QED
    BY <2>1, <2>2 DEF KernelType, Table, TerminateNeverBlocks
<1>2. QED
  BY <1>1, InitKernel, DestroyKernel DEF Next

\* Initially no machine is up.
LEMMA KernelInit == Init => KernelType /\ TerminateNeverBlocks
BY DEF Init, KernelType, Table, FlagsType, Objects, Phases, TerminateNeverBlocks

\* Every reachable state is well typed, in whatever order init and destroy are
\* called and wherever they fail.
THEOREM LifecycleTypes == Spec => []TypeOK
<1>1. EventFields /\ KernelType => TypeOK
  BY DEF EventFields, KernelType, Table, FlagsType, TypeOK
<1>2. KernelType /\ TerminateNeverBlocks /\ [Next]_vars
        => KernelType' /\ TerminateNeverBlocks'
  BY KernelStep
<1>3. QED
  BY <1>1, <1>2, KernelInit, EventsInit, EventsStep, PTL DEF Spec

\* A machine does not come up with a write end that blocks: the call that sets
\* the flags of its second end has not been left out.
THEOREM TerminateDoesNotBlock == Spec => []TerminateNeverBlocks
<1>1. KernelType /\ TerminateNeverBlocks /\ [Next]_vars
        => KernelType' /\ TerminateNeverBlocks'
  BY KernelStep
<1>2. QED
  BY <1>1, KernelInit, PTL DEF Spec

-----------------------------------------------------------------------------
(* What destroy leaves behind.                                             *)

\* The break loop pipe of a machine is open.
HasPipe(m) ==
  /\ em[m].read \in Numbers /\ fds[em[m].read] = <<m, "read">>
  /\ em[m].write \in Numbers /\ fds[em[m].write] = <<m, "write">>

\* A machine has its pipe once it has a queue, and still has it when its destroy
\* has reported an error.
PipeKept(m) ==
  phase[m] = "undestroyed" \/ em[m].queue_fd \in Numbers => HasPipe(m)

PipeInv == \A m \in Machines : PipeKept(m)

\* A machine keeps what it has while others are called.
LEMMA PipeUntouched ==
  ASSUME NEW m \in Machines, PipeKept(m), em'[m] = em[m], phase'[m] = phase[m],
         \A n \in Numbers : fds'[n] = fds[n] \/ fds[n] \notin Of(m)
  PROVE  PipeKept(m)'
<1>1. <<m, "read">> \in Of(m) /\ <<m, "write">> \in Of(m)
  BY DEF Of
<1>2. QED
  BY <1>1 DEF PipeKept, HasPipe

\* init opens numbers that were free.
LEMMA InitOpensFree ==
  ASSUME Table, NEW m \in Machines, InitCall(m), NEW n \in Numbers
  PROVE  fds'[n] = fds[n] \/ fds[n] = Closed
<1>1. CASE InitFailsAtPipe(m)
  BY <1>1 DEF InitFailsAtPipe
<1>2. CASE InitFailsAtFcntl(m) \/ InitFailsAtQueue(m)
  <2>1. PICK r \in Numbers, w \in Numbers :
          OpensPipe(r, w) /\ fds' = PipeTable(m, r, w)
    BY <1>2 DEF InitFailsAtFcntl, InitFailsAtQueue
  <2>2. QED
    BY <2>1, PipeNumbers DEF PipeTable, Table
<1>3. ASSUME NEW outcome, InitReachesCtl(m, outcome)
      PROVE  fds'[n] = fds[n] \/ fds[n] = Closed
  <2>1. PICK r \in Numbers, w \in Numbers, q \in Numbers :
          /\ OpensPipe(r, w) /\ Lowest(q, Free(fds) \ {r, w})
          /\ fds' = [PipeTable(m, r, w) EXCEPT ![q] = <<m, "queue">>]
    BY <1>3 DEF InitReachesCtl
  <2>2. fds[q] = Closed
    BY <2>1 DEF Lowest, Free
  <2>3. QED
    BY <2>1, <2>2, PipeNumbers DEF PipeTable, Table
<1>4. QED
  BY <1>1, <1>2, <1>3 DEF InitCall

\* init gives a machine its queue only after its pipe.
LEMMA InitPipe ==
  ASSUME Careful, EventFields, DescriptorInv, phase \in [Machines -> Phases],
         NEW m \in Machines, InitCall(m)
  PROVE  PipeKept(m)'
<1>1. em[m].queue_fd = -1
  BY DEF DescriptorInv, Owns, InitCall, InitFailsAtPipe, InitFailsAtFcntl,
     InitFailsAtQueue, InitReachesCtl, MayInit
<1>2. phase'[m] # "undestroyed"
  BY DEF InitCall, InitFailsAtPipe, InitFailsAtFcntl, InitFailsAtQueue,
     InitReachesCtl, Leaves
<1>3. -1 \notin Numbers
  BY LifecycleAssumption DEF LifecycleAssumption, Numbers
<1>4. CASE InitFailsAtPipe(m)
  <2>1. em'[m].queue_fd = -1
    BY <1>1, <1>4, WithEventsType DEF InitFailsAtPipe, Leaves, EventFields
  <2>2. QED
    BY <1>2, <1>3, <2>1 DEF PipeKept
<1>5. CASE InitFailsAtFcntl(m) \/ InitFailsAtQueue(m)
  <2>1. PICK e \in WithEvents(m), r \in Numbers, w \in Numbers :
          Leaves(m, [e EXCEPT !.read = r, !.write = w], "failed")
    BY <1>5 DEF InitFailsAtFcntl, InitFailsAtQueue
  <2>2. e \in Structures /\ e.queue_fd = -1
    BY <1>1, WithEventsType
  <2>3. em' = [em EXCEPT ![m] = [e EXCEPT !.read = r, !.write = w]]
    BY <2>1 DEF Leaves
  <2>4. em'[m].queue_fd = -1
    BY <2>2, <2>3 DEF EventFields, Structures
  <2>5. QED
    BY <1>2, <1>3, <2>4 DEF PipeKept
<1>6. ASSUME NEW outcome, InitReachesCtl(m, outcome) PROVE PipeKept(m)'
  <2>1. PICK e \in WithEvents(m), r \in Numbers, w \in Numbers, q \in Numbers :
          /\ OpensPipe(r, w) /\ Lowest(q, Free(fds) \ {r, w})
          /\ fds' = [PipeTable(m, r, w) EXCEPT ![q] = <<m, "queue">>]
          /\ Leaves(m, [e EXCEPT !.read = r, !.write = w, !.queue_fd = q], outcome)
    BY <1>6 DEF InitReachesCtl
  <2>2. /\ e \in Structures
        /\ em' = [em EXCEPT ![m] = [e EXCEPT !.read = r, !.write = w, !.queue_fd = q]]
    BY <2>1, WithEventsType DEF Leaves
  <2>3. em'[m].read = r /\ em'[m].write = w
    BY <2>2 DEF EventFields, Structures
  <2>4. r # w /\ q # r /\ q # w
    BY <2>1, PipeNumbers DEF Lowest
  <2>5. fds'[r] = <<m, "read">> /\ fds'[w] = <<m, "write">>
    BY <2>1, <2>4 DEF PipeTable, DescriptorInv, Table
  <2>6. QED
    BY <2>3, <2>5 DEF PipeKept, HasPipe
<1>7. QED
  BY <1>4, <1>5, <1>6 DEF InitCall

\* destroy closes the queue of a machine that has one, and nothing of its pipe.
LEMMA DestroyPipe ==
  ASSUME Careful, EventFields, DescriptorInv, phase \in [Machines -> Phases],
         NEW m \in Machines, PipeKept(m), DestroyCall(m)
  PROVE  /\ PipeKept(m)'
         /\ \A n \in Numbers : fds'[n] = fds[n] \/ fds[n] \in Of(m)
<1>1. phase[m] # "undestroyed" /\ Owns(m)
  BY DEF DestroyCall, DestroyWithQueue, DestroyWithoutQueue, MayDestroy, DescriptorInv
<1>2. em[m] \in Structures
  BY DEF EventFields
<1>3. \A n \in Numbers \cup {-1} : (n >= 0 <=> n \in Numbers) /\ (n < 0 <=> n = -1)
  BY LifecycleAssumption DEF LifecycleAssumption, Numbers
<1>4. \A n \in Numbers :
        /\ em[m].queue_fd = n => fds[n] = <<m, "queue">>
        /\ em[m].read = n => fds[n] = <<m, "read">>
        /\ em[m].write = n => fds[n] = <<m, "write">>
  BY <1>1 DEF Owns
<1>5. /\ <<m, "queue">> \in Of(m) /\ <<m, "read">> \in Of(m) /\ <<m, "write">> \in Of(m)
      /\ <<m, "queue">> # <<m, "read">> /\ <<m, "queue">> # <<m, "write">>
      /\ Closed \notin Of(m)
  BY DEF Of, Closed
<1>6. CASE DestroyWithQueue(m)
  <2>1. em[m].queue_fd \in Numbers
    BY <1>2, <1>3, <1>6 DEF DestroyWithQueue, Structures
  <2>2. \A n \in Numbers : fds'[n] = IF n = em[m].queue_fd THEN Closed ELSE fds[n]
    BY <1>6 DEF DestroyWithQueue, CloseNumber
  <2>3. HasPipe(m) /\ em' = em
    BY <1>6, <2>1 DEF PipeKept, DestroyWithQueue
  <2>4. HasPipe(m)'
    BY <1>4, <1>5, <2>1, <2>2, <2>3 DEF HasPipe
  <2>5. QED
    BY <1>4, <1>5, <2>1, <2>2, <2>4 DEF PipeKept
<1>7. CASE DestroyWithoutQueue(m)
  <2> DEFINE freed == Freed(m)
             e == [freed EXCEPT !.write = -1, !.read = -1]
  <2>1. /\ freed \in Structures
        /\ freed.queue_fd = em[m].queue_fd
        /\ freed.read = em[m].read /\ freed.write = em[m].write
    BY <1>2 DEF Freed, Structures
  <2>2. /\ em[m].write < 0 \/ IsOpen(em[m].write)
        /\ em[m].read < 0 \/ IsOpen(em[m].read)
    BY <1>2, <1>3, <1>4, <1>5 DEF Structures, IsOpen
  <2>3. /\ fds' = CloseNumber(CloseNumber(fds, em[m].write), em[m].read)
        /\ em' = [em EXCEPT ![m] = e]
        /\ phase' = [phase EXCEPT ![m] = "released"]
    BY <1>7, <2>1, <2>2 DEF DestroyWithoutQueue
  <2>4. e.queue_fd = em[m].queue_fd
    BY <2>1 DEF Structures
  <2>5. em[m].queue_fd \notin Numbers
    BY <1>2, <1>3, <1>7 DEF DestroyWithoutQueue, Structures
  <2>6. em'[m].queue_fd = em[m].queue_fd /\ phase'[m] = "released"
    BY <2>3, <2>4 DEF EventFields
  <2>7. \A n \in Numbers :
          fds'[n] = IF n = em[m].write \/ n = em[m].read THEN Closed ELSE fds[n]
    BY <2>3 DEF CloseNumber
  <2>8. QED
    BY <1>4, <1>5, <2>5, <2>6, <2>7 DEF PipeKept
<1>8. QED
  BY <1>6, <1>7 DEF DestroyCall

\* A call concerns the structure of its own machine only.
LEMMA CallConcernsOne ==
  ASSUME EventFields, NEW m \in Machines, InitCall(m) \/ DestroyCall(m),
         phase \in [Machines -> Phases], NEW k \in Machines \ {m}
  PROVE  em'[k] = em[k] /\ phase'[k] = phase[k]
<1>1. ASSUME NEW e, NEW outcome, Leaves(m, e, outcome)
      PROVE  em'[k] = em[k] /\ phase'[k] = phase[k]
  BY <1>1 DEF Leaves, EventFields
<1>2. CASE InitCall(m)
  BY <1>1, <1>2
     DEF InitCall, InitFailsAtPipe, InitFailsAtFcntl, InitFailsAtQueue, InitReachesCtl
<1>3. CASE DestroyWithQueue(m)
  BY <1>3 DEF DestroyWithQueue
<1>4. CASE DestroyWithoutQueue(m)
  <2>1. /\ \E e : em' = [em EXCEPT ![m] = e]
        /\ \E outcome : phase' = [phase EXCEPT ![m] = outcome]
    BY <1>4 DEF DestroyWithoutQueue
  <2>2. QED
    BY <2>1 DEF EventFields
<1>5. QED
  BY <1>2, <1>3, <1>4 DEF DestroyCall

\* Every step of a careful application, and of the rest of the process.
LEMMA PipeStep ==
  ASSUME Careful, EventFields, DescriptorInv, phase \in [Machines -> Phases],
         PipeInv, [Next]_vars
  PROVE  PipeInv'
<1> USE DEF PipeInv
<1>1. \A k \in Machines : Closed \notin Of(k) /\ Other \notin Of(k)
  BY DEF Of, Closed, Other
<1>2. \A m \in Machines : \A k \in Machines \ {m} : \A o \in Of(m) : o \notin Of(k)
  BY DEF Of
<1>3. ASSUME NEW m \in Machines, InitCall(m) PROVE \A k \in Machines : PipeKept(k)'
  BY <1>1, <1>3, InitPipe, InitOpensFree, CallConcernsOne, PipeUntouched
     DEF DescriptorInv
<1>4. ASSUME NEW m \in Machines, DestroyCall(m) PROVE \A k \in Machines : PipeKept(k)'
  BY <1>2, <1>4, DestroyPipe, CallConcernsOne, PipeUntouched
<1>5. CASE OpenOther \/ (\E n \in Numbers : CloseOther(n)) \/ UNCHANGED vars
  <2>1. UNCHANGED <<em, phase>>
    BY <1>5 DEF OpenOther, CloseOther, vars
  <2>2. \A n \in Numbers : fds'[n] = fds[n] \/ fds[n] \in {Closed, Other}
    BY <1>5 DEF OpenOther, CloseOther, vars, Lowest, Free, DescriptorInv, Table
  <2>3. QED
    BY <1>1, <2>1, <2>2, PipeUntouched
<1>6. QED
  BY <1>3, <1>4, <1>5 DEF Next

\* The invariant of the pipes holds for the careful application.
THEOREM PipesAreKept ==
  ASSUME Careful
  PROVE  Spec => []PipeInv
<1>1. Init => PipeInv
  <2>1. -1 \notin Numbers
    BY LifecycleAssumption DEF LifecycleAssumption, Numbers
  <2>2. Init => \A m \in Machines : phase[m] = "raw" /\ em[m].queue_fd = -1
    BY StaticFields DEF Init
  <2>3. QED
    BY <2>1, <2>2 DEF PipeInv, PipeKept
<1>2. TypeOK /\ DescriptorInv /\ PipeInv /\ [Next]_vars => PipeInv'
  <2>1. TypeOK => EventFields /\ phase \in [Machines -> Phases]
    BY DEF TypeOK, EventFields
  <2>2. QED
    BY <2>1, PipeStep
<1>3. QED
  BY <1>1, <1>2, LifecycleTypes, DescriptorsAreOwned, PTL DEF Spec

\* No call gets through to an array that is not there or to a descriptor that is
\* not the machine's own, and event_machine_terminate not even after a destroy
\* that has reported an error.
THEOREM OwnDescriptorsOnly ==
  ASSUME Careful
  PROVE  Spec => []AcceptsOwnOnly
<1>1. TypeOK /\ EventsOwned /\ DescriptorInv /\ PipeInv => AcceptsOwnOnly
  <2> SUFFICES ASSUME TypeOK, EventsOwned, DescriptorInv, PipeInv, NEW m \in Machines
               PROVE  /\ RunAccepts(m) => em[m].events = "user" \/ m \in heap
                      /\ TerminateAccepts(m) => fds[em[m].write] = <<m, "write">>
                      /\ phase[m] # "undestroyed" /\ IsOpen(em[m].queue_fd) =>
                           fds[em[m].queue_fd] = <<m, "queue">>
    BY DEF AcceptsOwnOnly, RegistrationAccepts, RunAccepts
  <2>1. RunAccepts(m) => em[m].events = "user" \/ m \in heap
    BY DEF RunAccepts, TypeOK, Structures, EventsOwned
  <2>2. TerminateAccepts(m) => fds[em[m].write] = <<m, "write">>
    BY DEF TerminateAccepts, IsOpen, DescriptorInv, Owns, PipeInv, PipeKept, HasPipe
  <2>3. phase[m] # "undestroyed" /\ IsOpen(em[m].queue_fd) =>
          fds[em[m].queue_fd] = <<m, "queue">>
    BY DEF IsOpen, DescriptorInv, Owns
  <2>4. QED
    BY <2>1, <2>2, <2>3
<1>2. QED
  BY <1>1, EventsAreOwned, DescriptorsAreOwned, PipesAreKept, LifecycleTypes, PTL

\* What event_machine_destroy promises, to clean up whatever it returns, it
\* keeps exactly as long as it has reported no error: for an application that
\* leaves such a machine alone, the pipe of every machine that was destroyed
\* while it had a queue is open for ever.
THEOREM LeaksWhenItFails ==
  ASSUME Careful
  PROVE  Spec => [](DestroyCleansUp <=> \A m \in Machines : phase[m] # "undestroyed")
<1> DEFINE Leak == DestroyCleansUp <=> \A m \in Machines : phase[m] # "undestroyed"
<1>1. ReleasedLeavesNothing /\ PipeInv => Leak
  <2> SUFFICES ASSUME ReleasedLeavesNothing, PipeInv PROVE Leak
    OBVIOUS
  <2>1. ASSUME NEW m \in Machines, phase[m] = "undestroyed" PROVE ~LeavesNothing(m)
    BY <2>1 DEF PipeInv, PipeKept, HasPipe, LeavesNothing
  <2>2. QED
    BY <2>1 DEF DestroyCleansUp, ReleasedLeavesNothing
<1>2. QED
  BY <1>1, PipesAreKept, ReleaseIsComplete, PTL

=============================================================================
