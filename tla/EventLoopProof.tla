--------------------------- MODULE EventLoopProof ---------------------------
(***************************************************************************)
(* For any number of connections, descriptors and threads of the pool: no  *)
(* wake-up is lost, nothing is read of a channel in the background, and as *)
(* long as no client resets its connection no exception leaves the loop.   *)
(***************************************************************************)
EXTENDS EventLoop, SequenceTheorems, TLAPS

(* Where the main thread is inside a handler of the channel.               *)
Busy == {"sleep1", "sleep2", "sleep3"} \cup WorkLabel

(* The main thread has a channel in hand wherever it works on one, and the *)
(* workers only run callbacks.                                             *)
Located ==
    /\ pc[Main] \in Busy \cup {"event", "register"} => at[Main] \in Conn
    /\ pc[Main] = "register" => fd[Main] \in Fd
    /\ pc[Main] = "sleep3" => future[at[Main]] # <<>>
    /\ \A w \in Workers :
          /\ pc[w] \in WorkLabel \cup {"idle"}
          /\ pc[w] \in WorkLabel => at[w] \in Conn

Inv == TypeOK /\ Located /\ NoLostWakeup

(* Only thread t moves. *)
Moves(t) ==
    \A s \in Thread \ {t} :
        pc'[s] = pc[s] /\ at'[s] = at[s] /\ fd'[s] = fd[s]

----------------------------------------------------------------------------

(* The types the steps below lean on.                                      *)
LEMMA Types ==
    ASSUME TypeOK
    PROVE  /\ pc \in [Thread -> MainLabel \cup WorkLabel \cup {"idle"}]
           /\ at \in [Thread -> Conn \cup {None}]
           /\ fd \in [Thread -> Fd \cup {None}]
           /\ number \in [Thread -> Nat]
           /\ chunk \in Nat
           /\ Main \in Thread /\ Workers \subseteq Thread /\ Main \notin Workers
           /\ Thread = Workers \cup {Main}
           /\ None \notin Conn
           /\ keys \in [Fd -> SUBSET Kind]
           /\ socket_map \in [Fd -> Conn \cup {None}]
           /\ open \in [Fd -> Conn \cup {None}]
           /\ fileno \in [Conn -> Fd \cup {None}]
           /\ in_background \in [Conn -> BOOLEAN]
           /\ peer \in [Conn -> {"none", "pending", "up", "reset"}]
           /\ todo \subseteq Fd \X Conn
           /\ future \in [Conn -> Seq(State)]
           /\ inbox \in [Conn -> Nat]
BY ThreadAssumption, NoneAssumption DEF TypeOK, Thread

(* A thread that has nothing more in hand.                                 *)
LEMMA Dropped ==
    ASSUME TypeOK, NEW t \in Thread, Drop(t)
    PROVE  /\ at' \in [Thread -> Conn \cup {None}]
           /\ number' \in [Thread -> Nat]
           /\ fd' \in [Thread -> Fd \cup {None}]
           /\ \A s \in Thread \ {t} : at'[s] = at[s] /\ fd'[s] = fd[s]
BY Types DEF Drop

(* A handler that is through leads to the pool, to fastpoll or to the next *)
(* message of the buffer, whose channel is the same.                       *)
LEMMA Returned ==
    ASSUME TypeOK, NEW t \in Thread, Return(t)
    PROVE  /\ pc' \in [Thread -> MainLabel \cup WorkLabel \cup {"idle"}]
           /\ at' \in [Thread -> Conn \cup {None}]
           /\ number' \in [Thread -> Nat]
           /\ fd' \in [Thread -> Fd \cup {None}]
           /\ chunk' \in Nat
           /\ pc'[t] \in IF t = Main THEN {"sleep1", "event"} ELSE {"idle"}
           /\ t = Main => at'[t] = at[t]
           /\ at'[t] \in {at[t], None}
           /\ Moves(t)
<1>1. CASE t # Main
  <2>1. Goto(t, "idle") /\ Drop(t) /\ UNCHANGED chunk
    BY <1>1 DEF Return
  <2>2. at'[t] = None
    BY <2>1, Types DEF Drop
  <2>3. pc' = [pc EXCEPT ![t] = "idle"]
    BY <2>1 DEF Goto
  <2>4. QED
    BY <1>1, <2>1, <2>2, <2>3, Types, Dropped DEF Moves
<1>2. CASE t = Main
  <2>1. PICK label \in {"sleep1", "event"} : pc' = [pc EXCEPT ![t] = label]
    BY <1>2 DEF Return, Goto
  <2>2. /\ chunk' = IF chunk > 0 THEN chunk - 1 ELSE 0
        /\ number' = [number EXCEPT ![t] = 0]
        /\ fd' = [fd EXCEPT ![t] = None]
        /\ at' = at
    BY <1>2 DEF Return
  <2>3. chunk' \in Nat
    BY <2>2, Types
  <2>4. pc' \in [Thread -> MainLabel \cup WorkLabel \cup {"idle"}]
    BY <2>1, Types DEF MainLabel
  <2>5. QED
    BY <1>2, <2>1, <2>2, <2>3, <2>4, Types DEF Moves
<1>3. QED
  BY <1>1, <1>2

(* A thread that is not about to wake a channel may do what it likes, as   *)
(* long as the futures stay.                                               *)
LEMMA Elsewhere ==
    ASSUME TypeOK, NoLostWakeup, NEW t \in Thread, Moves(t),
           pc[t] \notin {"wake1", "sleep2"},
           UNCHANGED future,
           \A c \in Conn : in_background'[c] => in_background[c]
    PROVE  NoLostWakeup'
<1> SUFFICES ASSUME NEW c \in Conn, in_background'[c]
             PROVE  WakePending(c)'
  BY DEF NoLostWakeup
<1>1. WakePending(c)
  BY DEF NoLostWakeup
<1>2. CASE \E n \in DOMAIN future[c] : future[c][n] # "done"
  BY <1>2 DEF WakePending
<1>3. CASE pc[Main] = "sleep2" /\ at[Main] = c
  <2>1. Main \in Thread \ {t}
    BY <1>3, Types
  <2>2. QED
    BY <1>3, <2>1 DEF WakePending, Moves
<1>4. CASE \E s \in Thread : At(s, "wake1") /\ at[s] = c
  <2>1. PICK s \in Thread : pc[s] = "wake1" /\ at[s] = c
    BY <1>4 DEF At
  <2>2. s \in Thread \ {t}
    BY <2>1
  <2>3. pc'[s] = "wake1" /\ at'[s] = c
    BY <2>1, <2>2 DEF Moves
  <2>4. QED
    BY <2>3 DEF WakePending, At
<1>5. QED
  BY <1>1, <1>2, <1>3, <1>4 DEF WakePending

(* The places of the workers are right when the main thread moves, ...     *)
LEMMA MainLocated ==
    ASSUME Inv, Moves(Main),
           pc'[Main] \in Busy \cup {"event", "register"} => at'[Main] \in Conn,
           pc'[Main] = "register" => fd'[Main] \in Fd,
           pc'[Main] = "sleep3" => future'[at'[Main]] # <<>>
    PROVE  Located'
<1>1. \A w \in Workers : pc'[w] = pc[w] /\ at'[w] = at[w]
  BY Types DEF Inv, Moves
<1>2. QED
  BY <1>1 DEF Inv, Located

(* ... and that of the main thread when a worker does.                     *)
LEMMA WorkerLocated ==
    ASSUME Inv, NEW w \in Workers, Moves(w),
           pc'[w] \in WorkLabel \cup {"idle"},
           pc'[w] \in WorkLabel => at'[w] \in Conn,
           \A c \in Conn : future[c] # <<>> => future'[c] # <<>>
    PROVE  Located'
<1>1. \A s \in Thread \ {w} : pc'[s] = pc[s] /\ at'[s] = at[s] /\ fd'[s] = fd[s]
  BY DEF Moves
<1>2. Main \in Thread \ {w} /\ \A v \in Workers \ {w} : v \in Thread \ {w}
  BY Types DEF Inv
<1>3. pc[Main] = "sleep3" => at[Main] \in Conn
  BY DEF Inv, Located, Busy
<1>4. QED
  BY <1>1, <1>2, <1>3 DEF Inv, Located

(* It holds before anybody connects.                                       *)
LEMMA InitInv == Init => Inv
<1> SUFFICES ASSUME Init PROVE Inv
  OBVIOUS
<1>1. TypeOK
  <2>1. pc \in [Thread -> MainLabel \cup WorkLabel \cup {"idle"}]
    BY DEF Init, MainLabel
  <2>2. /\ producer_fifo \in [Conn -> Seq(Nat)]
        /\ future \in [Conn -> Seq(State)]
        /\ sent \in [Conn -> Seq(Nat)]
    BY DEF Init
  <2>3. /\ at \in [Thread -> Conn \cup {None}]
        /\ number \in [Thread -> Nat]
        /\ fd \in [Thread -> Fd \cup {None}]
        /\ chunk \in Nat
    BY DEF Init
  <2>4. QED
    BY <2>1, <2>2, <2>3 DEF Init, TypeOK
<1>2. Located
  BY ThreadAssumption DEF Init, Located, Thread, WorkLabel, Busy
<1>3. NoLostWakeup
  BY DEF Init, NoLostWakeup
<1>4. QED
  BY <1>1, <1>2, <1>3 DEF Inv

----------------------------------------------------------------------------
(* fastpoll. *)

(* The steps of fastpoll by themselves: types.                             *)
LEMMA PollTypes ==
    ASSUME TypeOK, Located,
           \/ Snapshot \/ Scan \/ Register \/ Select \/ Dispatch
           \/ DispatchDone \/ WriteEvent \/ EventDone
    PROVE  TypeOK'
<1> USE DEF Goto, At, threads, poll, tables, channel, client
<1>1. CASE Snapshot
  <2>1. pc' \in [Thread -> MainLabel \cup WorkLabel \cup {"idle"}]
    BY <1>1, Types DEF Snapshot, MainLabel
  <2>2. todo' \subseteq Fd \X Conn /\ keys' \in [Fd -> SUBSET Kind]
    BY <1>1, Types DEF Snapshot
  <2>3. UNCHANGED <<threads, incoming, events, tables, channel, client>>
    BY <1>1 DEF Snapshot
  <2>4. QED
    BY <2>1, <2>2, <2>3 DEF TypeOK
<1>2. CASE Scan
  <2>1. PICK item \in todo :
          /\ todo' = todo \ {item}
          /\ \/ Interest(item[2]) = {} /\ UNCHANGED <<pc, fd, at, events>>
             \/ /\ Interest(item[2]) # {}
                /\ events' = Interest(item[2])
                /\ at' = [at EXCEPT ![Main] = item[2]]
                /\ fd' = [fd EXCEPT ![Main] = item[1]]
                /\ Goto(Main, "register")
    BY <1>2 DEF Scan
  <2>2. item[1] \in Fd /\ item[2] \in Conn
    BY Types
  <2>3. Interest(item[2]) \subseteq Kind
    BY DEF Interest
  <2>4. pc' \in [Thread -> MainLabel \cup WorkLabel \cup {"idle"}]
    BY <2>1, Types DEF MainLabel
  <2>5. /\ at' \in [Thread -> Conn \cup {None}]
        /\ fd' \in [Thread -> Fd \cup {None}]
        /\ todo' \subseteq Fd \X Conn
        /\ events' \subseteq Kind
    BY <2>1, <2>2, <2>3, Types DEF TypeOK
  <2>6. UNCHANGED <<number, chunk, keys, incoming, tables, channel, client>>
    BY <1>2 DEF Scan
  <2>7. QED
    BY <2>4, <2>5, <2>6 DEF TypeOK
<1>3. CASE Register
  <2>1. /\ at' \in [Thread -> Conn \cup {None}]
        /\ number' \in [Thread -> Nat]
        /\ fd' \in [Thread -> Fd \cup {None}]
    BY <1>3, Types, Dropped DEF Register
  <2>2. pc' \in [Thread -> MainLabel \cup WorkLabel \cup {"idle"}]
    BY <1>3, Types DEF Register, MainLabel
  <2>3. keys' \in [Fd -> SUBSET Kind] /\ events' \subseteq Kind
    BY <1>3, Types DEF Register, TypeOK
  <2>4. UNCHANGED <<chunk, todo, incoming, tables, channel, client>>
    BY <1>3 DEF Register
  <2>5. QED
    BY <2>1, <2>2, <2>3, <2>4 DEF TypeOK
<1>4. CASE Select
  <2>1. ReadyKeys \in [Fd -> SUBSET Kind]
    BY Types DEF ReadyKeys
  <2>2. (listening /\ \E c \in Conn : peer[c] = "pending") \in BOOLEAN
    BY DEF TypeOK
  <2>3. QED
    BY <1>4, <2>1, <2>2, Types DEF TypeOK, Select, MainLabel
<1>5. CASE Dispatch
  <2>1. PICK f \in Fd :
          /\ keys' = [keys EXCEPT ![f] = {}]
          /\ \/ socket_map[f] = None /\ UNCHANGED <<pc, at, events>>
             \/ /\ socket_map[f] # None
                /\ at' = [at EXCEPT ![Main] = socket_map[f]]
                /\ events' = keys[f]
                /\ Goto(Main, "event")
    BY <1>5 DEF Dispatch
  <2>2. socket_map[f] \in Conn \cup {None} /\ keys[f] \subseteq Kind
    BY Types
  <2>3. pc' \in [Thread -> MainLabel \cup WorkLabel \cup {"idle"}]
    BY <2>1, Types DEF MainLabel
  <2>4. /\ at' \in [Thread -> Conn \cup {None}]
        /\ keys' \in [Fd -> SUBSET Kind]
        /\ events' \subseteq Kind
    BY <2>1, <2>2, Types DEF TypeOK
  <2>5. UNCHANGED <<number, fd, chunk, todo, incoming, tables, channel, client>>
    BY <1>5 DEF Dispatch
  <2>6. QED
    BY <2>3, <2>4, <2>5 DEF TypeOK
<1>6. CASE DispatchDone \/ WriteEvent
  <2>1. pc' \in [Thread -> MainLabel \cup WorkLabel \cup {"idle"}] /\ events' \subseteq Kind
    BY <1>6, Types DEF DispatchDone, WriteEvent, TypeOK, MainLabel, WorkLabel
  <2>2. UNCHANGED <<threads, todo, keys, incoming, tables, channel, client>>
    BY <1>6 DEF DispatchDone, WriteEvent
  <2>3. QED
    BY <2>1, <2>2 DEF TypeOK
<1>7. CASE EventDone
  <2>1. /\ at' \in [Thread -> Conn \cup {None}]
        /\ number' \in [Thread -> Nat]
        /\ fd' \in [Thread -> Fd \cup {None}]
    BY <1>7, Types, Dropped DEF EventDone
  <2>2. pc' \in [Thread -> MainLabel \cup WorkLabel \cup {"idle"}]
    BY <1>7, Types DEF EventDone, MainLabel
  <2>3. UNCHANGED <<chunk, poll, tables, channel, client>>
    BY <1>7 DEF EventDone
  <2>4. QED
    BY <2>1, <2>2, <2>3 DEF TypeOK
<1>8. QED
  BY <1>1, <1>2, <1>3, <1>4, <1>5, <1>6, <1>7

(* Where fastpoll goes, and that nobody else moves.                        *)
LEMMA PollMoves ==
    ASSUME Inv,
           \/ Snapshot \/ Scan \/ Register \/ Select \/ Dispatch
           \/ DispatchDone \/ WriteEvent \/ EventDone
    PROVE  /\ Moves(Main)
           /\ pc[Main] \in {"loop", "scan", "register", "dispatch", "event"}
           /\ UNCHANGED <<in_background, future>>
<1> USE DEF Goto, At, Moves, threads, poll, channel, client
<1>1. CASE Snapshot \/ Select \/ DispatchDone \/ WriteEvent
  <2>1. PICK label : pc' = [pc EXCEPT ![Main] = label]
    BY <1>1 DEF Snapshot, Select, DispatchDone, WriteEvent
  <2>2. UNCHANGED <<at, fd, in_background, future>>
    BY <1>1 DEF Snapshot, Select, DispatchDone, WriteEvent
  <2>3. QED
    BY <1>1, <2>1, <2>2, Types DEF Inv, Snapshot, Select, DispatchDone, WriteEvent
<1>2. CASE Scan
  BY <1>2, Types DEF Inv, Scan
<1>3. CASE Dispatch
  BY <1>3, Types DEF Inv, Dispatch
<1>4. CASE Register \/ EventDone
  <2>1. PICK label : pc' = [pc EXCEPT ![Main] = label]
    BY <1>4 DEF Register, EventDone
  <2>2. Drop(Main) /\ UNCHANGED <<in_background, future>>
    BY <1>4 DEF Register, EventDone
  <2>3. QED
    BY <1>4, <2>1, <2>2, Types, Dropped DEF Inv, Register, EventDone
<1>5. QED
  BY <1>1, <1>2, <1>3, <1>4

(* fastpoll takes a channel from its copy of the map, or from the map.     *)
LEMMA PollKeeps ==
    ASSUME Inv,
           \/ Snapshot \/ Scan \/ Register \/ Select \/ Dispatch
           \/ DispatchDone \/ WriteEvent \/ EventDone
    PROVE  Inv'
<1> USE DEF Goto, At, poll, threads
<1>1. TypeOK'
  BY PollTypes DEF Inv
<1>2. NoLostWakeup'
  BY PollMoves, Elsewhere, Types DEF Inv
<1>3. Moves(Main)
  BY PollMoves
<1>4. Located'
  <2>1. CASE Snapshot \/ Register \/ Select \/ DispatchDone \/ EventDone
    <3>1. pc'[Main] \in {"scan", "ended", "dead", "dispatch", "loop"}
      BY <2>1, Types DEF Inv, Snapshot, Register, Select, DispatchDone, EventDone
    <3>2. pc'[Main] \notin Busy \cup {"event", "register", "sleep3"}
      BY <3>1 DEF Busy, WorkLabel
    <3>3. QED
      BY <1>3, <3>2, MainLocated
  <2>2. CASE WriteEvent
    <3>1. pc'[Main] = "send1" /\ at' = at /\ pc[Main] = "event"
      BY <2>2, Types DEF Inv, WriteEvent
    <3>2. QED
      BY <1>3, <3>1, MainLocated DEF Inv, Located
  <2>3. CASE Scan
    <3>1. CASE UNCHANGED <<pc, fd, at>>
      BY <1>3, <2>3, <3>1, PollMoves, MainLocated DEF Inv, Located
    <3>2. CASE pc' # pc \/ fd' # fd \/ at' # at
      <4>1. PICK item \in todo :
              /\ at' = [at EXCEPT ![Main] = item[2]]
              /\ fd' = [fd EXCEPT ![Main] = item[1]]
              /\ pc' = [pc EXCEPT ![Main] = "register"]
        BY <2>3, <3>2 DEF Scan
      <4>2. item[1] \in Fd /\ item[2] \in Conn
        BY Types DEF Inv
      <4>3. pc'[Main] = "register" /\ at'[Main] \in Conn /\ fd'[Main] \in Fd
        BY <4>1, <4>2, Types DEF Inv
      <4>4. QED
        BY <1>3, <4>3, MainLocated
    <3>3. QED
      BY <3>1, <3>2
  <2>4. CASE Dispatch
    <3>1. CASE UNCHANGED <<pc, at>>
      <4>1. pc[Main] = "dispatch"
        BY <2>4 DEF Dispatch
      <4>2. pc[Main] \notin Busy \cup {"event", "register", "sleep3"}
        BY <4>1 DEF Busy, WorkLabel
      <4>3. QED
        BY <1>3, <3>1, <4>2, MainLocated
    <3>2. CASE pc' # pc \/ at' # at
      <4>1. PICK f \in Fd :
              /\ socket_map[f] # None
              /\ at' = [at EXCEPT ![Main] = socket_map[f]]
              /\ pc' = [pc EXCEPT ![Main] = "event"]
        BY <2>4, <3>2 DEF Dispatch
      <4>2. pc'[Main] = "event" /\ at'[Main] \in Conn
        BY <4>1, Types DEF Inv
      <4>3. QED
        BY <1>3, <4>2, MainLocated
    <3>3. QED
      BY <3>1, <3>2
  <2>5. QED
    BY <2>1, <2>2, <2>3, <2>4
<1>5. QED
  BY <1>1, <1>2, <1>4 DEF Inv

(* A step that moves no thread and neither puts a channel to sleep nor     *)
(* takes its future away.                                                  *)
LEMMA StillKeeps ==
    ASSUME Inv, UNCHANGED <<pc, fd, at, in_background, future>>
    PROVE  Located' /\ NoLostWakeup'
BY DEF Inv, Located, NoLostWakeup, WakePending, At

(* A new channel, or a listener that is gone, is no business of those that *)
(* sleep.                                                                  *)
LEMMA AcceptKeeps == ASSUME Inv, Accept \/ AcceptFails PROVE Inv'
<1>1. UNCHANGED <<pc, fd, at, in_background, future>>
  BY DEF Accept, AcceptFails, channel, threads
<1>2. TypeOK'
  <2>1. CASE Accept
    <3>1. PICK f \in Fd, c \in Conn :
            /\ peer' = [peer EXCEPT ![c] = "up"]
            /\ connected' = [connected EXCEPT ![c] = TRUE]
            /\ fileno' = [fileno EXCEPT ![c] = f]
            /\ open' = [open EXCEPT ![f] = c]
            /\ socket_map' = [socket_map EXCEPT ![f] = c]
      BY <2>1 DEF Accept
    <3>2. /\ UNCHANGED <<pc, threads, todo, keys, events, listening, in_background,
                         producer_fifo, future, inbox, requested, sent>>
          /\ incoming' = FALSE
      BY <2>1 DEF Accept
    <3>3. QED
      BY <3>1, <3>2 DEF Inv, TypeOK, threads
  <2>2. CASE AcceptFails
    BY <2>2 DEF Inv, TypeOK, AcceptFails, threads, channel, client
  <2>3. QED
    BY <2>1, <2>2
<1>3. QED
  BY <1>1, <1>2, StillKeeps DEF Inv

(* A read hands the channel over or closes it, and leaves the flags alone. *)
LEMMA ReadEventKeeps == ASSUME Inv, ReadEvent PROVE Inv'
<1> USE DEF Goto, At, tables, channel
<1>1. /\ at[Main] \in Conn /\ pc[Main] = "event"
      /\ UNCHANGED <<at, number, fd, todo, keys, incoming, tables, channel, peer, requested, sent>>
      /\ events' = events \ {"read"}
  BY DEF ReadEvent, Inv, Located
<1>2. PICK label \in {"event", "close1", "sleep1"} :
          pc' = [pc EXCEPT ![Main] = label]
  <2>1. pc = [pc EXCEPT ![Main] = "event"]
    BY <1>1, Types DEF Inv
  <2>2. QED
    BY <2>1 DEF ReadEvent
<1>3. chunk' \in Nat /\ inbox' \in [Conn -> Nat]
  <2>1. CASE UNCHANGED <<chunk, inbox>>
    BY <2>1, Types DEF Inv
  <2>2. CASE chunk' \in 1 .. inbox[at[Main]] /\ inbox' = [inbox EXCEPT ![at[Main]] = @ - chunk']
    BY <1>1, <2>2, Types DEF Inv
  <2>3. QED
    BY <2>1, <2>2 DEF ReadEvent
<1>4. pc' \in [Thread -> MainLabel \cup WorkLabel \cup {"idle"}]
  BY <1>2, Types DEF Inv, MainLabel, WorkLabel
<1>5. TypeOK'
  BY <1>1, <1>3, <1>4 DEF Inv, TypeOK
<1>6. Moves(Main) /\ pc'[Main] = label
  BY <1>1, <1>2, Types DEF Inv, Moves
<1>7. Located'
  BY <1>1, <1>6, MainLocated
<1>8. NoLostWakeup'
  BY <1>1, <1>6, Elsewhere, Types DEF Inv
<1>9. QED
  BY <1>5, <1>7, <1>8 DEF Inv

----------------------------------------------------------------------------
(* Sleeping and waking. *)

(* The futures of a channel, after a change of one of them.                *)
LEMMA FutureTypes ==
    ASSUME TypeOK, NEW c \in Conn, NEW state \in State
    PROVE  /\ [future EXCEPT ![c] = Append(@, state)] \in [Conn -> Seq(State)]
           /\ \A n \in DOMAIN future[c] :
                 /\ [future EXCEPT ![c] = [@ EXCEPT ![n] = state]] \in [Conn -> Seq(State)]
                 /\ [future[c] EXCEPT ![n] = state] # <<>>
                 /\ [future[c] EXCEPT ![n] = state][n] = state
                 /\ DOMAIN [future[c] EXCEPT ![n] = state] = DOMAIN future[c]
<1>1. future[c] \in Seq(State)
  BY Types
<1>2. ASSUME NEW n \in DOMAIN future[c]
      PROVE  /\ [future[c] EXCEPT ![n] = state] \in Seq(State)
             /\ [future[c] EXCEPT ![n] = state] # <<>>
             /\ [future[c] EXCEPT ![n] = state][n] = state
             /\ DOMAIN [future[c] EXCEPT ![n] = state] = DOMAIN future[c]
  <2>1. n \in 1 .. Len(future[c])
    BY <1>1
  <2>2. /\ [future[c] EXCEPT ![n] = state] \in Seq(State)
        /\ Len([future[c] EXCEPT ![n] = state]) = Len(future[c])
    BY <1>1, <2>1, ExceptSeq
  <2>3. [future[c] EXCEPT ![n] = state] # <<>>
    BY <1>1, <2>1, <2>2
  <2>4. QED
    BY <1>1, <2>2, <2>3
<1>3. Append(future[c], state) \in Seq(State)
  BY <1>1
<1>4. QED
  BY <1>2, <1>3, Types

(* The flag first, then the future, then the callback: at each point       *)
(* somebody is going to wake the channel.                                  *)
LEMMA SleepKeeps == ASSUME Inv, Sleep PROVE Inv'
<1> USE DEF Goto, At
<1> DEFINE c == at[Main]
           n == Len(future[c])
<1>1. /\ c \in Conn /\ c \in DOMAIN future
      /\ pc[Main] \in {"sleep1", "sleep2", "sleep3"}
      /\ UNCHANGED <<poll, tables, connected, producer_fifo, client>>
  <2>1. /\ pc[Main] \in {"sleep1", "sleep2", "sleep3"}
        /\ UNCHANGED <<poll, tables, connected, producer_fifo, client>>
    BY DEF Sleep
  <2>2. c \in Conn
    BY <2>1 DEF Inv, Located, Busy
  <2>3. QED
    BY <2>1, <2>2, Types DEF Inv
<1>2. future[c] \in Seq(State) /\ n \in Nat
  BY <1>1, Types DEF Inv
<1>3. CASE pc[Main] = "sleep1"
  <2>1. /\ in_background' = [in_background EXCEPT ![c] = TRUE]
        /\ pc' = [pc EXCEPT ![Main] = "sleep2"]
        /\ UNCHANGED <<threads, future>>
    BY <1>3 DEF Sleep
  <2>2. Moves(Main) /\ pc'[Main] = "sleep2" /\ at' = at
    BY <2>1, Types DEF Inv, Moves, threads
  <2>3. pc' \in [Thread -> MainLabel \cup WorkLabel \cup {"idle"}]
    BY <2>1, Types DEF Inv, MainLabel
  <2>4. in_background' \in [Conn -> BOOLEAN]
    BY <2>1, Types DEF Inv
  <2>5. TypeOK'
    BY <1>1, <2>1, <2>3, <2>4 DEF Inv, TypeOK, threads, poll, tables, client
  <2>6. Located'
    BY <1>1, <2>2, MainLocated
  <2>7. NoLostWakeup'
    <3> SUFFICES ASSUME NEW d \in Conn, in_background'[d] PROVE WakePending(d)'
      BY DEF NoLostWakeup
    <3>1. CASE d = c
      BY <2>2, <3>1 DEF WakePending
    <3>2. CASE d # c
      <4>1. WakePending(d)
        BY <2>1, <3>2, Types DEF Inv, NoLostWakeup
      <4>2. ASSUME NEW s \in Thread, pc[s] = "wake1", at[s] = d
            PROVE  pc'[s] = "wake1" /\ at'[s] = d
        BY <1>3, <2>2, <4>2 DEF Moves
      <4>3. QED
        BY <1>3, <2>1, <4>1, <4>2 DEF WakePending
    <3>3. QED
      BY <3>1, <3>2
  <2>8. QED
    BY <2>5, <2>6, <2>7 DEF Inv
<1>4. CASE pc[Main] = "sleep2"
  <2>1. /\ future' = [future EXCEPT ![c] = Append(@, "running")]
        /\ pc' = [pc EXCEPT ![Main] = "sleep3"]
        /\ UNCHANGED <<threads, in_background>>
    BY <1>4 DEF Sleep
  <2>2. Moves(Main) /\ pc'[Main] = "sleep3" /\ at' = at
    BY <2>1, Types DEF Inv, Moves, threads
  <2>3. /\ future'[c] = Append(future[c], "running")
        /\ \A d \in Conn : d # c => future'[d] = future[d]
    BY <1>1, <2>1, Types DEF Inv
  <2>4. /\ n + 1 \in DOMAIN future'[c] /\ future'[c][n + 1] = "running"
        /\ future'[c] # <<>>
        /\ \A i \in DOMAIN future[c] : i \in DOMAIN future'[c] /\ future'[c][i] = future[c][i]
    BY <1>2, <2>3
  <2>5. pc' \in [Thread -> MainLabel \cup WorkLabel \cup {"idle"}]
    BY <2>1, Types DEF Inv, MainLabel
  <2>6. future' \in [Conn -> Seq(State)]
    BY <1>1, <2>1, FutureTypes DEF Inv, State
  <2>7. TypeOK'
    BY <1>1, <2>1, <2>5, <2>6 DEF Inv, TypeOK, threads, poll, tables, client
  <2>8. Located'
    BY <1>1, <2>2, <2>4, MainLocated
  <2>9. NoLostWakeup'
    <3> SUFFICES ASSUME NEW d \in Conn, in_background'[d] PROVE WakePending(d)'
      BY DEF NoLostWakeup
    <3>1. CASE d = c
      BY <2>4, <3>1 DEF WakePending
    <3>2. CASE d # c
      <4>1. WakePending(d) /\ future'[d] = future[d]
        BY <2>1, <2>3, <3>2 DEF Inv, NoLostWakeup
      <4>2. ASSUME NEW s \in Thread, pc[s] = "wake1", at[s] = d
            PROVE  pc'[s] = "wake1" /\ at'[s] = d
        BY <1>4, <2>2, <4>2 DEF Moves
      <4>3. QED
        BY <3>2, <4>1, <4>2 DEF WakePending
    <3>3. QED
      BY <3>1, <3>2
  <2>10. QED
    BY <2>7, <2>8, <2>9 DEF Inv
<1>5. CASE pc[Main] = "sleep3"
  <2>1. n \in DOMAIN future[c]
    <3>1. future[c] # <<>>
      BY <1>5 DEF Inv, Located
    <3>2. QED
      BY <1>2, <3>1
  <2>2. in_background' = in_background
    BY <1>5 DEF Sleep
  <2>3. PICK state \in {"hooked", "done"} :
          /\ future' = [future EXCEPT ![c] = [@ EXCEPT ![n] = state]]
          /\ \/ state = "hooked" /\ Return(Main)
             \/ /\ state = "done"
                /\ number' = [number EXCEPT ![Main] = n]
                /\ pc' = [pc EXCEPT ![Main] = "wake1"]
                /\ UNCHANGED <<at, fd, chunk>>
    BY <1>5 DEF Sleep, Becomes
  <2>4. /\ pc' \in [Thread -> MainLabel \cup WorkLabel \cup {"idle"}]
        /\ at' \in [Thread -> Conn \cup {None}]
        /\ number' \in [Thread -> Nat]
        /\ fd' \in [Thread -> Fd \cup {None}]
        /\ chunk' \in Nat
        /\ Moves(Main)
        /\ at'[Main] = c
        /\ pc'[Main] \in {"sleep1", "event", "wake1"}
        /\ state = "done" => pc'[Main] = "wake1"
    <3>1. CASE Return(Main) /\ state = "hooked"
      BY <3>1, Returned, Types DEF Inv
    <3>2. CASE /\ state = "done"
               /\ number' = [number EXCEPT ![Main] = n]
               /\ pc' = [pc EXCEPT ![Main] = "wake1"]
               /\ UNCHANGED <<at, fd, chunk>>
      BY <1>2, <3>2, Types DEF Inv, Moves, WorkLabel
    <3>3. QED
      BY <2>3, <3>1, <3>2
  <2>5. future' \in [Conn -> Seq(State)]
    BY <1>1, <2>1, <2>3, FutureTypes DEF Inv, State
  <2>6. TypeOK'
    BY <1>1, <2>2, <2>4, <2>5 DEF Inv, TypeOK, poll, tables, client
  <2>7. Located'
    BY <1>1, <2>4, MainLocated
  <2>8. NoLostWakeup'
    <3> SUFFICES ASSUME NEW d \in Conn, in_background'[d] PROVE WakePending(d)'
      BY DEF NoLostWakeup
    <3>1. CASE d = c
      <4>1. future'[c] = [future[c] EXCEPT ![n] = state]
        BY <1>1, <2>3
      <4>2. n \in DOMAIN future'[c] /\ future'[c][n] = state
        BY <1>1, <2>1, <4>1, FutureTypes DEF Inv, State
      <4>3. QED
        BY <2>4, <3>1, <4>2, Types DEF Inv, WakePending
    <3>2. CASE d # c
      <4>1. WakePending(d) /\ future'[d] = future[d]
        BY <1>1, <2>2, <2>3, <3>2 DEF Inv, NoLostWakeup
      <4>2. ASSUME NEW s \in Thread, pc[s] = "wake1", at[s] = d
            PROVE  pc'[s] = "wake1" /\ at'[s] = d
        BY <1>5, <2>4, <4>2 DEF Moves
      <4>3. QED
        BY <1>5, <3>2, <4>1, <4>2 DEF WakePending
    <3>3. QED
      BY <3>1, <3>2
  <2>9. QED
    BY <2>6, <2>7, <2>8 DEF Inv
<1>6. QED
  BY <1>1, <1>3, <1>4, <1>5

(* A worker that is done with a message begins the callback, or leaves the *)
(* future for sleep to find.                                               *)
LEMMA FinishKeeps == ASSUME Inv, NEW w \in Workers, Finish(w) PROVE Inv'
<1>1. /\ pc[w] = "idle" /\ w \in Thread /\ w # Main
      /\ UNCHANGED <<fd, chunk, poll, tables, connected, in_background, producer_fifo, client>>
  BY Types DEF Finish, At, Inv
<1>a. PICK c \in Conn, n \in Nat :
        /\ n \in DOMAIN future[c]
        /\ \/ Becomes(c, n, "finished") /\ UNCHANGED <<pc, at, number>>
           \/ /\ Becomes(c, n, "done")
              /\ at' = [at EXCEPT ![w] = c]
              /\ number' = [number EXCEPT ![w] = n]
              /\ Goto(w, "wake1")
  <2>1. \A c \in Conn : DOMAIN future[c] \subseteq Nat
    BY Types DEF Inv
  <2>2. QED
    BY <2>1 DEF Finish
<1>2. PICK state \in {"finished", "done"} :
        /\ n \in DOMAIN future[c]
        /\ Becomes(c, n, state)
        /\ \/ state = "finished" /\ UNCHANGED <<pc, at, number>>
           \/ /\ state = "done"
              /\ at' = [at EXCEPT ![w] = c]
              /\ number' = [number EXCEPT ![w] = n]
              /\ pc' = [pc EXCEPT ![w] = "wake1"]
  BY <1>a DEF Goto
<1>3. future[c] \in Seq(State) /\ n \in Nat
  <2>1. future[c] \in Seq(State)
    BY Types DEF Inv
  <2>2. QED
    BY <1>a, <2>1
<1>4. /\ future' \in [Conn -> Seq(State)]
      /\ future'[c] = [future[c] EXCEPT ![n] = state]
      /\ future'[c] # <<>> /\ n \in DOMAIN future'[c] /\ future'[c][n] = state
      /\ \A d \in Conn : d # c => future'[d] = future[d]
      /\ \A m \in DOMAIN future[c] : m # n =>
             m \in DOMAIN future'[c] /\ future'[c][m] = future[c][m]
  <2>1. future' = [future EXCEPT ![c] = [@ EXCEPT ![n] = state]]
    BY <1>2 DEF Becomes
  <2>2. /\ future'[c] = [future[c] EXCEPT ![n] = state]
        /\ \A d \in Conn : d # c => future'[d] = future[d]
    BY <2>1, Types DEF Inv
  <2>3. QED
    BY <1>a, <2>1, <2>2, FutureTypes DEF Inv, State
<1>5. /\ pc' \in [Thread -> MainLabel \cup WorkLabel \cup {"idle"}]
      /\ at' \in [Thread -> Conn \cup {None}]
      /\ number' \in [Thread -> Nat]
      /\ Moves(w)
      /\ pc'[w] \in {"idle", "wake1"}
      /\ pc'[w] = "wake1" => at'[w] = c
      /\ state = "done" => pc'[w] = "wake1"
  <2>1. CASE state = "finished"
    BY <1>1, <1>2, <2>1, Types DEF Inv, Moves
  <2>2. CASE state = "done"
    <3>1. /\ at' = [at EXCEPT ![w] = c]
          /\ number' = [number EXCEPT ![w] = n]
          /\ pc' = [pc EXCEPT ![w] = "wake1"]
          /\ fd' = fd
      BY <1>1, <1>2, <2>2
    <3>2. QED
      BY <1>1, <1>3, <3>1, Types DEF Inv, Moves, WorkLabel
  <2>3. QED
    BY <2>1, <2>2
<1>6. TypeOK'
  BY <1>1, <1>4, <1>5 DEF Inv, TypeOK, poll, tables, client
<1>7. Located'
  BY <1>4, <1>5, WorkerLocated DEF WorkLabel
<1>8. NoLostWakeup'
  <2> SUFFICES ASSUME NEW d \in Conn, in_background[d] PROVE WakePending(d)'
    BY <1>1 DEF NoLostWakeup
  <2>1. WakePending(d)
    BY DEF Inv, NoLostWakeup
  <2>2. CASE \E m \in DOMAIN future[d] : future[d][m] # "done"
    <3>1. PICK m \in DOMAIN future[d] : future[d][m] # "done"
      BY <2>2
    <3>2. CASE d = c /\ m = n /\ state = "done"
      BY <1>1, <1>5, <3>2 DEF WakePending, At
    <3>3. CASE d = c /\ m = n /\ state = "finished"
      BY <1>4, <3>3 DEF WakePending
    <3>4. CASE d = c /\ m # n
      BY <1>4, <3>1, <3>4 DEF WakePending
    <3>5. CASE d # c
      BY <1>4, <3>1, <3>5 DEF WakePending
    <3>6. QED
      BY <1>2, <3>2, <3>3, <3>4, <3>5
  <2>3. CASE pc[Main] = "sleep2" /\ at[Main] = d
    BY <1>1, <1>5, <2>3, Types DEF Inv, WakePending, Moves
  <2>4. CASE \E s \in Thread : pc[s] = "wake1" /\ at[s] = d
    <3>1. PICK s \in Thread : pc[s] = "wake1" /\ at[s] = d
      BY <2>4
    <3>2. pc'[s] = "wake1" /\ at'[s] = d
      BY <1>1, <1>5, <3>1 DEF Moves
    <3>3. QED
      BY <3>2 DEF WakePending, At
  <2>5. QED
    BY <2>1, <2>2, <2>3, <2>4 DEF WakePending, At
<1>9. QED
  BY <1>6, <1>7, <1>8 DEF Inv

(* What the steps of a callback have in common. *)
LEMMA CallbackMoves ==
    ASSUME Inv, NEW t \in Thread, Callback(t)
    PROVE  /\ pc[t] \in WorkLabel /\ at[t] \in Conn
           /\ Moves(t)
           /\ pc' \in [Thread -> MainLabel \cup WorkLabel \cup {"idle"}]
           /\ at' \in [Thread -> Conn \cup {None}]
           /\ number' \in [Thread -> Nat]
           /\ fd' \in [Thread -> Fd \cup {None}]
           /\ chunk' \in Nat
           /\ pc'[t] \in (WorkLabel \ {"wake1"})
                         \cup IF t = Main THEN {"sleep1", "event"} ELSE {"idle"}
           /\ pc'[t] # "idle" => at'[t] = at[t]
           /\ at'[t] \in {at[t], None}
           /\ UNCHANGED <<poll, future, peer, inbox, requested, listening>>
<1> USE DEF Goto, At
<1>1. pc[t] \in WorkLabel
  BY DEF Callback, Wake, Push, SendHead, Send, SendDone, Close, DelChannel, CloseSocket, WorkLabel
<1>2. at[t] \in Conn
  BY <1>1, Types DEF Inv, Located, Busy
<1>3. UNCHANGED <<poll, future, peer, inbox, requested, listening>>
  <2>1. CASE Wake(t) \/ Push(t) \/ SendHead(t)
    BY <2>1 DEF Wake, Push, SendHead, tables, channel, client
  <2>2. CASE Send(t) \/ SendDone(t)
    BY <2>2 DEF Send, SendDone, tables, channel, client
  <2>3. CASE Close(t) \/ DelChannel(t) \/ CloseSocket(t)
    BY <2>3 DEF Close, DelChannel, CloseSocket, tables, channel, client
  <2>4. QED
    BY <2>1, <2>2, <2>3 DEF Callback
<1>4. CASE Return(t)
  <2>1. pc'[t] # "idle" => at'[t] = at[t]
    BY <1>4, Returned DEF Inv
  <2>2. QED
    BY <1>1, <1>2, <1>3, <1>4, <2>1, Returned DEF Inv
<1>5. CASE ~Return(t)
  <2>1. PICK label \in WorkLabel \ {"wake1"} : pc' = [pc EXCEPT ![t] = label]
    <3>1. CASE Wake(t) \/ Push(t) \/ SendHead(t)
      BY <1>5, <3>1 DEF Wake, Push, SendHead, WorkLabel
    <3>2. CASE Send(t) \/ SendDone(t)
      BY <1>5, <3>2 DEF Send, SendDone, WorkLabel
    <3>3. CASE Close(t) \/ DelChannel(t) \/ CloseSocket(t)
      BY <1>5, <3>3 DEF Close, DelChannel, CloseSocket, WorkLabel
    <3>4. QED
      BY <3>1, <3>2, <3>3 DEF Callback
  <2>2. /\ UNCHANGED <<at, chunk>>
        /\ number' \in [Thread -> Nat]
        /\ fd' \in [Thread -> Fd \cup {None}]
        /\ \A s \in Thread \ {t} : fd'[s] = fd[s]
    <3>1. CASE Wake(t) \/ Push(t) \/ Send(t) \/ SendDone(t) \/ DelChannel(t)
      <4>1. UNCHANGED threads
        BY <1>5, <3>1 DEF Wake, Push, Send, SendDone, DelChannel
      <4>2. QED
        BY <4>1, Types DEF Inv, threads
    <3>2. CASE SendHead(t)
      <4>1. /\ producer_fifo[at[t]] # <<>>
            /\ number' = [number EXCEPT ![t] = Head(producer_fifo[at[t]])]
            /\ UNCHANGED <<at, fd, chunk>>
        BY <1>5, <3>2 DEF SendHead
      <4>2. producer_fifo[at[t]] \in Seq(Nat)
        BY <1>2 DEF Inv, TypeOK
      <4>3. Head(producer_fifo[at[t]]) \in Nat
        BY <4>1, <4>2
      <4>4. QED
        BY <4>1, <4>3, Types DEF Inv
    <3>3. CASE Close(t)
      BY <1>2, <3>3, Types DEF Close, Inv
    <3>4. CASE CloseSocket(t)
      BY <1>5, <3>4 DEF CloseSocket
    <3>5. QED
      BY <3>1, <3>2, <3>3, <3>4 DEF Callback
  <2>3. /\ Moves(t) /\ pc'[t] = label
        /\ pc' \in [Thread -> MainLabel \cup WorkLabel \cup {"idle"}]
    BY <2>1, <2>2, Types DEF Inv, Moves
  <2>4. QED
    BY <1>1, <1>2, <1>3, <2>2, <2>3, Types DEF Inv
<1>6. QED
  BY <1>4, <1>5

(* Types through push and close, in either thread. *)
LEMMA CallbackTypes ==
    ASSUME Inv, NEW t \in Thread, Callback(t)
    PROVE  TypeOK'
<1>1. /\ at[t] \in Conn
      /\ pc' \in [Thread -> MainLabel \cup WorkLabel \cup {"idle"}]
      /\ at' \in [Thread -> Conn \cup {None}]
      /\ number' \in [Thread -> Nat]
      /\ fd' \in [Thread -> Fd \cup {None}]
      /\ chunk' \in Nat
      /\ UNCHANGED <<poll, future, peer, inbox, requested, listening>>
  BY CallbackMoves
<1>2. /\ producer_fifo[at[t]] \in Seq(Nat) /\ producer_fifo \in [Conn -> Seq(Nat)]
      /\ sent[at[t]] \in Seq(Nat) /\ sent \in [Conn -> Seq(Nat)]
      /\ number[t] \in Nat
  BY <1>1 DEF Inv, TypeOK
<1>3. sent' \in [Conn -> Seq(Nat)]
  <2>1. CASE Send(t) /\ sent' = [sent EXCEPT ![at[t]] = Append(@, number[t])]
    <3>1. Append(sent[at[t]], number[t]) \in Seq(Nat)
      BY <1>2
    <3>2. QED
      BY <1>2, <2>1, <3>1
  <2>2. CASE UNCHANGED sent
    BY <1>2, <2>2
  <2>3. CASE Wake(t) \/ Push(t) \/ SendHead(t) \/ SendDone(t)
    BY <2>2, <2>3 DEF Wake, Push, SendHead, SendDone, client
  <2>4. CASE Close(t) \/ DelChannel(t) \/ CloseSocket(t)
    BY <2>2, <2>4 DEF Close, DelChannel, CloseSocket, client
  <2>5. QED
    BY <2>1, <2>2, <2>3, <2>4 DEF Callback, Send
<1>4. producer_fifo' \in [Conn -> Seq(Nat)]
  <2>1. CASE UNCHANGED producer_fifo
    BY <1>2, <2>1
  <2>2. CASE Push(t)
    <3>1. Append(producer_fifo[at[t]], number[t]) \in Seq(Nat)
      BY <1>2
    <3>2. QED
      BY <1>2, <2>2, <3>1 DEF Push
  <2>3. CASE SendDone(t)
    <3>1. CASE Delete(at[t])
      <4>1. Tail(producer_fifo[at[t]]) \in Seq(Nat)
        BY <1>2, <3>1 DEF Delete
      <4>2. QED
        BY <1>2, <3>1, <4>1 DEF Delete
    <3>2. QED
      BY <2>1, <2>3, <3>1 DEF SendDone
  <2>4. CASE Wake(t) \/ SendHead(t) \/ Send(t)
    BY <2>1, <2>4 DEF Wake, SendHead, Send, channel
  <2>5. CASE Close(t) \/ DelChannel(t) \/ CloseSocket(t)
    BY <2>1, <2>5 DEF Close, DelChannel, CloseSocket, channel
  <2>6. QED
    BY <2>2, <2>3, <2>4, <2>5 DEF Callback
<1>5. /\ in_background' \in [Conn -> BOOLEAN]
      /\ connected' \in [Conn -> BOOLEAN]
      /\ socket_map' \in [Fd -> Conn \cup {None}]
      /\ open' \in [Fd -> Conn \cup {None}]
      /\ fileno' \in [Conn -> Fd \cup {None}]
  <2>1. CASE UNCHANGED <<in_background, connected, socket_map, open, fileno>>
    BY <2>1 DEF Inv, TypeOK
  <2>2. CASE Push(t) \/ SendHead(t) \/ Send(t) \/ SendDone(t)
    BY <2>1, <2>2 DEF Push, SendHead, Send, SendDone, tables, channel
  <2>3. CASE Wake(t)
    BY <2>3 DEF Wake, tables, Inv, TypeOK
  <2>4. CASE Close(t)
    BY <2>4 DEF Close, tables, Inv, TypeOK
  <2>5. CASE DelChannel(t)
    BY <2>5 DEF DelChannel, channel, Inv, TypeOK
  <2>6. CASE CloseSocket(t)
    BY <2>6 DEF CloseSocket, channel, Inv, TypeOK
  <2>7. QED
    BY <2>2, <2>3, <2>4, <2>5, <2>6 DEF Callback
<1>6. QED
  BY <1>1, <1>3, <1>4, <1>5 DEF Inv, TypeOK, poll

(* A callback is still a wake-up until it has reset the flag.              *)
LEMMA CallbackKeeps == ASSUME Inv, NEW t \in Thread, Callback(t) PROVE Inv'
<1>1. /\ pc[t] \in WorkLabel /\ at[t] \in Conn /\ Moves(t)
      /\ pc'[t] \in (WorkLabel \ {"wake1"})
                    \cup IF t = Main THEN {"sleep1", "event"} ELSE {"idle"}
      /\ pc'[t] # "idle" => at'[t] = at[t]
      /\ UNCHANGED future
  BY CallbackMoves
<1>2. Located'
  <2>1. CASE t = Main
    <3>1. pc'[Main] \notin {"register", "sleep3"} /\ at'[Main] \in Conn
      BY <1>1, <2>1 DEF WorkLabel
    <3>2. QED
      BY <1>1, <2>1, <3>1, MainLocated
  <2>2. CASE t # Main
    <3>1. t \in Workers /\ pc'[t] \in WorkLabel \cup {"idle"}
      BY <1>1, <2>2, Types DEF Inv
    <3>2. pc'[t] \in WorkLabel => at'[t] \in Conn
      BY <1>1 DEF WorkLabel
    <3>3. QED
      BY <1>1, <3>1, <3>2, WorkerLocated
  <2>3. QED
    BY <2>1, <2>2
<1>3. NoLostWakeup'
  <2>1. CASE Wake(t)
    <3>1. in_background' = [in_background EXCEPT ![at[t]] = FALSE]
      BY <2>1 DEF Wake
    <3> SUFFICES ASSUME NEW c \in Conn, in_background'[c] PROVE WakePending(c)'
      BY DEF NoLostWakeup
    <3>2. c # at[t] /\ in_background[c]
      BY <1>1, <3>1, Types DEF Inv
    <3>3. WakePending(c)
      BY <3>2 DEF Inv, NoLostWakeup
    <3>4. ASSUME NEW s \in Thread, at[s] = c PROVE pc'[s] = pc[s] /\ at'[s] = at[s]
      BY <1>1, <3>2, <3>4 DEF Moves
    <3>5. QED
      BY <1>1, <3>3, <3>4, Types DEF Inv, WakePending, At
  <2>2. CASE ~Wake(t)
    <3>1. pc[t] # "wake1" /\ UNCHANGED in_background
      BY <2>2 DEF Callback, Push, SendHead, Send, SendDone, Close, DelChannel,
         CloseSocket, channel, At
    <3>2. pc[t] # "sleep2"
      BY <1>1 DEF WorkLabel
    <3>3. QED
      BY <1>1, <3>1, <3>2, Elsewhere DEF Inv
  <2>3. QED
    BY <2>1, <2>2
<1>4. QED
  BY <1>2, <1>3, CallbackTypes DEF Inv

----------------------------------------------------------------------------

(* Clients touch neither threads nor flags.                                *)
LEMMA ClientKeeps == ASSUME Inv, NEW c \in Conn, Client(c) PROVE Inv'
<1>1. UNCHANGED <<pc, fd, at, in_background, future>>
  BY DEF Client, Connect, ClientSend, ClientReset, server, threads, channel
<1>2. /\ UNCHANGED <<server, sent>>
      /\ peer' \in [Conn -> {"none", "pending", "up", "reset"}]
      /\ inbox' \in [Conn -> Nat] /\ requested' \in [Conn -> Nat]
  <2>1. CASE Connect(c)
    BY <2>1 DEF Inv, TypeOK, Connect
  <2>2. CASE ClientSend(c)
    <3>1. UNCHANGED <<server, peer, sent>>
      BY <2>2 DEF ClientSend
    <3>2. inbox' \in [Conn -> Nat] /\ requested' \in [Conn -> Nat]
      BY <2>2 DEF Inv, TypeOK, ClientSend
    <3>3. QED
      BY <3>1, <3>2 DEF Inv, TypeOK
  <2>3. CASE ClientReset(c)
    BY <2>3 DEF Inv, TypeOK, ClientReset
  <2>4. QED
    BY <2>1, <2>2, <2>3 DEF Client
<1>3. TypeOK'
  BY <1>2 DEF Inv, TypeOK, server, threads, poll, tables, channel
<1>4. QED
  BY <1>1, <1>3, StillKeeps DEF Inv

(* Nothing changes, nothing is lost.                                       *)
LEMMA StutterKeeps == ASSUME Inv, UNCHANGED vars PROVE Inv'
<1>1. UNCHANGED <<pc, fd, at, in_background, future>>
  BY DEF vars, threads, channel
<1>2. TypeOK'
  BY DEF Inv, TypeOK, vars, threads, poll, tables, channel, client
<1>3. QED
  BY <1>1, <1>2, StillKeeps DEF Inv

(* Every step of every thread and client keeps the invariant.              *)
LEMMA NextInv == Inv /\ [Next]_vars => Inv'
<1> SUFFICES ASSUME Inv, [Next]_vars PROVE Inv'
  OBVIOUS
<1>1. CASE MainThread
  <2>1. Main \in Thread
    BY DEF Thread
  <2>2. QED
    BY <1>1, <2>1, PollKeeps, AcceptKeeps, ReadEventKeeps, SleepKeeps, CallbackKeeps
    DEF MainThread
<1>2. CASE \E w \in Workers : Worker(w)
  <2>1. PICK w \in Workers : Finish(w) \/ Callback(w)
    BY <1>2 DEF Worker
  <2>2. w \in Thread
    BY DEF Thread
  <2>3. QED
    BY <2>1, <2>2, FinishKeeps, CallbackKeeps
<1>3. CASE \E c \in Conn : Client(c)
  BY <1>3, ClientKeeps
<1>4. CASE UNCHANGED vars
  BY <1>4, StutterKeeps
<1>5. QED
  BY <1>1, <1>2, <1>3, <1>4 DEF Next, Rest

(* The invariant of the threads. *)
THEOREM InvHolds == Spec => []Inv
BY InitInv, NextInv, PTL DEF Spec

(* Types: threads, descriptors and channels refer to what they should.     *)
THEOREM TypeCorrect == Spec => []TypeOK
<1>1. Inv => TypeOK
  BY DEF Inv
<1>2. QED
  BY <1>1, InvHolds, PTL

(* A channel in the background is going to be woken (sleep, wake_data),    *)
(* however many there are, whichever thread of the pool finishes which     *)
(* message when, and whatever the clients do to the sockets.               *)
THEOREM NoLostWakeupHolds == Spec => []NoLostWakeup
<1>1. Inv => NoLostWakeup
  BY DEF Inv
<1>2. QED
  BY <1>1, InvHolds, PTL

----------------------------------------------------------------------------
(* Nothing is read of a channel that is in the background.                 *)

Accepted(c) == peer[c] \in {"up", "reset"}

(* A channel has at most one descriptor in socket_map, and none before it  *)
(* is accepted; what the snapshot of the map says is still so, or gone.    *)
Mapped ==
    /\ \A c \in Conn :
          ~Accepted(c) => ~in_background[c] /\ \A f \in Fd : socket_map[f] # c
    /\ \A f, g \in Fd : socket_map[f] = socket_map[g] /\ socket_map[f] # None => f = g
    /\ pc[Main] \in {"scan", "register"} =>
          \A item \in todo : socket_map[item[1]] \in {item[2], None}
    /\ pc[Main] = "register" => socket_map[fd[Main]] \in {at[Main], None}

(* Nothing is read of a sleeping channel: neither what is registered nor   *)
(* what select returned says so, and what is left of a key that put the    *)
(* channel to sleep is no read event.                                      *)
Deaf ==
    /\ \A c \in Conn : in_background[c] =>
          /\ \A f \in Fd : socket_map[f] = c => "read" \notin keys[f]
          /\ pc[Main] \in {"register", "event"} /\ at[Main] = c => "read" \notin events
    /\ pc[Main] \in Busy => "read" \notin events
    /\ pc[Main] \in Busy \cup {"event"} =>
          /\ Accepted(at[Main])
          /\ \A f \in Fd : socket_map[f] = at[Main] => keys[f] = {}

Quiet == Inv /\ Mapped /\ Deaf

(* It holds before anybody connects.                                       *)
LEMMA InitQuiet == Init => Quiet
<1> SUFFICES ASSUME Init PROVE Quiet
  OBVIOUS
<1>1. Inv
  BY InitInv
<1>2. pc[Main] = "loop"
  BY DEF Init, Thread
<1>3. Mapped
  BY <1>2, NoneAssumption DEF Init, Mapped
<1>4. Deaf
  BY <1>2 DEF Init, Deaf, Busy, WorkLabel
<1>5. QED
  BY <1>1, <1>3, <1>4 DEF Quiet

(* A step of another thread or of a client: the map loses entries, channels *)
(* wake up, and that is all the main thread may notice.                    *)
LEMMA OthersKeep ==
    ASSUME Quiet,
           pc'[Main] = pc[Main], fd'[Main] = fd[Main], at'[Main] = at[Main],
           UNCHANGED <<keys, events, todo>>,
           \A c \in Conn : in_background'[c] => in_background[c],
           \A f \in Fd : socket_map'[f] \in {socket_map[f], None},
           \A c \in Conn : Accepted(c) => Accepted(c)'
    PROVE  Mapped' /\ Deaf'
<1>1. Mapped'
  <2>1. \A c \in Conn :
          ~Accepted(c)' => ~in_background'[c] /\ \A f \in Fd : socket_map'[f] # c
    BY Types DEF Quiet, Inv, Mapped
  <2>2. \A f, g \in Fd : socket_map'[f] = socket_map'[g] /\ socket_map'[f] # None => f = g
    BY DEF Quiet, Mapped
  <2>3. pc[Main] \in {"scan", "register"} =>
          \A item \in todo : socket_map'[item[1]] \in {item[2], None}
    BY Types DEF Quiet, Inv, Mapped
  <2>4. pc[Main] = "register" => socket_map'[fd[Main]] \in {at[Main], None}
    BY DEF Quiet, Mapped, Inv, Located
  <2>5. QED
    BY <2>1, <2>2, <2>3, <2>4 DEF Mapped
<1>2. Deaf'
  <2>1. pc[Main] \in Busy \cup {"event"} => at[Main] \in Conn
    BY DEF Quiet, Inv, Located
  <2>2. \A f \in Fd, c \in Conn : socket_map'[f] = c => socket_map[f] = c
    BY Types DEF Quiet, Inv
  <2>3. \A c \in Conn : in_background'[c] =>
          /\ \A f \in Fd : socket_map'[f] = c => "read" \notin keys[f]
          /\ pc[Main] \in {"register", "event"} /\ at[Main] = c => "read" \notin events
    BY <2>2 DEF Quiet, Deaf
  <2>4. pc[Main] \in Busy \cup {"event"} =>
          /\ peer'[at[Main]] \in {"up", "reset"}
          /\ \A f \in Fd : socket_map'[f] = at[Main] => keys[f] = {}
    BY <2>1, <2>2 DEF Quiet, Deaf, Accepted
  <2>5. pc[Main] \in Busy => "read" \notin events
    BY DEF Quiet, Deaf
  <2>6. QED
    BY <2>3, <2>4, <2>5 DEF Deaf, Accepted
<1>3. QED
  BY <1>1, <1>2

----------------------------------------------------------------------------
(* fastpoll. *)

(* The main thread goes on in fastpoll with what it has registered, or     *)
(* less: the map and the flags are as before.                              *)
LEMMA PollGoes ==
    ASSUME Quiet,
           pc'[Main] \notin Busy \cup {"register", "event"},
           UNCHANGED <<in_background, socket_map, peer>>,
           pc'[Main] = "scan" => \A item \in todo' : socket_map[item[1]] \in {item[2], None},
           \A f \in Fd : keys'[f] \subseteq keys[f]
    PROVE  Mapped' /\ Deaf'
<1>1. Mapped'
  BY DEF Quiet, Mapped, Accepted
<1>2. \A c \in Conn : in_background[c] =>
          \A f \in Fd : socket_map[f] = c => "read" \notin keys'[f]
  BY DEF Quiet, Deaf
<1>3. QED
  BY <1>1, <1>2 DEF Deaf

(* The copy of the map is right when it is taken; what select returns is   *)
(* part of what was registered.                                            *)
LEMMA PollQuiet ==
    ASSUME Quiet, Snapshot \/ Select \/ DispatchDone \/ EventDone
    PROVE  Mapped' /\ Deaf'
<1> USE DEF At, Goto, poll, tables, channel, client
<1>1. pc'[Main] \in {"scan", "ended", "dispatch", "loop"}
  BY Types DEF Quiet, Inv, Snapshot, Select, DispatchDone, EventDone
<1>2. pc'[Main] \notin Busy \cup {"register", "event"}
  BY <1>1 DEF Busy, WorkLabel
<1>3. UNCHANGED <<in_background, socket_map, peer>>
  BY DEF Snapshot, Select, DispatchDone, EventDone
<1>4. \A f \in Fd : keys'[f] \subseteq keys[f]
  BY DEF Snapshot, Select, DispatchDone, EventDone, ReadyKeys
<1>5. pc'[Main] = "scan" => \A item \in todo' : socket_map[item[1]] \in {item[2], None}
  <2>1. CASE Snapshot
    BY <2>1, Types DEF Quiet, Inv, Snapshot
  <2>2. CASE Select \/ DispatchDone \/ EventDone
    BY <2>2, Types DEF Quiet, Inv, Select, DispatchDone, EventDone
  <2>3. QED
    BY <2>1, <2>2
<1>6. QED
  BY <1>2, <1>3, <1>4, <1>5, PollGoes

(* A channel is registered for what it is interested in, awake.            *)
LEMMA ScanQuiet == ASSUME Quiet, Scan PROVE Mapped' /\ Deaf'
<1> USE DEF At, Goto, tables, channel, client
<1>1. PICK item \in todo :
        /\ todo' = todo \ {item}
        /\ \/ Interest(item[2]) = {} /\ UNCHANGED <<pc, fd, at, events>>
           \/ /\ Interest(item[2]) # {}
              /\ events' = Interest(item[2])
              /\ at' = [at EXCEPT ![Main] = item[2]]
              /\ fd' = [fd EXCEPT ![Main] = item[1]]
              /\ pc' = [pc EXCEPT ![Main] = "register"]
  BY DEF Scan
<1>2. item[1] \in Fd /\ item[2] \in Conn /\ pc[Main] = "scan"
  BY Types DEF Quiet, Inv, Scan
<1>3. UNCHANGED <<keys, in_background, socket_map, peer>>
  BY DEF Scan
<1>4. CASE UNCHANGED <<pc, fd, at, events>>
  <2>1. Mapped'
    BY <1>1, <1>2, <1>3, <1>4 DEF Quiet, Mapped, Accepted
  <2>2. Deaf'
    BY <1>3, <1>4 DEF Quiet, Deaf, Accepted
  <2>3. QED
    BY <2>1, <2>2
<1>5. CASE /\ events' = Interest(item[2])
           /\ at' = [at EXCEPT ![Main] = item[2]]
           /\ fd' = [fd EXCEPT ![Main] = item[1]]
           /\ pc' = [pc EXCEPT ![Main] = "register"]
  <2>1. pc'[Main] = "register" /\ fd'[Main] = item[1] /\ at'[Main] = item[2]
    BY <1>5, Types DEF Quiet, Inv
  <2>2. Mapped'
    BY <1>1, <1>2, <1>3, <2>1 DEF Quiet, Mapped, Accepted
  <2>3. in_background[item[2]] => "read" \notin events'
    BY <1>5 DEF Interest
  <2>4. "register" \notin Busy \cup {"event"}
    BY DEF Busy, WorkLabel
  <2>5. Deaf'
    BY <1>3, <2>1, <2>3, <2>4 DEF Quiet, Deaf
  <2>6. QED
    BY <2>2, <2>5
<1>6. QED
  BY <1>1, <1>4, <1>5

(* What is registered is what the channel wanted, and it still does.       *)
LEMMA RegisterQuiet == ASSUME Quiet, Register PROVE Mapped' /\ Deaf'
<1> USE DEF At, Goto, tables, channel, client
<1>1. /\ pc'[Main] \in {"dead", "scan"} /\ pc[Main] = "register"
      /\ fd[Main] \in Fd
      /\ UNCHANGED <<todo, in_background, socket_map, peer>>
  BY Types DEF Register, Quiet, Inv, Located
<1>2. Mapped'
  BY <1>1 DEF Quiet, Mapped, Accepted
<1>3. Deaf'
  <2>1. \A c \in Conn : in_background[c] =>
            \A f \in Fd : socket_map[f] = c => "read" \notin keys'[f]
    <3> SUFFICES ASSUME NEW c \in Conn, in_background[c], NEW f \in Fd, socket_map[f] = c
                 PROVE  "read" \notin keys'[f]
      OBVIOUS
    <3>1. "read" \notin keys[f]
      BY DEF Quiet, Deaf
    <3>2. CASE f # fd[Main] \/ UNCHANGED keys
      BY <1>1, <3>1, <3>2, Types DEF Quiet, Inv, Register
    <3>3. CASE f = fd[Main] /\ keys' = [keys EXCEPT ![fd[Main]] = events]
      <4>1. c = at[Main]
        BY <1>1, <3>3, Types DEF Quiet, Inv, Mapped
      <4>2. "read" \notin events
        BY <1>1, <4>1 DEF Quiet, Deaf
      <4>3. QED
        BY <1>1, <3>3, <4>2, Types DEF Quiet, Inv
    <3>4. QED
      BY <3>2, <3>3 DEF Register
  <2>2. pc'[Main] \notin Busy \cup {"event", "register"}
    BY <1>1 DEF Busy, WorkLabel
  <2>3. QED
    BY <1>1, <2>1, <2>2 DEF Deaf
<1>4. QED
  BY <1>2, <1>3

(* One key, one channel: nothing else that select returned is this channel's. *)
LEMMA DispatchQuiet == ASSUME Quiet, Dispatch PROVE Mapped' /\ Deaf'
<1> USE DEF At, Goto, tables, channel, client
<1>1. PICK f \in Fd :
        /\ keys' = [keys EXCEPT ![f] = {}]
        /\ \/ socket_map[f] = None /\ UNCHANGED <<pc, at, events>>
           \/ /\ socket_map[f] # None
              /\ at' = [at EXCEPT ![Main] = socket_map[f]]
              /\ events' = keys[f]
              /\ pc' = [pc EXCEPT ![Main] = "event"]
  BY DEF Dispatch
<1>2. UNCHANGED <<in_background, socket_map, peer>> /\ pc[Main] = "dispatch"
  BY DEF Dispatch
<1>3. keys'[f] = {} /\ \A g \in Fd : g # f => keys'[g] = keys[g]
  BY <1>1, Types DEF Quiet, Inv
<1>4. \A c \in Conn : in_background[c] =>
          \A g \in Fd : socket_map[g] = c => "read" \notin keys'[g]
  BY <1>3 DEF Quiet, Deaf
<1>5. CASE UNCHANGED <<pc, at, events>>
  <2>1. "dispatch" \notin Busy \cup {"event", "register", "scan"}
    BY DEF Busy, WorkLabel
  <2>2. Mapped'
    BY <1>2, <1>5, <2>1 DEF Quiet, Mapped, Accepted
  <2>3. Deaf'
    BY <1>2, <1>4, <1>5, <2>1 DEF Deaf
  <2>4. QED
    BY <2>2, <2>3
<1>6. CASE /\ socket_map[f] # None
           /\ at' = [at EXCEPT ![Main] = socket_map[f]]
           /\ events' = keys[f]
           /\ pc' = [pc EXCEPT ![Main] = "event"]
  <2>1. pc'[Main] = "event" /\ at'[Main] = socket_map[f] /\ socket_map[f] \in Conn
    BY <1>6, Types DEF Quiet, Inv
  <2>2. Mapped'
    BY <1>2, <2>1 DEF Quiet, Mapped, Accepted
  <2>3. \A g \in Fd : socket_map[g] = socket_map[f] => keys'[g] = {}
    BY <1>3, <1>6 DEF Quiet, Mapped
  <2>4. in_background[socket_map[f]] => "read" \notin events'
    BY <1>6, <2>1 DEF Quiet, Deaf
  <2>5. peer[socket_map[f]] \in {"up", "reset"}
    BY <2>1 DEF Quiet, Mapped, Accepted
  <2>6. "event" \notin Busy
    BY DEF Busy, WorkLabel
  <2>7. Deaf'
    BY <1>2, <1>4, <2>1, <2>3, <2>4, <2>5, <2>6 DEF Deaf, Accepted
  <2>8. QED
    BY <2>2, <2>7
<1>7. QED
  BY <1>1, <1>5, <1>6

(* A new channel is awake, and no other entry of the map is its own.       *)
LEMMA AcceptQuiet == ASSUME Quiet, Accept \/ AcceptFails PROVE Mapped' /\ Deaf'
<1> USE DEF At, channel, client, threads
<1>1. /\ UNCHANGED <<pc, fd, at, todo, keys, events, in_background>>
      /\ pc[Main] = "dispatch"
  BY DEF Accept, AcceptFails
<1>2. "dispatch" \notin Busy \cup {"event", "register", "scan"}
  BY DEF Busy, WorkLabel
<1>3. CASE Accept
  <2>1. PICK f \in Fd, c \in Conn :
          /\ peer[c] = "pending"
          /\ peer' = [peer EXCEPT ![c] = "up"]
          /\ socket_map' = [socket_map EXCEPT ![f] = c]
    BY <1>3 DEF Accept
  <2>2. ~in_background[c] /\ \A g \in Fd : socket_map[g] # c
    BY <2>1 DEF Quiet, Mapped, Accepted
  <2>3. socket_map'[f] = c /\ \A g \in Fd : g # f => socket_map'[g] = socket_map[g]
    BY <2>1, Types DEF Quiet, Inv
  <2>4. \A d \in Conn : ~Accepted(d)' => d # c /\ ~Accepted(d)
    BY <2>1, Types DEF Quiet, Inv, Accepted
  <2>5. \A d \in Conn : ~Accepted(d)' =>
            ~in_background[d] /\ \A g \in Fd : socket_map'[g] # d
    BY <2>3, <2>4 DEF Quiet, Mapped
  <2>6. \A g, h \in Fd : socket_map'[g] = socket_map'[h] /\ socket_map'[g] # None => g = h
    BY <2>2, <2>3 DEF Quiet, Mapped
  <2>7. Mapped'
    BY <1>1, <1>2, <2>5, <2>6 DEF Mapped
  <2>8. Deaf'
    BY <1>1, <1>2, <2>2, <2>3 DEF Quiet, Deaf
  <2>9. QED
    BY <2>7, <2>8
<1>4. CASE AcceptFails
  <2>1. UNCHANGED <<socket_map, peer>>
    BY <1>4 DEF AcceptFails
  <2>2. QED
    BY <1>1, <2>1 DEF Quiet, Mapped, Deaf, Accepted
<1>5. QED
  BY <1>3, <1>4

(* A channel that is read is awake; a write event is no read event.        *)
LEMMA EventQuiet == ASSUME Quiet, ReadEvent \/ WriteEvent PROVE Mapped' /\ Deaf'
<1> USE DEF At, Goto, tables, channel, threads, client
<1>1. /\ pc[Main] = "event" /\ at[Main] \in Conn
      /\ "read" \notin events'
      /\ UNCHANGED <<fd, at, todo, keys, in_background, socket_map, peer>>
  <2>1. pc[Main] = "event"
    BY DEF ReadEvent, WriteEvent
  <2>2. at[Main] \in Conn
    BY <2>1 DEF Quiet, Inv, Located
  <2>3. CASE ReadEvent
    BY <2>1, <2>2, <2>3 DEF ReadEvent
  <2>4. CASE WriteEvent
    BY <2>1, <2>2, <2>4 DEF WriteEvent
  <2>5. QED
    BY <2>3, <2>4
<1>2. pc'[Main] \in {"close1", "sleep1", "event", "send1"}
  BY <1>1, Types DEF Quiet, Inv, ReadEvent, WriteEvent
<1>3. Mapped'
  BY <1>1, <1>2 DEF Quiet, Mapped, Accepted
<1>4. Accepted(at[Main]) /\ \A f \in Fd : socket_map[f] = at[Main] => keys[f] = {}
  BY <1>1 DEF Quiet, Deaf
<1>5. \A c \in Conn : in_background[c] =>
          \A f \in Fd : socket_map[f] = c => "read" \notin keys[f]
  BY DEF Quiet, Deaf
<1>6. Deaf'
  BY <1>1, <1>4, <1>5 DEF Deaf, Accepted
<1>7. QED
  BY <1>3, <1>6

----------------------------------------------------------------------------
(* Sleeping and waking. *)

(* A channel goes to sleep when its key has no read event left.            *)
LEMMA SleepQuiet == ASSUME Quiet, Sleep PROVE Mapped' /\ Deaf'
<1>1. /\ pc[Main] \in {"sleep1", "sleep2", "sleep3"} /\ at[Main] \in Conn
      /\ UNCHANGED <<todo, keys, events, socket_map, peer>>
  <2>1. /\ pc[Main] \in {"sleep1", "sleep2", "sleep3"}
        /\ UNCHANGED <<todo, keys, events, socket_map, peer>>
    BY DEF Sleep, At, tables, client, poll
  <2>2. QED
    BY <2>1 DEF Quiet, Inv, Located, Busy
<1>2. pc'[Main] \in {"sleep1", "sleep2", "sleep3", "event", "wake1"} /\ at'[Main] = at[Main]
  <2>1. CASE Return(Main)
    BY <2>1, Returned, Types DEF Quiet, Inv
  <2>2. CASE ~Return(Main)
    BY <2>2, Types DEF Quiet, Inv, Sleep, Goto, threads
  <2>3. QED
    BY <2>1, <2>2
<1>3. \A c \in Conn : c # at[Main] => in_background'[c] = in_background[c]
  BY <1>1, Types DEF Quiet, Inv, Sleep
<1>4. /\ "read" \notin events /\ Accepted(at[Main])
      /\ \A f \in Fd : socket_map[f] = at[Main] => keys[f] = {}
  BY <1>1 DEF Quiet, Deaf, Busy
<1>5. Mapped'
  BY <1>1, <1>2, <1>3, <1>4 DEF Quiet, Mapped, Accepted
<1>6. Deaf'
  <2>1. \A c \in Conn : in_background'[c] =>
            \A f \in Fd : socket_map[f] = c => "read" \notin keys[f]
    BY <1>3, <1>4 DEF Quiet, Deaf
  <2>2. QED
    BY <1>1, <1>2, <1>4, <2>1 DEF Deaf, Accepted
<1>7. QED
  BY <1>5, <1>6

(* A future that completes is no business of map and interest.             *)
LEMMA FinishQuiet ==
    ASSUME Quiet, NEW w \in Workers, Finish(w)
    PROVE  Mapped' /\ Deaf'
<1>1. w # Main /\ Main \in Thread
  BY Types DEF Quiet, Inv
<1>2. pc'[Main] = pc[Main] /\ at'[Main] = at[Main] /\ fd' = fd
  BY <1>1, Types DEF Quiet, Inv, Finish, Goto
<1>3. UNCHANGED <<keys, events, todo, in_background, socket_map, peer>>
  BY DEF Finish, poll, tables, client
<1>4. QED
  BY <1>2, <1>3, OthersKeep DEF Accepted

(* A callback only ever makes a channel listen again, or takes it out of   *)
(* the map.                                                                *)
LEMMA CallbackQuiet ==
    ASSUME Quiet, NEW t \in Thread, Callback(t)
    PROVE  Mapped' /\ Deaf'
<1>1. /\ pc[t] \in WorkLabel /\ at[t] \in Conn /\ Moves(t)
      /\ pc'[t] \in (WorkLabel \ {"wake1"})
                    \cup IF t = Main THEN {"sleep1", "event"} ELSE {"idle"}
      /\ pc'[t] # "idle" => at'[t] = at[t]
      /\ UNCHANGED <<keys, events, todo, peer>>
  BY CallbackMoves DEF Quiet, poll
<1>2. \A c \in Conn : in_background'[c] => in_background[c]
  <2>1. CASE Wake(t)
    BY <2>1, Types DEF Quiet, Inv, Wake
  <2>2. CASE ~Wake(t)
    BY <2>2 DEF Callback, Push, SendHead, Send, SendDone, Close, DelChannel, CloseSocket, channel
  <2>3. QED
    BY <2>1, <2>2
<1>3. \A f \in Fd : socket_map'[f] \in {socket_map[f], None}
  <2>1. CASE DelChannel(t)
    BY <2>1 DEF DelChannel
  <2>2. CASE ~DelChannel(t)
    BY <2>2 DEF Callback, Wake, Push, SendHead, Send, SendDone, Close, CloseSocket, tables
  <2>3. QED
    BY <2>1, <2>2
<1>4. \A c \in Conn : Accepted(c)' <=> Accepted(c)
  BY <1>1 DEF Accepted
<1>5. CASE t # Main
  <2>1. Main \in Thread \ {t}
    BY <1>5, Types DEF Quiet, Inv
  <2>2. pc'[Main] = pc[Main] /\ fd'[Main] = fd[Main] /\ at'[Main] = at[Main]
    BY <1>1, <2>1 DEF Moves
  <2>3. QED
    BY <1>1, <1>2, <1>3, <1>4, <2>2, OthersKeep
<1>6. CASE t = Main
  <2>1. /\ at[Main] \in Conn /\ pc[Main] \in Busy /\ at'[Main] = at[Main]
        /\ pc'[Main] \in Busy \cup {"event"}
        /\ pc'[Main] \notin {"scan", "register"}
    BY <1>1, <1>6 DEF Busy, WorkLabel
  <2>2. Mapped'
    <3>1. \A c \in Conn :
            ~Accepted(c)' => ~in_background'[c] /\ \A f \in Fd : socket_map'[f] # c
      BY <1>2, <1>3, <1>4, Types DEF Quiet, Inv, Mapped
    <3>2. \A f, g \in Fd : socket_map'[f] = socket_map'[g] /\ socket_map'[f] # None => f = g
      BY <1>3 DEF Quiet, Mapped
    <3>3. QED
      BY <2>1, <3>1, <3>2 DEF Mapped
  <2>3. Deaf'
    <3>1. \A f \in Fd, c \in Conn : socket_map'[f] = c => socket_map[f] = c
      BY <1>3, Types DEF Quiet, Inv
    <3>2. /\ "read" \notin events /\ Accepted(at[Main])
          /\ \A f \in Fd : socket_map'[f] = at[Main] => keys[f] = {}
      BY <2>1, <3>1 DEF Quiet, Deaf
    <3>3. \A c \in Conn : in_background'[c] =>
              \A f \in Fd : socket_map'[f] = c => "read" \notin keys[f]
      BY <1>2, <3>1 DEF Quiet, Deaf
    <3>4. QED
      BY <1>1, <2>1, <3>2, <3>3 DEF Deaf, Accepted
  <2>4. QED
    BY <2>2, <2>3
<1>7. QED
  BY <1>5, <1>6

(* Clients touch neither flags nor interest.                               *)
LEMMA ClientQuiet ==
    ASSUME Quiet, (\E c \in Conn : Client(c)) \/ UNCHANGED vars
    PROVE  Mapped' /\ Deaf'
<1>1. UNCHANGED <<pc, fd, at, keys, events, todo, in_background, socket_map>>
  BY DEF Client, Connect, ClientSend, ClientReset, server, vars, threads, poll, tables, channel
<1>2. \A c \in Conn : Accepted(c) => Accepted(c)'
  <2>1. CASE UNCHANGED peer
    BY <2>1 DEF Accepted
  <2>2. CASE \E c \in Conn : Connect(c) \/ ClientReset(c)
    BY <2>2, Types DEF Quiet, Inv, Accepted, Connect, ClientReset
  <2>3. QED
    BY <2>1, <2>2 DEF Client, ClientSend, vars, client
<1>3. QED
  BY <1>1, <1>2, OthersKeep

(* Every step of every thread and client keeps the invariant.              *)
LEMMA NextQuiet == Quiet /\ [Next]_vars => Quiet'
<1> SUFFICES ASSUME Quiet, [Next]_vars PROVE Quiet'
  OBVIOUS
<1>1. Inv'
  BY NextInv DEF Quiet
<1>2. CASE MainThread
  <2>1. Main \in Thread
    BY DEF Thread
  <2>2. QED
    BY <1>1, <1>2, <2>1, PollQuiet, ScanQuiet, RegisterQuiet, DispatchQuiet, AcceptQuiet,
       EventQuiet, SleepQuiet, CallbackQuiet DEF MainThread, Quiet
<1>3. CASE \E w \in Workers : Worker(w)
  <2>1. PICK w \in Workers : Finish(w) \/ Callback(w)
    BY <1>3 DEF Worker
  <2>2. w \in Thread
    BY DEF Thread
  <2>3. QED
    BY <1>1, <2>1, <2>2, FinishQuiet, CallbackQuiet DEF Quiet
<1>4. CASE (\E c \in Conn : Client(c)) \/ UNCHANGED vars
  BY <1>1, <1>4, ClientQuiet DEF Quiet
<1>5. QED
  BY <1>2, <1>3, <1>4 DEF Next, Rest

(* Only ReadEvent takes something from an inbox, and it reads a channel    *)
(* that is awake.                                                          *)
LEMMA ReadsAwake ==
    ASSUME Quiet, [Next]_vars, NEW c \in Conn, in_background[c]
    PROVE  inbox'[c] >= inbox[c]
<1>1. inbox \in [Conn -> Nat]
  BY Types DEF Quiet, Inv
<1>2. CASE UNCHANGED inbox
  BY <1>1, <1>2
<1>3. CASE ReadEvent
  <2>1. c # at[Main]
    BY <1>3 DEF ReadEvent, Quiet, Deaf, At
  <2>2. inbox' = inbox \/ inbox' = [inbox EXCEPT ![at[Main]] = @ - chunk']
    BY <1>3 DEF ReadEvent
  <2>3. inbox'[c] = inbox[c]
    BY <1>1, <2>1, <2>2
  <2>4. QED
    BY <1>1, <2>3
<1>4. CASE \E d \in Conn : ClientSend(d)
  BY <1>1, <1>4 DEF ClientSend
<1>5. CASE Callback(Main) \/ \E w \in Workers : Callback(w)
  <2>1. PICK t \in Thread : Callback(t)
    BY <1>5 DEF Thread
  <2>2. QED
    BY <1>2, <2>1, CallbackMoves DEF Quiet
<1>6. CASE MainThread /\ ~ReadEvent /\ ~Callback(Main)
  <2>1. UNCHANGED inbox
    BY <1>6 DEF MainThread, Snapshot, Scan, Register, Select, Dispatch, DispatchDone, Accept,
       AcceptFails, WriteEvent, EventDone, Sleep, client
  <2>2. QED
    BY <1>2, <2>1
<1>7. CASE (\E w \in Workers : Finish(w)) \/ \E d \in Conn : Connect(d) \/ ClientReset(d)
  <2>1. UNCHANGED inbox
    BY <1>7 DEF Finish, Connect, ClientReset, client
  <2>2. QED
    BY <1>2, <2>1
<1>8. QED
  BY <1>2, <1>3, <1>4, <1>5, <1>6, <1>7 DEF Next, Rest, Client, Worker, vars, client

(* Flags, map and interest fit together in every state of the threads.     *)
THEOREM QuietHolds == Spec => []Quiet
BY InitQuiet, NextQuiet, PTL DEF Spec

(* Nothing is read of a channel that is in the background (readable,       *)
(* sleep, fastpoll), even if the interest was registered, or reported by   *)
(* select, before the channel went there.                                  *)
THEOREM DeafInBackgroundHolds == Spec => DeafInBackground
<1>1. Quiet /\ [Next]_vars =>
          [\A c \in Conn : in_background[c] => inbox'[c] >= inbox[c]]_vars
  BY ReadsAwake
<1>2. QED
  BY <1>1, QuietHolds, PTL DEF Spec, DeafInBackground

----------------------------------------------------------------------------
(* What ends the loop.  An exception leaves it when a descriptor was       *)
(* closed between the copy of the map and its registration, and only a     *)
(* worker can close one there; without resets a worker closes nothing that *)
(* is open.                                                                *)

(* Clients that are not connected have neither message nor socket nor      *)
(* worker.                                                                 *)
Untouched ==
    \A c \in Conn : ~Accepted(c) =>
        /\ future[c] = <<>>
        /\ ~Alive(c)
        /\ \A w \in Workers : at[w] # c

(* What the map says of a channel is so.                                   *)
Mapping == \A f \in Fd, c \in Conn : socket_map[f] = c => open[f] = c /\ fileno[c] = f

(* A worker that closes a channel comes too late; the main thread takes    *)
(* the channel out of the map before it closes the socket.                 *)
Closing ==
    /\ \A w \in Workers : pc[w] \in {"close1", "close2", "close3"} => ~Alive(at[w])
    /\ pc[Main] = "close2" => \A f \in Fd : socket_map[f] = at[Main] => fd[Main] = f
    /\ pc[Main] = "close3" => \A f \in Fd : socket_map[f] # at[Main]

(* What is to be registered is open.                                       *)
Registrable ==
    /\ pc[Main] \in {"scan", "register"} => \A item \in todo : open[item[1]] # None
    /\ pc[Main] = "register" => open[fd[Main]] # None

Sound == Untouched /\ Mapping /\ Closing /\ Registrable /\ LoopAlive

(* It holds before anybody connects.                                       *)
LEMMA InitSound == Init => Sound
<1> SUFFICES ASSUME Init PROVE Sound
  OBVIOUS
<1>1. Main \in Thread /\ None \notin Conn /\ Workers \subseteq Thread /\ Main \notin Workers
  BY ThreadAssumption, NoneAssumption DEF Thread
<1>2. Untouched
  BY <1>1 DEF Init, Untouched, Alive
<1>3. Mapping /\ Closing
  BY <1>1 DEF Init, Mapping, Closing
<1>4. QED
  BY <1>1, <1>2, <1>3 DEF Init, Sound, Registrable, LoopAlive

(* A step of the main thread that leaves tables and clients alone, and     *)
(* does not lead where it closes or registers.                             *)
LEMMA MainGoesOn ==
    ASSUME Quiet, Sound, Moves(Main),
           UNCHANGED <<open, socket_map, fileno, peer>>,
           \A c \in Conn : ~Accepted(c) => future'[c] = future[c],
           pc'[Main] \notin {"close2", "close3", "scan", "register", "dead"}
    PROVE  Sound'
<1>1. \A w \in Workers : pc'[w] = pc[w] /\ at'[w] = at[w]
  BY Types DEF Quiet, Inv, Moves
<1>2. Untouched'
  BY <1>1 DEF Sound, Untouched, Accepted, Alive
<1>3. Mapping' /\ Closing'
  BY <1>1 DEF Sound, Mapping, Closing, Alive
<1>4. QED
  BY <1>2, <1>3 DEF Sound, Registrable, LoopAlive

(* The copy of the map, and what is registered of it.                      *)
LEMMA PollSound ==
    ASSUME Quiet, Sound, Snapshot \/ Scan \/ Register
    PROVE  Sound'
<1>1. UNCHANGED <<open, socket_map, fileno, peer, future>>
  BY DEF Snapshot, Scan, Register, tables, channel, client
<1>2. \A w \in Workers : pc'[w] = pc[w] /\ at'[w] = at[w]
  BY PollMoves, Types DEF Quiet, Inv, Moves
<1>3. Untouched' /\ Mapping'
  BY <1>1, <1>2 DEF Sound, Untouched, Accepted, Alive, Mapping
<1>4. CASE Snapshot
  <2>1. CASE pc'[Main] = "scan"
    <3>1. todo' = {<<f, socket_map[f]>> : f \in {g \in Fd : socket_map[g] # None}}
      BY <1>4, <2>1, Types DEF Quiet, Inv, Snapshot, Goto
    <3>2. \A item \in todo' : open[item[1]] # None
      BY <3>1, Types DEF Quiet, Inv, Sound, Mapping
    <3>3. Closing'
      BY <1>1, <1>2, <2>1 DEF Sound, Closing, Alive
    <3>4. QED
      BY <1>1, <1>3, <2>1, <3>2, <3>3 DEF Sound, Registrable, LoopAlive
  <2>2. CASE pc'[Main] # "scan"
    <3>1. pc'[Main] = "ended"
      BY <1>4, <2>2, Types DEF Quiet, Inv, Snapshot, Goto
    <3>2. QED
      BY <1>1, <3>1, PollMoves, MainGoesOn DEF Quiet
  <2>3. QED
    BY <2>1, <2>2
<1>5. CASE Scan
  <2>1. PICK item \in todo :
          /\ todo' = todo \ {item}
          /\ \/ UNCHANGED <<pc, fd>>
             \/ fd' = [fd EXCEPT ![Main] = item[1]] /\ pc' = [pc EXCEPT ![Main] = "register"]
    BY <1>5 DEF Scan, Goto
  <2>2. pc[Main] = "scan" /\ pc'[Main] \in {"scan", "register"}
    BY <1>5, <2>1, Types DEF Quiet, Inv, Scan, At
  <2>3. \A i \in todo : open[i[1]] # None
    BY <2>2 DEF Sound, Registrable
  <2>4. pc'[Main] = "register" => fd'[Main] = item[1]
    BY <2>1, <2>2, Types DEF Quiet, Inv
  <2>5. Registrable'
    BY <1>1, <2>1, <2>3, <2>4 DEF Registrable
  <2>6. Closing'
    BY <1>1, <1>2, <2>2 DEF Sound, Closing, Alive
  <2>7. QED
    BY <1>3, <2>2, <2>5, <2>6 DEF Sound, LoopAlive
<1>6. CASE Register
  <2>1. pc[Main] = "register"
    BY <1>6 DEF Register, At
  <2>2. open[fd[Main]] # None /\ UNCHANGED todo
    BY <1>6, <2>1 DEF Register, Sound, Registrable
  <2>3. pc'[Main] = "scan"
    BY <1>6, <2>2, Types DEF Quiet, Inv, Register, Goto
  <2>4. Registrable'
    BY <1>1, <2>1, <2>2, <2>3 DEF Sound, Registrable
  <2>5. Closing'
    BY <1>1, <1>2, <2>3 DEF Sound, Closing, Alive
  <2>6. QED
    BY <1>3, <2>3, <2>4, <2>5 DEF Sound, LoopAlive
<1>7. QED
  BY <1>4, <1>5, <1>6

(* select, and what it returned.                                           *)
LEMMA EventSound ==
    ASSUME Quiet, Sound,
           Select \/ Dispatch \/ DispatchDone \/ AcceptFails \/ ReadEvent
           \/ WriteEvent \/ EventDone
    PROVE  Sound'
<1>1. UNCHANGED <<open, socket_map, fileno, peer, future>>
  BY DEF Select, Dispatch, DispatchDone, AcceptFails, ReadEvent, WriteEvent, EventDone,
     tables, channel, client
<1>2. Moves(Main)
  <2>1. CASE AcceptFails
    BY <2>1 DEF AcceptFails, Moves, threads
  <2>2. CASE ReadEvent
    BY <2>2, Types DEF Quiet, Inv, ReadEvent, Moves, Goto
  <2>3. QED
    BY <2>1, <2>2, PollMoves DEF Quiet
<1>3. pc'[Main] \in {"dispatch", "event", "loop", "close1", "sleep1", "send1"}
  <2>1. CASE Select \/ DispatchDone \/ EventDone \/ WriteEvent
    BY <2>1, Types DEF Quiet, Inv, Select, DispatchDone, EventDone, WriteEvent, Goto
  <2>2. CASE Dispatch \/ AcceptFails \/ ReadEvent
    BY <2>2, Types DEF Quiet, Inv, Dispatch, AcceptFails, ReadEvent, Goto, At
  <2>3. QED
    BY <2>1, <2>2
<1>4. QED
  BY <1>1, <1>2, <1>3, MainGoesOn

(* A new channel has a descriptor of its own.                              *)
LEMMA AcceptSound == ASSUME Quiet, Sound, Accept PROVE Sound'
<1>1. PICK f \in Fd, c \in Conn :
        /\ open[f] = None
        /\ peer[c] = "pending"
        /\ peer' = [peer EXCEPT ![c] = "up"]
        /\ fileno' = [fileno EXCEPT ![c] = f]
        /\ open' = [open EXCEPT ![f] = c]
        /\ socket_map' = [socket_map EXCEPT ![f] = c]
  BY DEF Accept
<1>2. UNCHANGED <<pc, fd, at, todo, future>> /\ pc[Main] = "dispatch"
  BY DEF Accept, At, threads
<1>3. ~Alive(c) /\ \A w \in Workers : at[w] # c
  BY <1>1 DEF Sound, Untouched, Accepted
<1>4. \A d \in Conn : d # c => (Alive(d)' <=> Alive(d)) /\ peer'[d] = peer[d]
  BY <1>1, Types DEF Quiet, Inv, Alive
<1>5. Untouched'
  <2>1. peer'[c] = "up"
    BY <1>1, Types DEF Quiet, Inv
  <2>2. \A d \in Conn : ~Accepted(d)' => d # c /\ ~Accepted(d)
    BY <1>4, <2>1 DEF Accepted
  <2>3. QED
    BY <1>2, <1>4, <2>2 DEF Sound, Untouched
<1>6. Mapping'
  <2>1. \A g \in Fd : socket_map[g] # c
    BY <1>3 DEF Sound, Mapping, Alive
  <2>2. SUFFICES ASSUME NEW g \in Fd, NEW d \in Conn, socket_map'[g] = d
                 PROVE  open'[g] = d /\ fileno'[d] = g
    BY DEF Mapping
  <2>3. CASE g = f
    <3>1. d = c
      BY <1>1, <2>2, <2>3, Types DEF Quiet, Inv
    <3>2. QED
      BY <1>1, <2>3, <3>1, Types DEF Quiet, Inv
  <2>4. CASE g # f
    <3>1. socket_map[g] = d /\ d # c
      BY <1>1, <2>1, <2>2, <2>4, Types DEF Quiet, Inv
    <3>2. open[g] = d /\ fileno[d] = g
      BY <3>1 DEF Sound, Mapping
    <3>3. QED
      BY <1>1, <2>4, <3>1, <3>2, Types DEF Quiet, Inv
  <2>5. QED
    BY <2>3, <2>4
<1>7. Closing'
  <2>1. \A w \in Workers : pc[w] \in {"close1", "close2", "close3"} => at[w] \in Conn
    BY DEF Quiet, Inv, Located, WorkLabel
  <2>2. QED
    BY <1>2, <1>3, <1>4, <2>1 DEF Sound, Closing
<1>8. QED
  BY <1>2, <1>5, <1>6, <1>7 DEF Sound, Registrable, LoopAlive

(* A message that is handed over is that of an accepted client.            *)
LEMMA SleepSound == ASSUME Quiet, Sound, Sleep PROVE Sound'
<1>1. /\ pc[Main] \in {"sleep1", "sleep2", "sleep3"}
      /\ UNCHANGED <<open, socket_map, fileno, peer>>
  BY DEF Sleep, At, tables, client
<1>2. at[Main] \in Conn /\ Accepted(at[Main])
  BY <1>1 DEF Quiet, Inv, Located, Deaf, Busy
<1>3. \A c \in Conn : c # at[Main] => future'[c] = future[c]
  BY <1>2, Types DEF Quiet, Inv, Sleep, Becomes
<1>4. Moves(Main) /\ pc'[Main] \in {"sleep1", "sleep2", "sleep3", "event", "wake1"}
  <2>1. CASE Return(Main)
    BY <2>1, Returned, Types DEF Quiet, Inv
  <2>2. CASE ~Return(Main)
    BY <2>2, Types DEF Quiet, Inv, Sleep, Goto, Moves, threads
  <2>3. QED
    BY <2>1, <2>2
<1>5. QED
  BY <1>1, <1>2, <1>3, <1>4, MainGoesOn

(* What a worker does touches neither sockets nor clients, and takes       *)
(* nothing out of the map that is open.                                    *)
LEMMA WorkerGoesOn ==
    ASSUME Quiet, Sound, NEW w \in Workers, Moves(w),
           UNCHANGED <<open, peer, todo>>,
           \A c \in Conn : future[c] = <<>> => future'[c] = <<>>,
           at'[w] \in Conn => Accepted(at'[w]),
           \A f \in Fd, c \in Conn : socket_map'[f] = c => socket_map[f] = c /\ fileno'[c] = fileno[c],
           pc'[w] \in {"close1", "close2", "close3"} => ~ \E f \in Fd : open[f] = at'[w]
    PROVE  Sound'
<1>1. /\ \A v \in Workers \ {w} : pc'[v] = pc[v] /\ at'[v] = at[v]
      /\ pc'[Main] = pc[Main] /\ fd'[Main] = fd[Main] /\ at'[Main] = at[Main]
  BY Types DEF Quiet, Inv, Moves
<1>2. Untouched'
  BY <1>1 DEF Sound, Untouched, Accepted, Alive
<1>3. Mapping'
  BY DEF Sound, Mapping
<1>4. Closing'
  <2>1. pc[Main] \in {"close2", "close3"} => at[Main] \in Conn
    BY DEF Quiet, Inv, Located, Busy, WorkLabel
  <2>2. \A v \in Workers : pc'[v] \in {"close1", "close2", "close3"} => ~Alive(at[v])'
    <3> SUFFICES ASSUME NEW v \in Workers, pc'[v] \in {"close1", "close2", "close3"}
                 PROVE  ~ \E f \in Fd : open'[f] = at'[v]
      BY DEF Alive
    <3>1. CASE v = w
      BY <3>1
    <3>2. CASE v # w
      BY <1>1, <3>2 DEF Sound, Closing, Alive
    <3>3. QED
      BY <3>1, <3>2
  <2>3. QED
    BY <1>1, <2>1, <2>2 DEF Sound, Closing
<1>5. QED
  BY <1>1, <1>2, <1>3, <1>4 DEF Sound, Registrable, LoopAlive

(* The channel a worker is at has been accepted.                           *)
LEMMA WorkersAccepted ==
    ASSUME Quiet, Sound, NEW w \in Workers, at[w] \in Conn
    PROVE  Accepted(at[w])
BY DEF Sound, Untouched

(* A worker finds an open socket usable, so it never closes one.           *)
LEMMA WorkerSound ==
    ASSUME Quiet, Sound, ~Reset, NEW w \in Workers, Worker(w)
    PROVE  Sound'
<1>1. w \in Thread /\ w # Main
  BY Types DEF Quiet, Inv
<1>2. CASE Finish(w)
  <2>1. PICK c \in Conn : \E n \in DOMAIN future[c] :
          \/ Becomes(c, n, "finished") /\ UNCHANGED <<pc, at>>
          \/ /\ Becomes(c, n, "done")
             /\ at' = [at EXCEPT ![w] = c]
             /\ Goto(w, "wake1")
    BY <1>2 DEF Finish
  <2>2. future[c] # <<>> /\ future[c] \in Seq(State)
    BY <2>1, Types DEF Quiet, Inv
  <2>3. Accepted(c)
    BY <2>2 DEF Sound, Untouched
  <2>4. /\ UNCHANGED <<open, socket_map, fileno, peer, todo, fd>>
        /\ pc[w] = "idle"
    BY <1>2 DEF Finish, At, tables, client, poll
  <2>5. \A d \in Conn : d # c => future'[d] = future[d]
    BY <2>1, Types DEF Quiet, Inv, Becomes
  <2>6. Moves(w) /\ pc'[w] \in {"idle", "wake1"} /\ at'[w] \in {at[w], c}
    BY <1>1, <2>1, <2>4, Types DEF Quiet, Inv, Goto, Moves
  <2>7. at'[w] \in Conn => Accepted(at'[w])
    BY <2>3, <2>6, WorkersAccepted
  <2>8. QED
    BY <2>2, <2>4, <2>5, <2>6, <2>7, WorkerGoesOn
<1>3. CASE Callback(w)
  <2>1. /\ at[w] \in Conn /\ Moves(w) /\ at'[w] \in {at[w], None}
        /\ pc'[w] # "idle" => at'[w] = at[w]
        /\ UNCHANGED <<todo, future, peer>>
    BY <1>1, <1>3, CallbackMoves DEF Quiet, poll
  <2>2. Accepted(at[w]) /\ peer[at[w]] = "up"
    BY <2>1, WorkersAccepted DEF Accepted, Reset
  <2>3. at'[w] \in Conn => Accepted(at'[w])
    BY <2>1, <2>2, Types DEF Quiet, Inv
  <2>4. pc[w] \in {"close1", "close2", "close3"} => ~Alive(at[w])
    BY DEF Sound, Closing
  <2>5. pc'[w] \in {"close1", "close2", "close3"} => ~Alive(at[w])
    <3>1. CASE Wake(w) \/ Push(w) \/ SendHead(w)
      <4>1. pc'[w] \in {"wake2", "send1", "send2", "idle"}
        BY <1>1, <3>1, Types, Returned DEF Quiet, Inv, Wake, Push, SendHead, Goto
      <4>2. QED
        BY <4>1
    <3>2. CASE Send(w)
      BY <1>1, <2>2, <3>2, Types DEF Quiet, Inv, Send, Goto
    <3>3. CASE SendDone(w)
      <4>1. pc'[w] = "idle"
        BY <1>1, <3>3, Returned DEF Quiet, Inv, SendDone
      <4>2. QED
        BY <4>1
    <3>4. CASE Close(w) \/ DelChannel(w) \/ CloseSocket(w)
      BY <2>4, <3>4 DEF Close, DelChannel, CloseSocket, At
    <3>5. QED
      BY <1>3, <3>1, <3>2, <3>3, <3>4 DEF Callback
  <2>6. open' = open
    <3>1. CASE CloseSocket(w)
      <4>1. \A f \in Fd : open[f] # at[w]
        BY <2>4, <3>1 DEF CloseSocket, At, Alive
      <4>2. QED
        BY <3>1, <4>1, Types DEF Quiet, Inv, CloseSocket
    <3>2. CASE ~CloseSocket(w)
      BY <1>3, <3>2 DEF Callback, Wake, Push, SendHead, Send, SendDone, Close, DelChannel, tables
    <3>3. QED
      BY <3>1, <3>2
  <2>7. \A f \in Fd, c \in Conn :
          socket_map'[f] = c => socket_map[f] = c /\ fileno'[c] = fileno[c]
    <3>1. CASE DelChannel(w)
      <4>1. /\ ~Alive(at[w])
            /\ socket_map' = [f \in Fd |-> IF f = fd[w] THEN None ELSE socket_map[f]]
            /\ fileno' = [fileno EXCEPT ![at[w]] = None]
        BY <2>4, <3>1 DEF DelChannel, At
      <4>2. \A f \in Fd, c \in Conn : socket_map'[f] = c => socket_map[f] = c
        BY <4>1, Types DEF Quiet, Inv
      <4>3. \A f \in Fd : socket_map[f] # at[w]
        BY <2>1, <4>1 DEF Sound, Mapping, Alive
      <4>4. \A c \in Conn : c # at[w] => fileno'[c] = fileno[c]
        BY <4>1, Types DEF Quiet, Inv
      <4>5. QED
        BY <4>2, <4>3, <4>4
    <3>2. CASE ~DelChannel(w)
      BY <1>3, <3>2 DEF Callback, Wake, Push, SendHead, Send, SendDone, Close, CloseSocket, tables
    <3>3. QED
      BY <3>1, <3>2
  <2>8. pc'[w] \in {"close1", "close2", "close3"} => ~ \E f \in Fd : open[f] = at'[w]
    BY <2>1, <2>5 DEF Alive
  <2>9. QED
    BY <2>1, <2>3, <2>6, <2>7, <2>8, WorkerGoesOn
<1>4. QED
  BY <1>2, <1>3 DEF Worker

(* The main thread may close a channel, but then it has nothing in hand to *)
(* register.                                                               *)
LEMMA MainCallbackSound ==
    ASSUME Quiet, Sound, Callback(Main)
    PROVE  Sound'
<1>1. /\ pc[Main] \in WorkLabel /\ at[Main] \in Conn /\ Moves(Main)
      /\ pc'[Main] \in (WorkLabel \ {"wake1"}) \cup {"sleep1", "event"}
      /\ at'[Main] = at[Main]
      /\ UNCHANGED <<todo, future, peer>>
      /\ Main \in Thread
  <2>1. Main \in Thread
    BY Types DEF Quiet, Inv
  <2>2. pc'[Main] # "idle"
    BY <2>1, CallbackMoves DEF Quiet, WorkLabel
  <2>3. QED
    BY <2>1, <2>2, CallbackMoves DEF Quiet, poll
<1>2. \A w \in Workers : pc'[w] = pc[w] /\ at'[w] = at[w]
  BY <1>1, Types DEF Quiet, Inv, Moves
<1>3. \A w \in Workers : pc[w] \in {"close1", "close2", "close3"} => at[w] \in Conn
  BY DEF Quiet, Inv, Located, WorkLabel
<1>4. CASE Wake(Main) \/ Push(Main) \/ SendHead(Main) \/ SendDone(Main) \/ Send(Main)
  <2>1. pc'[Main] \in {"wake2", "send1", "send2", "send3", "close1", "event", "sleep1"}
    <3>1. CASE Return(Main)
      BY <1>1, <3>1, Returned DEF Quiet, Inv
    <3>2. CASE ~Return(Main)
      BY <1>4, <3>2, Types DEF Quiet, Inv, Wake, Push, SendHead, SendDone, Send, Goto
    <3>3. QED
      BY <3>1, <3>2
  <2>2. UNCHANGED <<open, socket_map, fileno>>
    BY <1>4 DEF Wake, Push, SendHead, SendDone, Send, tables
  <2>3. QED
    BY <1>1, <2>1, <2>2, MainGoesOn
<1>5. CASE Close(Main)
  <2>1. /\ UNCHANGED <<open, socket_map, fileno>>
        /\ pc'[Main] = "close2" /\ fd'[Main] = fileno[at[Main]]
    BY <1>5, Types DEF Quiet, Inv, Close, Goto, tables
  <2>2. \A f \in Fd : socket_map[f] = at[Main] => fd'[Main] = f
    BY <1>1, <2>1 DEF Sound, Mapping
  <2>3. Closing'
    BY <1>1, <1>2, <2>1, <2>2 DEF Sound, Closing, Alive
  <2>4. Untouched' /\ Mapping' /\ Registrable'
    BY <1>1, <1>2, <2>1 DEF Sound, Untouched, Accepted, Alive, Mapping, Registrable
  <2>5. QED
    BY <2>1, <2>3, <2>4 DEF Sound, LoopAlive
<1>6. CASE DelChannel(Main)
  <2>1. /\ UNCHANGED open
        /\ pc[Main] = "close2" /\ pc'[Main] = "close3"
        /\ socket_map' = [f \in Fd |-> IF f = fd[Main] THEN None ELSE socket_map[f]]
        /\ fileno' = [fileno EXCEPT ![at[Main]] = None]
    BY <1>6, Types DEF Quiet, Inv, DelChannel, Goto, At
  <2>2. \A f \in Fd : socket_map'[f] # at[Main]
    BY <1>1, <2>1, Types DEF Quiet, Inv, Sound, Closing
  <2>3. \A f \in Fd, d \in Conn : socket_map'[f] = d => socket_map[f] = d /\ d # at[Main]
    BY <2>1, <2>2, Types DEF Quiet, Inv
  <2>4. \A d \in Conn : d # at[Main] => fileno'[d] = fileno[d]
    BY <2>1, Types DEF Quiet, Inv
  <2>5. Mapping'
    BY <2>1, <2>3, <2>4 DEF Sound, Mapping
  <2>6. Closing'
    BY <1>1, <1>2, <2>1, <2>2 DEF Sound, Closing, Alive
  <2>7. Untouched' /\ Registrable'
    BY <1>1, <1>2, <2>1 DEF Sound, Untouched, Accepted, Alive, Registrable
  <2>8. QED
    BY <2>1, <2>5, <2>6, <2>7 DEF Sound, LoopAlive
<1>7. CASE CloseSocket(Main)
  <2>1. /\ UNCHANGED <<socket_map, fileno>>
        /\ pc[Main] = "close3" /\ Return(Main)
        /\ open' = [f \in Fd |-> IF open[f] = at[Main] THEN None ELSE open[f]]
    BY <1>7 DEF CloseSocket, At
  <2>2. pc'[Main] \in {"event", "sleep1"}
    BY <1>1, <2>1, Returned DEF Quiet, Inv
  <2>3. \A f \in Fd, d \in Conn : open'[f] = d <=> open[f] = d /\ d # at[Main]
    BY <1>1, <2>1, Types DEF Quiet, Inv
  <2>4. \A d \in Conn : Alive(d)' => Alive(d)
    BY <2>3 DEF Alive
  <2>5. Mapping'
    BY <2>1, <2>3 DEF Sound, Mapping, Closing
  <2>6. Closing'
    <3>1. \A w \in Workers : pc[w] \in {"close1", "close2", "close3"} =>
              ~ \E f \in Fd : open'[f] = at[w]
      BY <1>3, <2>3 DEF Sound, Closing, Alive
    <3>2. QED
      BY <1>2, <2>2, <3>1 DEF Closing, Alive
  <2>7. Untouched' /\ Registrable'
    BY <1>1, <1>2, <2>2, <2>4 DEF Sound, Untouched, Accepted, Registrable
  <2>8. QED
    BY <2>2, <2>5, <2>6, <2>7 DEF Sound, LoopAlive
<1>8. QED
  BY <1>4, <1>5, <1>6, <1>7 DEF Callback

(* Clients change nothing but their own side.                              *)
LEMMA ClientSound ==
    ASSUME Quiet, Sound, (\E c \in Conn : Client(c)) \/ UNCHANGED vars
    PROVE  Sound'
<1>1. UNCHANGED <<pc, fd, at, todo, future, open, socket_map, fileno>>
  BY DEF Client, Connect, ClientSend, ClientReset, server, vars, threads, poll, tables, channel
<1>2. \A c \in Conn : Accepted(c) => Accepted(c)'
  <2>1. CASE UNCHANGED peer
    BY <2>1 DEF Accepted
  <2>2. CASE \E c \in Conn : Connect(c) \/ ClientReset(c)
    BY <2>2, Types DEF Quiet, Inv, Accepted, Connect, ClientReset
  <2>3. QED
    BY <2>1, <2>2 DEF Client, ClientSend, vars, client
<1>3. Untouched' /\ Mapping' /\ Closing' /\ Registrable'
  BY <1>1, <1>2 DEF Sound, Untouched, Alive, Mapping, Closing, Registrable
<1>4. QED
  BY <1>1, <1>3 DEF Sound, LoopAlive

(* Every step keeps it, until a client resets its connection.              *)
LEMMA NextSound == Quiet /\ Sound /\ ~Reset /\ [Next]_vars => Sound'
<1> SUFFICES ASSUME Quiet, Sound, ~Reset, [Next]_vars PROVE Sound'
  OBVIOUS
<1>1. CASE MainThread
  BY <1>1, PollSound, EventSound, AcceptSound, SleepSound, MainCallbackSound DEF MainThread
<1>2. CASE \E w \in Workers : Worker(w)
  BY <1>2, WorkerSound
<1>3. CASE (\E c \in Conn : Client(c)) \/ UNCHANGED vars
  BY <1>3, ClientSound
<1>4. QED
  BY <1>1, <1>2, <1>3 DEF Next, Rest

(* A reset stays one.                                                      *)
LEMMA ResetStays == Quiet /\ Reset /\ [Next]_vars => Reset'
<1> SUFFICES ASSUME Quiet, Reset, [Next]_vars PROVE Reset'
  OBVIOUS
<1>1. PICK c \in Conn : peer[c] = "reset"
  BY DEF Reset
<1>2. CASE UNCHANGED peer
  BY <1>2 DEF Reset
<1>3. CASE Accept
  <2>1. peer'[c] = "reset"
    BY <1>1, <1>3 DEF Accept
  <2>2. QED
    BY <2>1 DEF Reset
<1>4. CASE MainThread /\ ~Accept /\ ~Callback(Main)
  BY <1>2, <1>4 DEF MainThread, Snapshot, Scan, Register, Select, Dispatch, DispatchDone,
     AcceptFails, ReadEvent, WriteEvent, EventDone, Sleep, client
<1>5. CASE Callback(Main) \/ \E w \in Workers : Callback(w)
  <2>1. PICK t \in Thread : Callback(t)
    BY <1>5 DEF Thread
  <2>2. QED
    BY <1>2, <2>1, CallbackMoves DEF Quiet
<1>6. CASE \E w \in Workers : Finish(w)
  BY <1>2, <1>6 DEF Finish, client
<1>7. CASE \E d \in Conn : Client(d)
  <2>1. PICK d \in Conn : Client(d)
    BY <1>7
  <2>2. peer'[c] = "reset"
    BY <1>1, <2>1, Types DEF Quiet, Inv, Client, Connect, ClientSend, ClientReset
  <2>3. QED
    BY <2>2 DEF Reset
<1>8. QED
  BY <1>2, <1>3, <1>4, <1>5, <1>6, <1>7 DEF Next, Rest, Worker, vars, client

(* An exception leaves the main loop only after a client has reset its     *)
(* connection, although workers and main thread send, close and take       *)
(* statuses out of the lists with no lock (fastpoll, initiate_send,        *)
(* close).  That a reset can end it shows the run loop_dies.               *)
THEOREM DiesOfResetsHolds == Spec => []DiesOfResets
<1> DEFINE SInv == Reset \/ Sound
<1>1. Init => SInv
  BY InitSound
<1>2. Quiet /\ SInv /\ [Next]_vars => SInv'
  BY NextSound, ResetStays
<1>3. SInv => DiesOfResets
  BY DEF Sound, DiesOfResets
<1>4. QED
  BY <1>1, <1>2, <1>3, QuietHolds, PTL DEF Spec

=============================================================================
