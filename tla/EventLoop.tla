----------------------------- MODULE EventLoop -----------------------------
(***************************************************************************)
(* The threads of EEH around its channels.  The main thread runs fastpoll  *)
(* (asyncore_selectors.py): it copies socket_map, registers what each      *)
(* channel is interested in, selects, dispatches.  A channel with a        *)
(* message hands it to the executor and goes to the background; the        *)
(* worker thread that finishes it calls wake_data, which works on the      *)
(* channel (and on the socket map, if it must close) with no lock, while   *)
(* the main thread goes on.                                                *)
(*                                                                         *)
(* A step is what Python does between two points where the other thread    *)
(* may see the difference.  SMTP is reduced to a client that sends         *)
(* messages and gets a status for each (SmtpChannel has the commands): a   *)
(* message is what found_terminator gives sleep, and a read may bring      *)
(* several.  A status is sent whole; the executor takes the messages in    *)
(* any order; listener and handshakes leave the file descriptors of the    *)
(* channels alone.                                                         *)
(***************************************************************************)
EXTENDS Naturals, Sequences

CONSTANTS
    Conn,         \* connections
    Main,         \* the main thread
    Workers,      \* the threads of the executor
    Fd,           \* file descriptors the process may use for channels
    None,         \* Python's None
    MaxMessages,  \* bound, for each client: its messages
    Ahead,        \* messages a client may have unanswered, 1 if it waits
    Resets        \* clients may reset their connection

ASSUME FdAssumption == Fd \subseteq Nat
ASSUME ThreadAssumption == Main \notin Workers
ASSUME NoneAssumption == None \notin Conn \cup Nat
ASSUME BoundAssumption == MaxMessages \in [Conn -> Nat] /\ Ahead \in Nat /\ Resets \in BOOLEAN

Thread == Workers \cup {Main}
Kind == {"read", "write"}

VARIABLES
    pc,             \* where each thread is
    at,             \* the channel each thread works on
    number,         \* and the message whose status it has in hand
    fd,             \* each thread's own copy of a file descriptor
    chunk,          \* messages the main thread has in ac_in_buffer
    todo,           \* rest of list(map.items())
    keys,           \* registered interest, then what select returned
    incoming,       \* select returned the listener too
    events,         \* rest of the key that is being dispatched
    socket_map, open,   \* descriptor to channel: asyncore's map, the kernel's
    fileno, connected, in_background, \* of each channel
    producer_fifo,  \* its statuses, as numbers of their messages
    future,         \* of each message it gave the executor
    listening,
    peer, inbox,    \* client, and how many of its messages are unread
    requested, sent \* messages a client sent, statuses it was sent

threads == <<at, number, fd, chunk>>
poll    == <<todo, keys, incoming, events>>
tables  == <<socket_map, open, fileno, listening>>
channel == <<connected, in_background, producer_fifo, future>>
client  == <<peer, inbox, requested, sent>>
vars    == <<pc, threads, poll, tables, channel, client>>

MainLabel == {"loop", "scan", "register", "dispatch", "event", "sleep1", "sleep2",
              "sleep3", "dead", "ended"}
WorkLabel == {"wake1", "wake2", "send1", "send2", "send3", "close1", "close2", "close3"}
State == {"running", "hooked", "finished", "done"}

TypeOK ==
    /\ pc \in [Thread -> MainLabel \cup WorkLabel \cup {"idle"}]
    /\ at \in [Thread -> Conn \cup {None}]
    /\ number \in [Thread -> Nat]
    /\ fd \in [Thread -> Fd \cup {None}]
    /\ chunk \in Nat
    /\ todo \subseteq Fd \X Conn
    /\ keys \in [Fd -> SUBSET Kind]
    /\ incoming \in BOOLEAN
    /\ events \subseteq Kind
    /\ socket_map \in [Fd -> Conn \cup {None}]
    /\ open \in [Fd -> Conn \cup {None}]
    /\ fileno \in [Conn -> Fd \cup {None}]
    /\ connected \in [Conn -> BOOLEAN]
    /\ in_background \in [Conn -> BOOLEAN]
    /\ producer_fifo \in [Conn -> Seq(Nat)]
    /\ future \in [Conn -> Seq(State)]
    /\ listening \in BOOLEAN
    /\ peer \in [Conn -> {"none", "pending", "up", "reset"}]
    /\ inbox \in [Conn -> Nat]
    /\ requested \in [Conn -> Nat]
    /\ sent \in [Conn -> Seq(Nat)]

Init ==
    /\ pc = [t \in Thread |-> IF t = Main THEN "loop" ELSE "idle"]
    /\ at = [t \in Thread |-> None]
    /\ number = [t \in Thread |-> 0]
    /\ fd = [t \in Thread |-> None]
    /\ chunk = 0
    /\ todo = {}
    /\ keys = [f \in Fd |-> {}]
    /\ incoming = FALSE
    /\ events = {}
    /\ socket_map = [f \in Fd |-> None]
    /\ open = [f \in Fd |-> None]
    /\ fileno = [c \in Conn |-> None]
    /\ connected = [c \in Conn |-> FALSE]
    /\ in_background = [c \in Conn |-> FALSE]
    /\ producer_fifo = [c \in Conn |-> <<>>]
    /\ future = [c \in Conn |-> <<>>]
    /\ listening = TRUE
    /\ peer = [c \in Conn |-> "none"]
    /\ inbox = [c \in Conn |-> 0]
    /\ requested = [c \in Conn |-> 0]
    /\ sent = [c \in Conn |-> <<>>]

----------------------------------------------------------------------------
(* Threads. *)

At(t, label) == pc[t] = label
Goto(t, label) == pc' = [pc EXCEPT ![t] = label]

\* The thread has nothing more in hand.
Drop(t) ==
    /\ at' = [at EXCEPT ![t] = None]
    /\ number' = [number EXCEPT ![t] = 0]
    /\ fd' = [fd EXCEPT ![t] = None]

\* Mutant: the count of messages left goes down after a write event too.
ReturnCounts(t) ==
    \/ t # Main /\ Goto(t, "idle") /\ Drop(t) /\ UNCHANGED chunk
    \/ /\ t = Main
       /\ Goto(t, IF chunk > 1 THEN "sleep1" ELSE "event")
       /\ chunk' = chunk - 1
       /\ number' = [number EXCEPT ![t] = 0]
       /\ fd' = [fd EXCEPT ![t] = None]
       /\ UNCHANGED at

\* A handler is through: a worker goes back to its pool, the main thread to
\* fastpoll, or to the next message it has in its buffer.
Return(t) ==
    \/ t # Main /\ Goto(t, "idle") /\ Drop(t) /\ UNCHANGED chunk
    \/ /\ t = Main
       /\ Goto(t, IF chunk > 1 THEN "sleep1" ELSE "event")
       /\ chunk' = IF chunk > 0 THEN chunk - 1 ELSE 0
       /\ number' = [number EXCEPT ![t] = 0]
       /\ fd' = [fd EXCEPT ![t] = None]
       /\ UNCHANGED at

\* The socket of c is not closed.
Alive(c) == \E f \in Fd : open[f] = c

----------------------------------------------------------------------------
(* fastpoll. *)

\* `while map`, then list(map.items()).
Snapshot ==
    /\ At(Main, "loop")
    /\ \/ /\ listening \/ \E f \in Fd : socket_map[f] # None
          /\ Goto(Main, "scan")
          /\ todo' = {<<f, socket_map[f]>> : f \in {g \in Fd : socket_map[g] # None}}
          /\ keys' = [f \in Fd |-> {}]
       \/ /\ ~listening /\ \A f \in Fd : socket_map[f] = None
          /\ Goto(Main, "ended")
          /\ UNCHANGED <<todo, keys>>
    /\ UNCHANGED <<threads, incoming, events, tables, channel, client>>

\* Mutant: the channel is readable in the background.
InterestAlways(c) ==
    {kind \in Kind : kind = "write" => producer_fifo[c] # <<>> \/ ~connected[c]}

\* readable() and writable() of a channel.
Interest(c) ==
    {kind \in Kind :
        /\ ~in_background[c]
        /\ kind = "write" => producer_fifo[c] # <<>> \/ ~connected[c]}

Scan ==
    /\ At(Main, "scan")
    /\ \E item \in todo :
        /\ todo' = todo \ {item}
        /\ \/ Interest(item[2]) = {} /\ UNCHANGED <<pc, fd, at, events>>
           \/ /\ Interest(item[2]) # {}
              /\ events' = Interest(item[2])
              /\ at' = [at EXCEPT ![Main] = item[2]]
              /\ fd' = [fd EXCEPT ![Main] = item[1]]
              /\ Goto(Main, "register")
    /\ UNCHANGED <<number, chunk, keys, incoming, tables, channel, client>>

\* selector.register: a descriptor that was closed raises OSError, which
\* nothing between here and main catches.
Register ==
    /\ At(Main, "register")
    /\ Drop(Main)
    /\ events' = {}
    /\ \/ open[fd[Main]] = None /\ Goto(Main, "dead") /\ UNCHANGED keys
       \/ /\ open[fd[Main]] # None
          /\ keys' = [keys EXCEPT ![fd[Main]] = events]
          /\ Goto(Main, "scan")
    /\ UNCHANGED <<chunk, todo, incoming, tables, channel, client>>

\* What the kernel reports of the registered interest.
ReadyKeys ==
    [f \in Fd |-> {kind \in keys[f] :
        /\ open[f] # None
        /\ kind = "read" => inbox[open[f]] > 0 \/ peer[open[f]] = "reset"}]


\* select returns with what is ready, after the timeout with nothing.
Select ==
    /\ At(Main, "scan")
    /\ todo = {}
    /\ incoming' = (listening /\ \E c \in Conn : peer[c] = "pending")
    /\ keys' = ReadyKeys
    /\ Goto(Main, "dispatch")
    /\ UNCHANGED <<threads, todo, events, tables, channel, client>>

\* map.get(key.fd): the entry may be gone, or another channel's by now.
Dispatch ==
    /\ At(Main, "dispatch")
    /\ \E f \in Fd :
        /\ keys[f] # {}
        /\ keys' = [keys EXCEPT ![f] = {}]
        /\ \/ socket_map[f] = None /\ UNCHANGED <<pc, at, events>>
           \/ /\ socket_map[f] # None
              /\ at' = [at EXCEPT ![Main] = socket_map[f]]
              /\ events' = keys[f]
              /\ Goto(Main, "event")
    /\ UNCHANGED <<number, fd, chunk, todo, incoming, tables, channel, client>>

DispatchDone ==
    /\ At(Main, "dispatch")
    /\ ~incoming /\ \A f \in Fd : keys[f] = {}
    /\ Goto(Main, "loop")
    /\ UNCHANGED <<threads, poll, tables, channel, client>>

\* handle_accepted: a channel on the lowest free descriptor.
Accept ==
    /\ At(Main, "dispatch")
    /\ incoming
    /\ incoming' = FALSE
    /\ \E f \in Fd, c \in Conn :
          /\ open[f] = None
          /\ \A g \in Fd : open[g] = None => f <= g
          /\ peer[c] = "pending"
          /\ peer' = [peer EXCEPT ![c] = "up"]
          /\ connected' = [connected EXCEPT ![c] = TRUE]
          /\ fileno' = [fileno EXCEPT ![c] = f]
          /\ open' = [open EXCEPT ![f] = c]
          /\ socket_map' = [socket_map EXCEPT ![f] = c]
    /\ UNCHANGED <<pc, threads, todo, keys, events, listening, in_background,
                   producer_fifo, future, inbox, requested, sent>>

\* accept raises (EMFILE when no descriptor is left, ENFILE, ENOBUFS):
\* handle_error closes the dispatcher, the listener.
AcceptFails ==
    /\ At(Main, "dispatch")
    /\ incoming
    /\ incoming' = FALSE
    /\ listening' = FALSE
    /\ UNCHANGED <<pc, threads, todo, keys, events, socket_map, open, fileno,
                   channel, client>>

\* handle_read_event: some messages, nothing yet, or an error of the socket.
ReadEvent ==
    /\ At(Main, "event")
    /\ "read" \in events
    /\ events' = events \ {"read"}
    /\ LET c == at[Main]
       IN  \/ /\ ~Alive(c) \/ peer[c] = "reset"
              /\ Goto(Main, "close1")
              /\ UNCHANGED <<chunk, inbox>>
           \/ /\ Alive(c) /\ peer[c] = "up" /\ inbox[c] > 0
              /\ chunk' \in 1 .. inbox[c]
              /\ inbox' = [inbox EXCEPT ![c] = @ - chunk']
              /\ Goto(Main, "sleep1")
           \/ /\ Alive(c) /\ peer[c] = "up" /\ inbox[c] = 0
              /\ UNCHANGED <<pc, chunk, inbox>>
    /\ UNCHANGED <<at, number, fd, todo, keys, incoming, tables, channel, peer, requested, sent>>

\* handle_write_event
WriteEvent ==
    /\ At(Main, "event")
    /\ events = {"write"}
    /\ events' = {}
    /\ Goto(Main, "send1")
    /\ UNCHANGED <<threads, todo, keys, incoming, tables, channel, client>>

EventDone ==
    /\ At(Main, "event")
    /\ events = {}
    /\ Goto(Main, "dispatch")
    /\ Drop(Main)
    /\ UNCHANGED <<chunk, poll, tables, channel, client>>

----------------------------------------------------------------------------
(* A message goes to the executor and comes back. *)

\* The future of a message changes.
Becomes(c, n, state) == future' = [future EXCEPT ![c] = [@ EXCEPT ![n] = state]]

\* Mutant: the flag is set when the future already has its callback.
SleepLate ==
    LET c == at[Main]
    IN  /\ \/ /\ At(Main, "sleep1")
              /\ Goto(Main, "sleep2")
              /\ UNCHANGED <<threads, in_background, future>>
           \/ /\ At(Main, "sleep2")
              /\ future' = [future EXCEPT ![c] = Append(@, "hooked")]
              /\ Goto(Main, "sleep3")
              /\ UNCHANGED <<threads, in_background>>
           \/ /\ At(Main, "sleep3")
              /\ in_background' = [in_background EXCEPT ![c] = TRUE]
              /\ Return(Main)
              /\ UNCHANGED future
        /\ UNCHANGED <<poll, tables, connected, producer_fifo, client>>

\* sleep: the flag, submit, add_done_callback.  A future that has completed
\* by then has its callback run here, in the main thread.
Sleep ==
    LET c == at[Main]
        n == Len(future[c])
    IN  /\ \/ /\ At(Main, "sleep1")
              /\ in_background' = [in_background EXCEPT ![c] = TRUE]
              /\ Goto(Main, "sleep2")
              /\ UNCHANGED <<threads, future>>
           \/ /\ At(Main, "sleep2")
              /\ future' = [future EXCEPT ![c] = Append(@, "running")]
              /\ Goto(Main, "sleep3")
              /\ UNCHANGED <<threads, in_background>>
           \/ /\ At(Main, "sleep3")
              /\ future[c][n] = "running"
              /\ Becomes(c, n, "hooked")
              /\ Return(Main)
              /\ UNCHANGED in_background
           \/ /\ At(Main, "sleep3")
              /\ future[c][n] = "finished"
              /\ Becomes(c, n, "done")
              /\ number' = [number EXCEPT ![Main] = n]
              /\ Goto(Main, "wake1")
              /\ UNCHANGED <<at, fd, chunk, in_background>>
        /\ UNCHANGED <<poll, tables, connected, producer_fifo, client>>

\* A thread of the pool is through with a process_message, and runs the
\* callback if there is one.
Finish(w) ==
    /\ At(w, "idle")
    /\ \E c \in Conn : \E n \in DOMAIN future[c] :
        \/ /\ future[c][n] = "running"
           /\ Becomes(c, n, "finished")
           /\ UNCHANGED <<pc, at, number>>
        \/ /\ future[c][n] = "hooked"
           /\ Becomes(c, n, "done")
           /\ at' = [at EXCEPT ![w] = c]
           /\ number' = [number EXCEPT ![w] = n]
           /\ Goto(w, "wake1")
    /\ UNCHANGED <<fd, chunk, poll, tables, connected, in_background, producer_fifo, client>>

\* wake_data up to the push.
Wake(t) ==
    /\ At(t, "wake1")
    /\ in_background' = [in_background EXCEPT ![at[t]] = FALSE]
    /\ Goto(t, "wake2")
    /\ UNCHANGED <<threads, poll, tables, connected, producer_fifo, future, client>>

\* push: append to producer_fifo ...
Push(t) ==
    /\ At(t, "wake2")
    /\ producer_fifo' = [producer_fifo EXCEPT ![at[t]] = Append(@, number[t])]
    /\ Goto(t, "send1")
    /\ UNCHANGED <<threads, poll, tables, connected, in_background, future, client>>

\* ... and initiate_send: look at the head,
SendHead(t) ==
    /\ At(t, "send1")
    /\ \/ /\ producer_fifo[at[t]] # <<>> /\ connected[at[t]]
          /\ number' = [number EXCEPT ![t] = Head(producer_fifo[at[t]])]
          /\ Goto(t, "send2")
          /\ UNCHANGED <<at, fd, chunk>>
       \/ /\ producer_fifo[at[t]] = <<>> \/ ~connected[at[t]]
          /\ Return(t)
    /\ UNCHANGED <<poll, tables, channel, client>>

\* send it,
Send(t) ==
    /\ At(t, "send2")
    /\ IF Alive(at[t]) /\ peer[at[t]] = "up"
       THEN /\ sent' = [sent EXCEPT ![at[t]] = Append(@, number[t])]
            /\ Goto(t, "send3")
       ELSE Goto(t, "close1") /\ UNCHANGED sent
    /\ UNCHANGED <<threads, poll, tables, channel, peer, inbox, requested>>

\* del producer_fifo[0]
Delete(c) ==
    /\ producer_fifo[c] # <<>>
    /\ producer_fifo' = [producer_fifo EXCEPT ![c] = Tail(@)]

\* Mutant: handle_error for the worker too.
SendDoneCloses(t) ==
    /\ At(t, "send3")
    /\ \/ Delete(at[t]) /\ Return(t)
       \/ /\ producer_fifo[at[t]] = <<>>
          /\ Goto(t, "close1")
          /\ UNCHANGED <<threads, producer_fifo>>
    /\ UNCHANGED <<poll, tables, connected, in_background, future, client>>

\* Out of the list with it.  Where another thread was faster, handle_error
\* closes the channel of a write event; add_done_callback and the worker drop
\* the IndexError of a callback.
SendDone(t) ==
    /\ At(t, "send3")
    /\ \/ Delete(at[t]) /\ Return(t)
       \/ /\ producer_fifo[at[t]] = <<>>
          /\ t = Main /\ chunk = 0
          /\ Goto(t, "close1")
          /\ UNCHANGED <<threads, producer_fifo>>
       \/ /\ producer_fifo[at[t]] = <<>>
          /\ t # Main \/ chunk > 0
          /\ Return(t)
          /\ UNCHANGED producer_fifo
    /\ UNCHANGED <<poll, tables, connected, in_background, future, client>>

\* close, step by step: connected and the descriptor,
Close(t) ==
    /\ At(t, "close1")
    /\ connected' = [connected EXCEPT ![at[t]] = FALSE]
    /\ fd' = [fd EXCEPT ![t] = fileno[at[t]]]
    /\ Goto(t, "close2")
    /\ UNCHANGED <<at, number, chunk, poll, tables, in_background, producer_fifo, future, client>>

\* the entry of the map, whoever's it is by now,
DelChannel(t) ==
    /\ At(t, "close2")
    /\ socket_map' = [f \in Fd |-> IF f = fd[t] THEN None ELSE socket_map[f]]
    /\ fileno' = [fileno EXCEPT ![at[t]] = None]
    /\ Goto(t, "close3")
    /\ UNCHANGED <<threads, poll, open, listening, channel, client>>

\* the socket.
CloseSocket(t) ==
    /\ At(t, "close3")
    /\ open' = [f \in Fd |-> IF open[f] = at[t] THEN None ELSE open[f]]
    /\ Return(t)
    /\ UNCHANGED <<poll, socket_map, fileno, listening, channel, client>>

Callback(t) ==
    \/ Wake(t) \/ Push(t) \/ SendHead(t) \/ Send(t) \/ SendDone(t)
    \/ Close(t) \/ DelChannel(t) \/ CloseSocket(t)

MainThread ==
    \/ Snapshot \/ Scan \/ Register \/ Select \/ Dispatch \/ DispatchDone
    \/ Accept \/ AcceptFails \/ ReadEvent \/ WriteEvent \/ EventDone
    \/ Sleep \/ Callback(Main)

Worker(w) == Finish(w) \/ Callback(w)

----------------------------------------------------------------------------
(* Clients. *)

server == <<pc, threads, poll, tables, channel>>

Connect(c) ==
    /\ peer[c] = "none"
    /\ peer' = [peer EXCEPT ![c] = "pending"]
    /\ UNCHANGED <<server, inbox, requested, sent>>

\* The next message, at once or when there is a status for the last one.
ClientSend(c) ==
    /\ peer[c] = "up"
    /\ requested[c] < Len(sent[c]) + Ahead
    /\ requested[c] < MaxMessages[c]
    /\ requested' = [requested EXCEPT ![c] = @ + 1]
    /\ inbox' = [inbox EXCEPT ![c] = @ + 1]
    /\ UNCHANGED <<server, peer, sent>>

ClientReset(c) ==
    /\ Resets
    /\ peer[c] = "up"
    /\ peer' = [peer EXCEPT ![c] = "reset"]
    /\ UNCHANGED <<server, inbox, requested, sent>>

Client(c) == Connect(c) \/ ClientSend(c) \/ ClientReset(c)

\* The loop has ended and so have the workers.
Rest ==
    /\ pc[Main] \in {"dead", "ended"}
    /\ \A w \in Workers : At(w, "idle")
    /\ UNCHANGED vars

Next == MainThread \/ (\E w \in Workers : Worker(w)) \/ (\E c \in Conn : Client(c)) \/ Rest

Spec == Init /\ [][Next]_vars

\* Every thread keeps running, and process_message returns.
FairSpec == Spec /\ WF_vars(MainThread) /\ WF_vars(\E w \in Workers : Worker(w))

----------------------------------------------------------------------------
(* Properties. *)

\* Where a wake-up of c is still to come from: a future, sleep on its way to
\* it, or a callback that has begun.
WakePending(c) ==
    \/ \E n \in DOMAIN future[c] : future[c][n] # "done"
    \/ pc[Main] = "sleep2" /\ at[Main] = c
    \/ \E t \in Thread : At(t, "wake1") /\ at[t] = c

\* A channel in the background is going to be woken, even if its message is
\* done before sleep has added the callback, and if another of its messages
\* wakes it meanwhile (sleep, wake_data).
NoLostWakeup == \A c \in Conn : in_background[c] => WakePending(c)

\* A channel in the background is not read, although its interest was
\* registered, or reported by select, before it went there (readable, sleep).
\* That does not hold back a second message: it may be in the same chunk, and
\* the first of two that is done wakes the channel for both.
DeafInBackground ==
    [][\A c \in Conn : in_background[c] => inbox'[c] >= inbox[c]]_vars

\* Somebody has reset a connection.
Reset == \E c \in Conn : peer[c] = "reset"

\* The same status has been sent twice.
Twice(c) == \E i, j \in DOMAIN sent[c] : i # j /\ sent[c][i] = sent[c][j]

\* Every message gets a status of its own, unless two threads have sent the
\* same status or somebody has reset a connection: although wake-ups come
\* while the main thread selects without this channel, and although several
\* threads send on it and take statuses out of its list.
Answered ==
    \A c \in Conn : \A n \in 1 .. MaxMessages[c] :
        requested[c] >= n ~> (\E i \in DOMAIN sent[c] : sent[c][i] = n) \/ Twice(c) \/ Reset

\* No exception leaves the main loop: main catches KeyboardInterrupt and
\* nothing else.  It does not hold.
LoopAlive == pc[Main] # "dead"

\* An exception leaves the main loop only after a client has reset its
\* connection: without that no channel is closed under its feet, although
\* workers send and close with no lock (fastpoll, initiate_send, close).
DiesOfResets == ~LoopAlive => Reset

\* One status for a message.
OneStatus == \A c \in Conn : ~Twice(c)

=============================================================================
