# A verification of EEH (Easy Email Host)

TLA+ models of EEH 1.1.0, an SMTP server and mail delivery agent in Python,
what TLC found about them on small instances, and theorems about them that
TLAPS proves for instances of any size. `PROJECT.json` lists the runs, says for
each definition which lines of the source it stands for, and names for each
property a plausible bug of the code that the property would catch.

## The system

EEH is one process. Its **main thread** runs an event loop over all
connections; a **thread pool** (the executor) does what may take time. A client
speaks SMTP to a **channel**, one object per connection. When a message is
complete the channel hands it to the executor and is "in the background" until
the worker thread that has processed it calls the channel back.

| Component | Source | State | Operations | Modelled by |
|---|---|---|---|---|
| SMTP channel | `src/EEHlib/channel.py`, `_vendor/smtpd.py` | transaction (`smtp_state`, `mailfrom`, `rcpttos`, ...), greeting, buffers, `in_background` | a handler per command, `collect_incoming_data`, `found_terminator`, `sleep`, `wake_data` | `SmtpChannel`, `SmtpSession`, `MailTransaction` |
| STARTTLS handshake | `src/EEHlib/tls.py`, `channel.py` | which object owns the socket | `smtp_STARTTLS`, `do_handshake`, `replace_connection` | `SmtpChannel` (turns of the handshake are one step) |
| Event loop | `_vendor/asyncore_selectors.py` | `socket_map`, the selector | `loop`, `fastpoll`, accept, dispatch, close | `EventLoop` |
| Background execution | `channel.py` 27-36, 326-329; `EEH.py` 365-376 | the executor, its queue, futures | submit, `add_done_callback`, callback | `EventLoop` (a pool against the loop), `Workers` (its queue and what lies behind) |
| `process_message` | `src/EEHlib/__init__.py` | `internal_users`, `external_users`, counters | check, resolve, deliver, pass on, answer | `ProcessMessage`; its calls of drivers in `Workers` |
| List driver | `users/list.py` | two lists, time of the last update | `update_if_required`, `update`, `is_accepted_user` | `ListDriver` in `Workers` |
| LDAP driver | `users/ldap.py` | one expansion's list of entries | `resolve_user`, `_recursive_search` | `LdapDriver` |
| Delivery: filesystem | `delivery/filesystem.py` | a mailbox and its locks | `deliver` | `Mailbox` in `Workers` (mbox only) |
| Delivery: LMTP | `delivery/lmtp.py` | a session | `deliver` | `Lmtp` in `Workers` |
| Block lists | `spam/RBL.py` | none | `validate` | `BlockLists` on `Resolver` |
| Startup | `src/EEH.py`, `config.py`, `security.py` | listener, privileges | `main`, `drop_privileges` | `Startup`, without the parsing |
| Vendored `dns.resolver` | `_vendor/dns/resolver.py` | one query | `query`, `_compute_timeout` | `Resolver` |
| SPF | `spam/SPF.py` | none | `spf`, not called by the server | not modelled |
| click, ldap3, pyasn1, the rest of dns | `_vendor/` | | | third-party code, not modelled |

How they interact: the loop calls the channel's `readable`, `writable`,
`handle_read_event` and `handle_write_event`; the channel submits
`process_message` to the executor; `process_message` calls the user driver, the
delivery backend, DNS and remote mail exchangers; the future's callback
`wake_data` changes the channel, its output queue and, if sending fails, the
socket map - from the worker thread, with no lock.

What is hard about it: the callback runs while the main thread may be anywhere;
`readable()` keeps the loop from reading a sleeping channel, but not the channel
from going on with what it has read; every handler may refuse; a message has
many recipients of which some may fail; and STARTTLS changes the owner of a
socket in the middle of a conversation. `PROJECT.json` lists each hazard at its
line, with the property that watches it.

What makes each part correct:

- channel: each line of a client that waits is answered; transactions in order; what
  was accepted is what is handed over; a channel that sleeps wakes up; nothing of a
  transaction begun in clear text goes into TLS;
- event loop and threads: no exception ends it; no wake-up is lost; nothing is read of a
  channel in the background; every message is answered, once;
- `process_message`: 250 means everybody has the message; a refusal of the envelope
  means nobody has; no mailbox gets it twice; there is a status for every way through;
- list driver: nobody is let in whom every version of the files denies; what is
  written is in force some time later; LDAP driver: the expansion of nested groups
  ends and is exactly the list's; backends: True means stored, False means not
  stored; one writer to a mailbox; no secret in clear where encryption is enforced;
- pool: a message that does not hang itself is answered, whatever the others do;
- block lists: who is refused is listed, and the check keeps to its time;
- startup: what can be served is served; privileges are gone before the first byte
  of a client is read.

## The modules

**`SmtpChannel`** is one connection, line by line. A read hands a chunk of lines to
asynchat (`Recv`), the last of which may be only the beginning of one (`PART`); each turn
of `handle_read` over that chunk is a command handler (`Greet`, `Mail`, `Rset`, `Quit`,
`StartTls...`, `Noop`, `Bad`, `Garbage`), collected text (`Collect`), or the end-of-data
mark. The worker's `wake_data` takes no lock, so that a handler that tests the transaction
and then acts on the test is two steps with `handler` saying what has been found:
`RcptCheck` and `Rcpt`, `DataCheck` and `Data`. The mark takes several: it is found
(`Mark`), the two tests of `smtp_state` (`NoCommand`, `InData`, or `Confused`), the size
(`DataTooLarge`), the arguments (`MakeJob`), `Sleep`. `wake_data` is three: the flag
(`Wake`), the reset (`WakeReset`), the status (`WakePush`). Each may come between any two
of the others. `Push` has three outcomes, as in the code: sent, lost because the
connection is closing, in its handshake or gone, and in `WakePush` an answer that cannot
be encoded. Where main thread and worker send at the same time (`overlapped`), a status
may be there twice or not at all; how that comes is in `EventLoop`. `ahead` notes that a
message has ended while the one before it was still to be reset: both flags are history,
and only what a push may lose or double depends on one of them. What stays one step: an
assignment and the one next to it (`smtp_state` and the terminator, `mailfrom` and
`rcpttos` in the arguments, the five fields of a reset), and the handlers whose tests no
wake-up can falsify. Abstracted: a line is its verb, an argument and a set of parameters;
an error answer is `5xx`; the send buffer does not fill up; sizes are counted in lines;
`smtputf8` is on, as shipped. asynchat holds back a CR LF that may begin an end-of-data
mark: `Fuse` is what becomes of it when a wake-up has changed the state meanwhile. What
was sent of a line before the handshake stays in `received_lines` and becomes part of the
first line after it (`Complete`). The client sends whatever it likes.

**`SmtpSession`** EXTENDS it with the client the server was written for: one that waits
for each answer, as smtplib does, and may disappear at any moment. The client keeps a
ledger (`cfrom`, `cto`, `cbody`) of what the answers told it, and the properties compare
channel and ledger; once two threads have sent at the same time the client may hear
anything and is not followed further. **`MailTransaction`** is the abstract specification:
what a connection promises, without commands, buffers or threads. The refinement mapping
is `Transaction` in `SmtpSession`.

**`EventLoop`** takes the opposite cut: SMTP is messages and statuses, and the
threads are modelled step by step. `Snapshot`, `Scan`, `Register`, `Select`, `Dispatch`
are fastpoll; `Accept`, `ReadEvent`, `WriteEvent` the channel's events; `Sleep` is the
three statements of `sleep`. A read may bring several messages (`chunk`), which go to the
executor one behind the other; any idle thread of the pool may finish any of them
(`Finish`), in any order, and runs the callback at once or leaves it to
`add_done_callback`; so two threads may be in callbacks of one channel. `Wake`, `Push`,
`SendHead`, `Send`, `SendDone`, `Close`, `DelChannel`, `CloseSocket` are what any thread
does to a channel: looking at the head of `producer_fifo`, sending it and deleting what
is then the head are steps of their own, so that a status may be sent twice, or be deleted
by the thread that sent another. File descriptors are numbers that are used again, lowest
first. A status is sent in one piece; readable() with writable() are one step; the listener
is a flag.

**`ProcessMessage`** is one call of `process_message`: a step per turn of each loop. The
dict `internal_users` is a function, its iteration order is arbitrary, the user database
(`directory`) is an argument, and everything that is called may answer or raise as it
likes. A mailbox is a name and a domain, as in the path. Raising ends the call with 554
(`wake_data`).

**`Workers`** is what lies behind the executor: an unbounded queue, a pool of
threads, and for each message the calls of `process_message` for one recipient,
with the drivers themselves where `ProcessMessage` has arbitrary answers. It
composes three modules, each with the state of one driver and the steps one
thread makes in it; they share `pc`, `job` and `result` with `Workers`, which sends
a thread in at the first label and takes it back at the last.

- **`ListDriver`**: one object without a lock. `UpdateIfRequired`, `Stamp`,
  `ReadAllow`, `ReadDeny`, `SetWl`, `SetBl` are the statements of the update, `White`,
  `Member`, `Black` the looks of `is_accepted_user` at the lists; the administrator
  edits (`EditAllow`, `EditDeny`) between any two of them, and may take a file away.
- **`Mailbox`**: an mbox under Python's `mailbox` module, of which this is used: `lockf`
  belongs to the process, so that it keeps a mail reader out but not a second thread, and
  is given up when any of them unlocks or closes the file; the dotlock is made by link, by
  rename where links are not allowed (which overwrites) or not at all where the directory
  cannot be written; its temporary name is the same for all threads. A box that is not
  there is made by opening it for writing. A write that fails is cut off again
  (`WriteFails`), a flush that fails is not: its message stays in the buffer of the file
  until `CloseFile`, which writes it late or raises. A message is in the box whole or not
  at all. A dotlock may be there from a process that has crashed.
- **`Lmtp`**: the session, with each failure and what its handler makes of the
  exception: some join or format the exception's arguments and raise again
  (`StartTlsRaises`, `LoginFails`, `SendmailFails`). A server may be silent (`Hang`).

**`Delivery`** is the abstract specification of both backends: what
`process_message` may believe of `deliver` while it can be relied on, and that nothing is to
be believed after a fault. The mapping (`Stored`, which is what is in the box now, `Told`,
`Reliable`) is in `Workers`, at the end.

**`LdapDriver`** is one `resolve_user` on an arbitrary directory. The recursion of
`_recursive_search` is a stack of calls (`Member` pushes, `ReturnMails` pops) that
share one list of entries; every search may fail. The reference is `Expansion`, by
reachability in the membership graph.

**`BlockLists`** is `validate` on **`Resolver`**, one `Resolver.query` of the
vendored dnspython: names with search suffixes, rounds over the nameservers, TCP
after a truncated answer, the sleep between rounds, one lifetime for all. There is
no cache and SERVFAIL counts as broken, as is the default. Time passes in ticks.

**`Startup`** is `main`: each stage that may end the process, then `drop_privileges`
with the three ids the system keeps of a user, then the size of the executor (which exists
from the import of EEHlib on) and the loop.

`SmtpChannelProof`, `SmtpSessionProof`, `EventLoopProof`, `ProcessMessageProof`,
`LdapDriverProof`, `WorkersProof`, `BlockListsProof` and `StartupProof` hold the theorems.
`MC...` modules and `.cfg` files are the instances. Definitions whose comment begins with
"Mutant:" are deliberate bugs: `PROJECT.json` pairs each with the definition it would
replace and the property that notices.

## The runs

| Run | Instance | Shows |
|---|---|---|
| `channel` | any client, every command, beginnings of lines, bytes that are not UTF-8, STARTTLS offered, limit of one line; fair | `TypeOK`, `EnvelopeOrder`, `JobsComplete`, `BackgroundHasJob`, `HandshakeClean`, `WakesUp`, `ChunkEnds` |
| `session` | lock-step client, two addresses, two texts, two recipients, two lines | `EnvelopeIntegrity`, `InStep`, `NoLostReply`, `Answered`, `Closes`, `ImplementsTransaction` |
| `loop` | two connections on two descriptors, two threads; one client pipelines two messages, both may reset, accept may fail and take the listener away; fair | `TypeOK`, `NoLostWakeup`, `DiesOfResets`, `DeafInBackground`, `Answered` |
| `message` | one to three recipients of six kinds, three databases, two exchangers | `TypeOK`, `AcceptedDelivered`, `RefusedUndelivered`, `OnceEach`, `Returns` |
| `workers` | two threads, three connections; one of three deliveries; files edited twice, a mail reader, one session that hangs; fair | `TypeOK`, `Steady`, `OneWriter`, `Kept`, `Enforced`, `CatchesUp`, `Served`, `ImplementsDelivery` |
| `ldap` | every graph of three entries with at most two members each, one entry missing or not | `Expanded`, `Once`, `Ends` |
| `blocklists` | two lists, two nameservers, one search suffix | `Judged`, `InTime`, `Ends` |
| `startup` | every mix of settings on a good system, every system under good settings | `Ready`, `Starts` |

These runs each show that the code does not do what it says:

| Run | Violates | What the code does |
|---|---|---|
| `session_oversize` | `DataEnds` | after 552 the channel stays in DATA state; the client's next command is swallowed |
| `channel_race` | `JobsWhole` | `wake_data` of one message resets the transaction between the tests of `smtp_state` and the reading of the envelope: the next message is processed without sender and recipients |
| `loop_dies` | `LoopAlive` | a worker closes a descriptor between the snapshot and `selector.register`; OSError ends the process |
| `loop_twice` | `OneStatus` | worker and main thread send the same head of `producer_fifo` |

### Known behaviour that the properties allow for

Each of these is in a model, because the code does it, and the property next to it is
worded so that it holds:

- A client that does not wait may have two messages with the executor: the background flag
  stops reading, not the loop over what was read, and the wake-up of the first of the two
  makes the channel readable although the second is in work (`SmtpChannel`, `EventLoop`).
  Their answers come in either order. That its transactions may then lose their parts is the
  finding of `channel_race`; `EnvelopeOrder` and `JobsComplete` say that nothing else does it
  (`ahead`).
- Main thread and worker that send at the same time may send a status twice, the finding of
  `loop_twice`; one of them may also delete a status that the other has appended and nobody
  has sent. The properties of `SmtpSession` end there (`overlapped`), and `Answered` of
  `EventLoop` names it (`Twice`).
- The sent beginning of a line goes through STARTTLS and prefixes the first command after
  it, as do the greeting and messages still in work (`HandshakeClean` says what does not).
- A status that is not ASCII raises in the callback, and no answer is sent
  (`SmtpChannel.WakePush`; `NoLostReply` is checked for statuses that can be encoded).
- One name in two domains: one delivery, to the mailbox of the later recipient's domain, and
  250 for both (`ProcessMessage`). That contradicts "Hard fail on partial failure of delivery"
  (`src/src/EEHlib/__init__.py:184`); `AcceptedDelivered` says which of the two gets it, and
  `OnceEach` that the other one's box is not served by accident.
- A flush that fails is outside the `try` of Python's mailbox module that cuts the file:
  `deliver` says False and the message may be written all the same when the box is closed,
  with no lock (`Kept` and `ImplementsDelivery` name it: `buffered`).
- Two threads that both find no mailbox both make it, and the second empties what the
  first has delivered to, after its 250 (`Kept` and `ImplementsDelivery` name it: `created`).
- Where dotlocks cannot be made by link, two threads write to one mailbox (`OneWriter`,
  `Kept` and `ImplementsDelivery` say nothing there). A dotlock left by a crash refuses
  every later mail.
- An allow file that is replaced by an empty one between the two looks of
  `is_accepted_user` refuses users that both versions allow (`Steady`: `emptied`).
- A failed update is not repeated before the interval is over (`CatchesUp` waits).
- As many silent LMTP servers as threads stop all mail (`Served` is checked with fewer).
- A server that has taken a message and breaks off makes `deliver` raise: the sender
  hears 554 and tries again (`Delivery`: an exception says nothing).
- The block list's name is not absolute: a search suffix whose zone answers everything
  refuses everybody (`Judged` speaks of all names tried).
- `nan` as a size limit, and a Python without `ssl` even if STARTTLS is off, end the
  start (`Startup`).

### Bounds, and why they are enough

- `MaxBacklog` (`channel`, `channel_race`): how much may be under way when the client
  sends a line: lines unread, collected and buffered, recipients, answers unread and
  messages in work, together, line by line. With three of them before it (`< 4`) text or
  an end mark may still come, which gives a second message behind the first in one chunk:
  two messages in work at once, with each step of two wake-ups between any two steps of
  the handlers, as the counterexample of `channel_race` shows. Greeting, RSET, NOOP, QUIT,
  STARTTLS and garbage are sent with nothing else under way, so that they come first in a
  chunk, with anything behind them. What this run says of safety is proved without a
  bound.
- `MaxRcpt`, `MaxBody` (`session`): two, with two different values, so that order,
  loss and mixing show. The client may open transaction after transaction without
  a bound.
- `Conn`, `Workers`, `Fd`, `MaxMessages`, `Ahead` (`loop`): one client sends two messages
  without waiting, in one chunk or two, so that two threads of the pool and the main thread
  meet in its channel, and a wake-up is followed by a new sleep; the other only connects and
  may reset, which is enough for a descriptor that passes from one to the other and for
  entries of the socket map that are copied, registered and closed beside each other. Accept
  may fail whenever there is something to accept. `loop_dies` and `loop_twice` have one message
  for each client, which suffices for their counterexamples.
- `Messages`, `Directories`, `MaxExchanges` (`message`): three recipients allow a bad one
  before, between and after good ones; the directories have an alias, an unknown
  name, an empty list, and a list with members here, in the other domain and
  elsewhere (one twice); `CheckDomains` is on, as shipped (the
  theorems cover both); two exchangers give "the next one" and "no more".
- `Worker`, `Conn`, `MaxHung`, `MaxEdits` (`workers`): two threads for every pair of steps
  in one driver; three messages, so that one waits in the queue while two are in work; one
  session hangs, one less than there are threads; two edits, one of each file or there and
  back, between any steps of two readers. Each method varies its own environment only
  (`Init`, `Administrator`, `MailReader`): the drivers share no state, so that mixing them
  adds product states and nothing else; for the same reason a constraint
  (`BobWhereItMatters`, which only tells initial states apart: `deny` does not change
  there) has bob denied with dotlocks by rename and allowed with the others, instead of
  both with each. With the dummy two connections send for ever (`Regular`), which
  `CatchesUp` needs: somebody must ask.
- `Directories` (`ldap`): three entries give cycles of every length up to three, an entry
  reached by two ways, and a list in itself; the mails overlap. The theorems have no bound.
- `Lifetime`, `AttemptTime`, `Names`, `Lists` (`blocklists`): five ticks for attempts of two
  fit two full attempts and a short one, so that the limit falls into an attempt, a
  sleep and the change to TCP; two servers, of which one or both are broken.
- `startup`: settings and systems are varied apart from each other, since no stage looks at both
  but by passing or failing.
- Symmetry is not used: the passing run of `EventLoop`, the only one it would help, checks
  liveness.

### Fairness

- `SmtpChannel`, `SmtpSession`: weak fairness of the main loop's steps (it never
  blocks longer than its two-second time limit) and of `WakeData` (process_message
  returns or raises, and `wake_data` ends). Nothing is asked of the client.
- `EventLoop`: weak fairness of the main thread and of the pool (some thread of it goes on;
  messages hold no thread for ever, which is `Workers`' question). The time limit
  of select (`asyncore.loop(timeout=2)`) is in the model: a wake-up that comes
  while the loop selects without the channel is noticed at the next turn. The
  mutant without the time limit violates `Answered`.
- `ProcessMessage`: weak fairness of its steps: what it calls returns or raises.
  LMTP and SMTP connections have no time limit in the code, so this is an assumption
  about the backends; `Workers` does without it.
- `Workers`: weak fairness of each thread, which a thread that hangs does not enjoy
  (no step of it is enabled); of time (`Expire`); and, for `CatchesUp`, of the regular
  senders' `Submit`. Nothing is asked of the administrator, the mail reader or `Hang`.
- `LdapDriver`, `BlockLists`, `Startup`: weak fairness of the one thread. Searches answer or
  fail and the resolver's attempts have a time limit in the code.

## What is proved

Assumptions: only the named ASSUMEs of the modules (None is nothing else, domains and
foreign hosts are disjoint, bounds are numbers, ...), which TLC evaluates in the runs.

- **`SmtpChannelProof`**: `TypeCorrect` (`Spec => []TypeOK`), then `EnvelopeOrder`,
  `JobsComplete`, `BackgroundHasJob` and `HandshakeClean`. Their conjunction is not
  inductive. `Calm` is what a connection keeps to until a message ends before the one
  ahead of it is done (`ahead`): at most one reset is to come (`Len(jobs) + waking <= 1`),
  while it is the channel is in DATA state and inside no handler, and what a handler has
  found true (`handler`) is still true. With two resets to come it is not, which is the
  finding of `channel_race`. `TextKept` carries the text of a message through size limits
  and resets, `AtLine` ties a handler to its line, and `Clear` says that nothing is half
  done in a handshake.
- **`SmtpSessionProof`**: client and channel together, for every alphabet, size limit and
  number of recipients and lines, and every interleaving of network, main loop and
  wake-ups. The inductive invariant `SInv` says where the two may be: `Point` is a
  disjunction over the points of the dialogue (nothing under way, a command or an end mark
  on its way, the message in work, its callback before the push, the answer on the wire,
  the handshake, leaving, gone, out of step after 552), and each says what lies between
  client and channel (`Pending`: net, buffer and received lines, joined) and what the
  channel holds compared to the client's ledger. The properties alone are not inductive:
  that the message handed over is the client's needs that, at every moment of its
  transfer, what has been collected and what is still to come are together the client's
  text. `Tidy` adds what the size count and the deaf flag need, `Found` what a handler has
  found so far. All of it holds until main thread and worker send at the same time
  (`overlapped \/ SInv`): after that the client may have heard a status twice or not at
  all. `EnvelopeIntegrityHolds` needs nothing else. `InStepHolds` assumes that messages
  fit the limit (`Fits`: there is none, or `MaxBody` is within it); without it the
  property is false, which is what the run `session_oversize` shows. `NoLostReplyHolds`
  assumes besides that every status can be encoded (`"nonascii" \notin Outcomes`): a
  status that cannot be encoded raises in `push`, and its client waits for ever (listed
  above). `TransactionImplemented` is the safety half of the refinement: every step of a
  session is a step of `MailTransaction` or a stutter (`SessionAbstract`), for every limit
  and outcome; the fairness that `ImplementsTransaction` adds stays with the run.
  `SessionSafe` carries the channel's own invariants over to sessions.
- **`EventLoopProof`**: `TypeCorrect` and `NoLostWakeupHolds`, for any number of connections,
  messages, descriptors and threads of the pool, with resets. The invariant adds
  `Located`: the main thread has a channel in hand wherever it works on one, and
  workers only run callbacks. `NoLostWakeup` names the places where the
  wake-up may be - a future, `sleep` on its way, a callback that has begun -
  and is itself kept by every step, in either thread, also when another message of the
  channel has woken it meanwhile. `DeafInBackgroundHolds` is an action property. Its
  invariant `Quiet` adds to the above `Mapped` (a channel has one entry in the socket map, so
  that one select result concerns it) and `Deaf` (neither the registered interest, nor what
  select returned, nor the rest of the key being dispatched lets a sleeping channel be read).
  `DiesOfResetsHolds` says what ends the loop: if no client has reset its connection, nothing
  does. Its invariant `Sound` holds until somebody resets: the map tells the truth about
  descriptors (`Mapping`), a worker only ever closes a channel whose socket is closed already,
  and the main thread takes a channel out of the map before it closes it (`Closing`), so
  that what was copied from the map is still open when it is registered (`Registrable`). That a
  reset can end it is the run `loop_dies`.
- **`ProcessMessageProof`**: `TypeCorrect`, `AcceptedDeliveredHolds`,
  `RefusedUndeliveredHolds`. The invariant follows each recipient through the loops, with
  the domain that `internal_users` has for each name by then: to be resolved or resolved
  (`Undelivered`, `Placed`), then to come or served as long as nothing failed
  (`Delivering`), and what a status has promised (`Settled`). `OnceEachHolds` needs two
  parts more: the names in `internal_users` come from recipients (`Sourced`), and a
  mailbox that was served is behind the loop (`Distinct`).

- **`LdapDriverProof`**: `OnceHolds` and `ExpandedHolds`, for any directory with any cycles. The
  difficulty is that a call leaves out what another call has noted, so that no call's
  result is complete by itself. The invariant says that every entry noted is worked
  off (`Done`: its members are noted, its mails collected) or is the entry of a call
  under way (`Complete`); that such a call leaves nothing out but what it has still
  to do or what its callee does (`Thorough`); and that the stack is no deeper than the
  list of noted entries (`Noted`). When the last call returns, the noted entries
  are closed under membership, so the reachable ones are among them.

- **`WorkersProof`**: for any number of threads, messages, users and files. `TypeCorrect`
  needs more than types: what a thread has read of the lists was in a file (`Read`), a
  thread that is inside a delivery method is in the configured one, and an open box is
  there (`Placed`). `SteadyHolds` adds that `emptied` is never taken back. `EnforcedHolds`
  follows the link through both LHLOs (`Encrypted`). `OneWriterHolds` rests on `Owned`:
  from `seek` until he removes it the dotlock is its holder's, although the fcntl lock may
  be gone; nobody else removes it, because a thread that failed to lock goes to `close`
  without `remove`. `KeptHolds` rests on `Whole`: while the box is `Reliable`, its end is
  where its writer looked it up, and whoever is about to make the box found none.
  `DeliveryImplemented` is the refinement, `Spec => ImplementsDelivery`: a message is in
  one place, client, queue, thread or answer (`Single`), and what is in the box or taken
  has been handed over by a thread that will not say False, or was answered with 250 or
  554, and what has been answered with 250 is there (`Honest`). With those each step is a
  `Store`, a `Tell`, a `Fault` or a stutter of `Delivery`; a fault is a second making of
  the box, a failed flush, or any step after one (`ToldOnce`: each message is still heard
  of once).

- **`BlockListsProof`**: for any number of lists, nameservers (one listed twice, too) and
  suffixes, and any limits. `JudgedHolds` needs what a query knows half way: the names before
  the one it tries have nothing, and all have nothing when it ends with NXDOMAIN (`Known`);
  lists passed have nothing, or timed out (`Passed`). `InTimeHolds` counts queries (`Queries`):
  one of each list before this one, one more if the list has a record; each costs
  at most its lifetime because no attempt and no sleep outlasts what is left of it
  (`WithinLifetime`, with `Min` of the community modules: `MinOfTwo`).
  `RemoveFinds`: `nameservers.remove` never raises, because the servers still to be asked are
  always the last ones of those that are left (`Round`), whichever were taken out; `Broken`
  alone would hide it, since `RemoveFirst` of an absent server does nothing.
- **`StartupProof`**: `ReadyHolds`, for every configuration and system. `Identity` says who the
  process is at each stage: each of the three calls needs the user id that only the last
  gives up. `StopsRightly` is the safety half of `Starts`: whoever serves could be
  served, whoever fails could not (`Rightly` lists what each stage has found out).

Only model-checked: all liveness (`WakesUp`, `ChunkEnds`, `Answered`, `Closes`, `Returns`,
`CatchesUp`, `Served`, `Ends`, `Starts`, the fairness in `ImplementsTransaction`) and
ENABLED, which the prover does not reach. Every invariant and every action property that a
passing run checks is a theorem. `TypeOK` of `BlockLists` and of `SmtpSession` (`STypeOK`)
are theorems without a run of their own. No module uses recursive operators.

## Not modelled, and why

- `command_size_limits`, a dict of the class that all channels share, clear and
  raise: the limit of a connection depends on its neighbours. It would take two channels and
  the lengths of lines, and the code promises nothing it could break.
- A sender that retries after a lost status: the code has no identity of messages by
  which a second copy could be told from the first.
- Maildir, MH, Babyl and MMDF boxes; of `mailbox` only what an mbox does. LDAP connections
  that are not unbound. `is_accepted_user` of the LDAP driver, which is one lookup.
- SPF: its functions parse records, keep no state, and the server does not call them.
- Wording and formatting of answers and logs, parsing of addresses, commands,
  urls and configuration files, the packaging and the tests.
- The vendored libraries but `Resolver.query`: click, ldap3, pyasn1 and the other modules of
  dnspython are nine tenths of the lines of the repository. They are third-party code;
  their callers are modelled with arbitrary answers and failures. A model of them would
  be one of those libraries, not of EEH.

What is left to prove is the liveness, which stays with TLC: fairness and `ENABLED` are out
of the prover's reach.
