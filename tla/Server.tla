------------------------------- MODULE Server -------------------------------
(***************************************************************************)
(* The two server binaries (src/src/bin): one thread per connection and a  *)
(* sweeper thread around a locked RelayService.  A thread reads a message  *)
(* and the clock, takes the lock, sweeps, handles the message, releases    *)
(* the lock and only then writes the messages out, so that what reaches a  *)
(* client may be in another order than what the service did.               *)
(*                                                                         *)
(* The service holds one claimed mailbox; the relay's tables are the       *)
(* subject of Relay.  cbcl-pairing-relay writes each message to the        *)
(* client's socket ("tcp"), cbcl-pairing-relay-ws hands a batch to the     *)
(* client's channel ("ws").                                                *)
(***************************************************************************)
EXTENDS MailboxOps, SequencesExt, FiniteSetsExt

CONSTANTS
    Conn, Owner,         \* connections, and whose token each presents
    Sends,               \* the messages each client sends
    Shell                \* shells: [transport, faults, stalls, most, seconds],
                         \*   that is "tcp" or "ws", whether a removal may fail
                         \*   in the store, whether a client may stop reading,
                         \*   and two bounds, on the messages of each
                         \*   connection and on the clock

ASSUME ServerAssumption ==
    /\ Owner \in [Conn -> Membership] /\ Membership \subseteq Hash
    /\ Sends \in [Conn -> SUBSET {"Open", "Put", "Ack", "Close"}]
    /\ Shell \subseteq [transport : {"tcp", "ws"}, faults : BOOLEAN,
                       stalls : BOOLEAN, most : [Conn -> Nat], seconds : Nat]

VARIABLES
    shell,               \* the binary that runs, and where
    clock,
    svc,                 \* [box, session, route]: the locked service
    pc,                  \* each thread: "new", "reading", "ready", "sending",
                         \*   "leaving" or "left"
    request,             \* the message and clock reading of a ready thread
    batches,             \* what a thread still has to write
    sweeper,             \* the same of the sweeper
    writers,             \* connections in the table of writers
    stalled,             \* connections whose client stopped reading
    wire,                \* frames and closures written to each connection
    requests,
    owed                 \* history: connections attached when the mailbox ended

vars == <<shell, clock, svc, pc, request, batches, sweeper, writers, stalled, wire,
          requests, owed>>

Claimed ==
    LET m == allocate(CHOOSE id \in MailboxId : TRUE, None, "Allocator", 0, None).state
    IN  transition(m, 0, [op |-> "Claim", hash |-> "Claimant"]).state

Init ==
    /\ shell \in Shell
    /\ clock = 0
    /\ svc = [box |-> Claimed, session |-> [c \in Conn |-> None],
              route |-> [s \in Membership |-> None]]
    /\ pc = [c \in Conn |-> "new"]
    /\ request = [c \in Conn |-> None]
    /\ batches = [c \in Conn |-> <<>>] /\ sweeper = <<>>
    /\ writers = {} /\ stalled = {}
    /\ wire = [c \in Conn |-> <<>>]
    /\ requests = [c \in Conn |-> 0]
    /\ owed = {}

-----------------------------------------------------------------------------
(* The service, as it is called under the lock: [svc, out].                *)

Routes(s) == {s.route[side] : side \in Membership} \ {None}

\* terminal_routes, allocator first.
Terminal(s, reason) ==
    LET to(side) == IF s.route[side] = None THEN <<>>
                    ELSE << <<s.route[side], "Closed", reason>> >>
    IN  to("Allocator") \o to("Claimant")

\* remove_mailbox: the routes go, and the sessions they lead to.
Removed(s) ==
    [box |-> None, route |-> [side \in Membership |-> None],
     session |-> [c \in Conn |-> IF c \in Routes(s) THEN None ELSE s.session[c]]]

sweep(s, now, outcome) ==
    IF s.box = None \/ outcome = "stops" THEN [svc |-> s, out |-> <<>>]
    ELSE IF now < s.box.expires_at THEN [svc |-> s, out |-> <<>>]
    ELSE [svc |-> Removed(s),
          out |-> IF outcome = "later" THEN <<>> ELSE Terminal(s, "Expired")]

\* A sweep stops at a removal that fails: this mailbox's, or that of a later
\* one, in which case the notices already collected are dropped with the error.
Outcomes == IF shell.faults THEN {"ok", "stops", "later"} ELSE {"ok"}

attach(s, c, side) ==
    [s EXCEPT !.route[side] = c,
              !.session = [k \in Conn |-> IF k = c THEN side
                                          ELSE IF k = s.route[side] THEN None
                                          ELSE s.session[k]]]

disconnect(s, c) ==
    [s EXCEPT !.session[c] = None,
              !.route = [side \in Membership |->
                           IF s.route[side] = c THEN None ELSE s.route[side]]]

Frames(c, seqs) == [i \in DOMAIN seqs |-> <<c, "Frame", seqs[i]>>]
Refusal(c, error) ==
    << <<c, IF error \in CloseReason THEN "Closed" ELSE "Error", error>> >>


open(s, c, now) ==
    LET r == transition(s.box, now, [op |-> "Open", hash |-> Owner[c]])
    IN  IF s.box = None THEN [svc |-> s, out |-> Refusal(c, "NotFound")]
        ELSE IF r.error # None THEN [svc |-> s, out |-> Refusal(c, r.error)]
        ELSE IF r.state = None
             THEN [svc |-> Removed(s),
                   out |-> Refusal(c, IF r.effects.terminal = None THEN "Unavailable"
                                      ELSE r.effects.terminal)]
        ELSE [svc |-> attach([s EXCEPT !.box = r.state], c, r.effects.opened),
              out |-> Frames(c, r.effects.deliver)]

member_command(s, c, now, m) ==
    LET side == s.session[c]
        r == transition(s.box, now, [op |-> m.op, side |-> side, seq |-> m.seq,
                                     body |-> m.body])
        e == r.effects
        to == s.route[peer(side)]
        out == (IF e.stored = None THEN <<>> ELSE << <<c, "Acknowledged", e.stored>> >>)
               \o (IF to = None THEN <<>> ELSE Frames(to, e.deliver))
               \o (IF e.terminal = None THEN <<>> ELSE Terminal(s, e.terminal))
    IN  IF side = None \/ s.box = None
        THEN [svc |-> s, out |-> Refusal(c, "NotFound")]
        ELSE IF r.error # None THEN [svc |-> s, out |-> Refusal(c, r.error)]
        ELSE IF r.state = None THEN [svc |-> Removed(s), out |-> out]
        ELSE [svc |-> [s EXCEPT !.box = r.state], out |-> out]

handle(s, c, now, m) ==
    IF m.op = "Open" THEN open(s, c, now) ELSE member_command(s, c, now, m)

Ended(s) == s.box = None \/ IsTerminal(s.box)

\* Whom the end of the mailbox, if this step is it, should reach.
Owes(s, t) == IF ~Ended(s) /\ Ended(t) THEN owed \cup Routes(s) ELSE owed

-----------------------------------------------------------------------------
(* Connection threads.                                                     *)

Message ==
    {[op |-> "Open", seq |-> None, body |-> None],
     [op |-> "Close", seq |-> None, body |-> None]}
    \cup {[op |-> "Put", seq |-> n, body |-> b] : n \in 0..MaxFrames, b \in Body}
    \cup {[op |-> "Ack", seq |-> n, body |-> None] : n \in 0..MaxFrames}

Accept(c) ==
    /\ pc[c] = "new" /\ shell.most[c] > 0
    /\ pc' = [pc EXCEPT ![c] = "reading"]
    /\ writers' = writers \cup {c}
    /\ UNCHANGED <<shell, clock, svc, request, batches, sweeper, stalled, wire, requests,
                   owed>>

\* The clock is read here, before the lock is taken.
Read(c, m) ==
    /\ pc[c] = "reading" /\ requests[c] < shell.most[c] /\ m.op \in Sends[c]
    /\ requests' = [requests EXCEPT ![c] = @ + 1]
    /\ request' = [request EXCEPT ![c] = [message |-> m, now |-> clock]]
    /\ pc' = [pc EXCEPT ![c] = "ready"]
    /\ UNCHANGED <<shell, clock, svc, batches, sweeper, writers, stalled, wire, owed>>

\* A message that is not recognised, or no randomness for it: the error is
\* written without taking the lock.
Refuse(c, error) ==
    /\ pc[c] = "reading" /\ requests[c] < shell.most[c]
    /\ requests' = [requests EXCEPT ![c] = @ + 1]
    /\ batches' = [batches EXCEPT ![c] = <<Refusal(c, error)>>]
    /\ pc' = [pc EXCEPT ![c] = "sending"]
    /\ UNCHANGED <<shell, clock, svc, request, sweeper, writers, stalled, wire, owed>>

\* Variant: the message is handled without a sweep first.
Serve_unswept(c) ==
    /\ pc[c] = "ready"
    /\ LET h == handle(svc, c, request[c].now, request[c].message)
       IN  /\ svc' = h.svc
           /\ batches' = [batches EXCEPT ![c] = SelectSeq(<<h.out>>, LAMBDA b : b # <<>>)]
           /\ owed' = Owes(svc, h.svc)
    /\ pc' = [pc EXCEPT ![c] = IF batches'[c] = <<>> THEN "reading" ELSE "sending"]
    /\ request' = [request EXCEPT ![c] = None]
    /\ UNCHANGED <<shell, clock, sweeper, writers, stalled, wire, requests>>

\* Under the lock: sweep, then handle.  A failed sweep counts for nothing.
Serve(c) ==
    /\ pc[c] = "ready"
    /\ \E outcome \in Outcomes :
         LET w == sweep(svc, request[c].now, outcome)
             h == handle(w.svc, c, request[c].now, request[c].message)
         IN  /\ svc' = h.svc
             /\ batches' = [batches EXCEPT ![c] =
                              SelectSeq(<<w.out, h.out>>, LAMBDA b : b # <<>>)]
             /\ owed' = Owes(svc, h.svc)
    /\ pc' = [pc EXCEPT ![c] = IF batches'[c] = <<>> THEN "reading" ELSE "sending"]
    /\ request' = [request EXCEPT ![c] = None]
    /\ UNCHANGED <<shell, clock, sweeper, writers, stalled, wire, requests>>

\* send_one: a connection that left the table hears nothing.
Written(w, m) ==
    IF m[1] \in writers /\ m[2] \in {"Frame", "Closed"}
    THEN [w EXCEPT ![m[1]] = Append(@, Tail(m))] ELSE w

\* What one step of send_all or dispatch writes, and what is left of it.
Writes(todo) == IF shell.transport = "tcp" THEN <<Head(Head(todo))>> ELSE Head(todo)

\* Variant: the rest of a batch is dropped after a write.
Left_rest(todo) == Tail(todo)

Left(todo) ==
    IF shell.transport = "tcp" /\ Len(Head(todo)) > 1
    THEN <<Tail(Head(todo))>> \o Tail(todo) ELSE Tail(todo)


\* A write to a full socket blocks; a channel takes every message.
CanWrite(todo) ==
    shell.transport = "tcp" => \A m \in ToSet(Writes(todo)) : m[1] \notin stalled \cap writers

Send(c) ==
    /\ pc[c] = "sending" /\ CanWrite(batches[c])
    /\ wire' = FoldLeft(Written, wire, Writes(batches[c]))
    /\ batches' = [batches EXCEPT ![c] = Left(@)]
    /\ pc' = [pc EXCEPT ![c] = IF batches'[c] = <<>> THEN "reading" ELSE "sending"]
    /\ UNCHANGED <<shell, clock, svc, request, sweeper, writers, stalled, requests, owed>>

\* The client hangs up: disconnect under the service lock, then the writer goes.
Leave(c) ==
    /\ pc[c] = "reading"
    /\ pc' = [pc EXCEPT ![c] = "leaving"]
    /\ svc' = disconnect(svc, c)
    /\ UNCHANGED <<shell, clock, request, batches, sweeper, writers, stalled, wire, requests,
                   owed>>

Unlist(c) ==
    /\ pc[c] = "leaving"
    /\ pc' = [pc EXCEPT ![c] = "left"]
    /\ writers' = writers \ {c}
    /\ UNCHANGED <<shell, clock, svc, request, batches, sweeper, stalled, wire, requests,
                   owed>>

-----------------------------------------------------------------------------
(* The sweeper, the clock and the clients.                                 *)

SweeperSweep ==
    /\ sweeper = <<>>
    /\ \E outcome \in Outcomes :
         LET w == sweep(svc, clock, outcome)
         IN  /\ svc' = w.svc
             /\ sweeper' = SelectSeq(<<w.out>>, LAMBDA b : b # <<>>)
             /\ owed' = Owes(svc, w.svc)
    /\ UNCHANGED <<shell, clock, pc, request, batches, writers, stalled, wire, requests>>

SweeperSend ==
    /\ sweeper # <<>> /\ CanWrite(sweeper)
    /\ wire' = FoldLeft(Written, wire, Writes(sweeper))
    /\ sweeper' = Left(sweeper)
    /\ UNCHANGED <<shell, clock, svc, pc, request, batches, writers, stalled, requests, owed>>

Tick ==
    /\ clock < shell.seconds /\ clock' = clock + 1
    /\ UNCHANGED <<shell, svc, pc, request, batches, sweeper, writers, stalled, wire,
                   requests, owed>>

Stall(c) ==
    /\ shell.stalls /\ c \in writers /\ stalled' = stalled \cup {c}
    /\ UNCHANGED <<shell, clock, svc, pc, request, batches, sweeper, writers, wire,
                   requests, owed>>

ThreadStep(c) == Serve(c) \/ Send(c) \/ Unlist(c)

Next ==
    \/ \E c \in Conn :
         \/ Accept(c) \/ ThreadStep(c) \/ Leave(c) \/ Stall(c)
         \/ \E m \in Message : Read(c, m)
         \/ Refuse(c, "Malformed")
    \/ SweeperSweep \/ SweeperSend \/ Tick

Spec == Init /\ [][Next]_vars

\* Threads are scheduled; clients and the clock owe nothing.
FairSpec ==
    /\ Spec
    /\ \A c \in Conn : WF_vars(ThreadStep(c))
    /\ WF_vars(SweeperSend) /\ WF_vars(SweeperSweep)

-----------------------------------------------------------------------------

Pending(m) ==
    \/ \E c \in Conn : \E b \in ToSet(batches[c]) : m \in ToSet(b)
    \/ \E b \in ToSet(sweeper) : m \in ToSet(b)

Reached(m) == Tail(m) \in ToSet(wire[m[1]])

\* Every frame queued for an attached client was written to it or is about to
\* be by some thread, although threads attach, displace and write without the
\* lock that orders them.
FramesAccounted ==
    \A c \in Conn : svc.session[c] # None /\ svc.box # None =>
        \A seq \in 0..MaxFrames :
            Holds(svc.box, peer(svc.session[c]), seq) =>
                Reached(<<c, "Frame", seq>>) \/ Pending(<<c, "Frame", seq>>)

\* A client attached when the mailbox closed or expired was told, or is about
\* to be: the sweep that precedes a call finds the expiry before the call does.
\* (A sweep whose removal fails in the store drops the notices it collected.)
EndAccounted ==
    ~shell.faults => \A c \in owed \cap writers :
        \E reason \in CloseReason :
            Reached(<<c, "Closed", reason>>) \/ Pending(<<c, "Closed", reason>>)

\* The socket shell writes in the thread that handled the call, so a client
\* that does not read holds up whoever has something for it.
MayBlock == shell.transport = "tcp" /\ shell.stalls


=============================================================================
