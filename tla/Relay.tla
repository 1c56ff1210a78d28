-------------------------------- MODULE Relay --------------------------------
(***************************************************************************)
(* RelayService of src/src/relay.rs over a MailboxStore (src/src/          *)
(* storage.rs): the mailbox table and its four indexes, the connections    *)
(* and routes, and the directory the file store writes.  One action is one *)
(* call of the service; the shells serialise calls with a mutex.           *)
(*                                                                         *)
(* Every call takes its own clock reading.  A store write ends "ok", is    *)
(* "lost" (it failed before the rename or the unlink) or is "unsynced"     *)
(* (the directory changed but its sync failed, so the call reports an      *)
(* error); Faults says which failures the file system may produce.  The    *)
(* limiter (its own module) may refuse any call with 429.                  *)
(***************************************************************************)
EXTENDS MailboxOps, Nameplates, SequencesExt

CONSTANTS
    Conn,                \* transport connections
    Token, token_hash,   \* raw membership tokens and their hashes
    Time, Ttl,           \* clock readings; requested lifetimes
    MailboxCap, QueueCap,
    Faults               \* \subseteq {"lost", "unsynced"}

ASSUME RelayAssumption ==
    /\ token_hash \in [Token -> Hash]
    /\ Time \subseteq Nat /\ Ttl \subseteq Nat \cup {None}
    /\ MailboxCap \in Nat \ {0} /\ QueueCap \in Nat \ {0}
    /\ Faults \subseteq {"lost", "unsynced"}
    /\ None \notin Conn \cup MailboxId \X Membership
    /\ Nameplate \subseteq Name

VARIABLES
    up,                  \* FALSE once with_store refused to start
    allocation_enabled,
    mailboxes,           \* id -> mailbox
    nameplates,          \* nameplate -> id
    hashes,              \* membership_hashes
    expiries,            \* {<<expires_at, id>>}
    queue_bytes,
    connections,         \* bound connection -> its session, or None
    routes,              \* <<id, membership>> -> connection
    disk,                \* id -> snapshot on disk
    offered,             \* history: peer sequences sent to each connection
                         \*   since it attached (a claim starts it with the
                         \*   backlog, which a claim does not replay)
    told                 \* history: connections told Closed since attaching

service == <<mailboxes, nameplates, hashes, expiries, queue_bytes>>
links == <<connections, routes>>
vars == <<up, allocation_enabled, mailboxes, nameplates, hashes, expiries,
          queue_bytes, connections, routes, disk, offered, told>>

Session == MailboxId \X Membership

With(f, k, v) == [x \in DOMAIN f \cup {k} |-> IF x = k THEN v ELSE f[x]]
Without(f, S) == [x \in DOMAIN f \ S |-> f[x]]

Bound(c) == c \in DOMAIN connections
SessionOf(c) == IF Bound(c) THEN connections[c] ELSE None
Attached(c) == SessionOf(c) # None

-----------------------------------------------------------------------------
(* Messages.                                                               *)

Error(c, code) == <<c, "Error", code>>
ClosedMsg(c, reason) == <<c, "Closed", reason>>

wire_code(error) ==
    CASE error = "LifetimeOutOfRange" -> 400
      [] error = "NotMember" -> 404
      [] error = "BodySize" -> 413
      [] OTHER -> 409

mailbox_error(c, error) ==
    IF error \in CloseReason THEN ClosedMsg(c, error)
    ELSE Error(c, wire_code(error))

deduplicate_routes(messages) ==
    FoldLeft(LAMBDA kept, m : IF Contains(kept, m) THEN kept
                              ELSE Append(kept, m), <<>>, messages)

\* The live connections of a mailbox's members, allocator first.
Routed(id) ==
    LET to(side) == IF <<id, side>> \in DOMAIN routes
                    THEN <<routes[<<id, side>>]>> ELSE <<>>
    IN  to("Allocator") \o to("Claimant")

\* Variant: only the first connection hears of the closure.
terminal_routes_first(id, reason) ==
    IF Routed(id) = <<>> THEN <<>> ELSE <<ClosedMsg(Routed(id)[1], reason)>>

terminal_routes(id, reason) ==
    [i \in DOMAIN Routed(id) |-> ClosedMsg(Routed(id)[i], reason)]

Frames(c, seqs) == [i \in DOMAIN seqs |-> <<c, "Frame", seqs[i]>>]

FramesTo(c, messages) ==
    {m[3] : m \in {x \in ToSet(messages) : x[1] = c /\ x[2] = "Frame"}}

ToldClosed(c, messages) ==
    \E m \in ToSet(messages) : m[1] = c /\ m[2] = "Closed"

Backlog(c) ==
    {i - 1 : i \in DOMAIN mailboxes[SessionOf(c)[1]].frames["Allocator"]}

\* The messages a call returns: the shell writes them out after the call, and
\* the history variables record what they told whom.
Return(messages) ==
    /\ told' = {c \in Conn :
         /\ SessionOf(c)' # None
         /\ \/ ToldClosed(c, messages)
            \/ c \in told /\ SessionOf(c)' = SessionOf(c)}
    /\ offered' = [c \in Conn |->
         IF SessionOf(c)' = None THEN {}
         ELSE FramesTo(c, messages) \cup
              (IF SessionOf(c)' = SessionOf(c) THEN offered[c]
               ELSE IF \E m \in ToSet(messages) : m[1] = c /\ m[2] = "Claimed"
               THEN Backlog(c)' ELSE {})]

-----------------------------------------------------------------------------
(* Building blocks of the calls.                                           *)

\* An early return with one message to the caller.
Reply(message) ==
    /\ UNCHANGED <<up, allocation_enabled, service, links, disk>>
    /\ Return(<<message>>)

\* An early return with Error(code): it reports no frame and no closure, so
\* not even the history changes.
Refuse(c, code) == UNCHANGED vars

DiskAfterPut(id, m, outcome) ==
    IF outcome = "lost" THEN disk ELSE With(disk, id, snapshot(m))

DiskAfterRemove(id, outcome) ==
    IF outcome = "lost" THEN disk ELSE Without(disk, {id})

\* Variant: the table is updated before the store is written.
StoreFails_applied(c, id, state) ==
    /\ \E fault \in Faults :
         disk' = IF state = None THEN DiskAfterRemove(id, fault)
                 ELSE DiskAfterPut(id, state, fault)
    /\ mailboxes' = IF id \in DOMAIN mailboxes /\ state # None
                    THEN With(mailboxes, id, state) ELSE mailboxes
    /\ UNCHANGED <<up, allocation_enabled, nameplates, hashes, expiries,
                   queue_bytes, links, offered, told>>

\* commit fails in the store: `?` leaves the service as it was and the shell
\* answers 503.
StoreFails(c, id, state) ==
    /\ \E fault \in Faults :
         disk' = IF state = None THEN DiskAfterRemove(id, fault)
                 ELSE DiskAfterPut(id, state, fault)
    /\ UNCHANGED <<up, allocation_enabled, service, links, offered, told>>

\* Variant: a claimant's hash is not indexed.
CommitState_unindexed(id, m) ==
    /\ disk' = DiskAfterPut(id, m, "ok")
    /\ queue_bytes' = queue_bytes - mailboxes[id].queue_bytes + m.queue_bytes
    /\ mailboxes' = [mailboxes EXCEPT ![id] = m]
    /\ UNCHANGED <<up, allocation_enabled, nameplates, hashes, expiries>>

\* commit of a transition that keeps the mailbox.
CommitState(id, m) ==
    /\ disk' = DiskAfterPut(id, m, "ok")
    /\ queue_bytes' = queue_bytes - mailboxes[id].queue_bytes + m.queue_bytes
    /\ hashes' = hashes \cup membership_hashes(m)
    /\ mailboxes' = [mailboxes EXCEPT ![id] = m]
    /\ UNCHANGED <<up, allocation_enabled, nameplates, expiries>>

\* commit for every mailbox of `ids`: after[id] replaces it, or is None and
\* remove_mailbox_indexes forgets it.  The store is written separately.
Settle(ids, after) ==
    LET removed == {id \in ids : after[id] = None}
        kept == ids \ removed
        gone(s) == s[1] \in removed
        bytes(S, table) == SumFunction([id \in S |-> table[id].queue_bytes])
    IN  /\ mailboxes' = [id \in DOMAIN mailboxes \ removed |->
                           IF id \in ids THEN after[id] ELSE mailboxes[id]]
        /\ nameplates' = Without(nameplates, {mailboxes[id].nameplate : id \in removed})
        /\ hashes' = (hashes \ UNION {membership_hashes(mailboxes[id]) : id \in removed})
                       \cup UNION {membership_hashes(after[id]) : id \in kept}
        /\ expiries' = expiries \ {<<mailboxes[id].expires_at, id>> : id \in removed}
        /\ queue_bytes' = queue_bytes - bytes(ids, mailboxes) + bytes(kept, after)
        /\ routes' = Without(routes, {s \in DOMAIN routes : gone(s)})
        /\ connections' = [c \in DOMAIN connections |->
              IF \E s \in DOMAIN routes : gone(s) /\ routes[s] = c
              THEN None ELSE connections[c]]

DiskSettled(ids, after) ==
    LET removed == {id \in ids : after[id] = None}
    IN  [id \in (DOMAIN disk \cup ids) \ removed |->
            IF id \in ids THEN snapshot(after[id]) ELSE disk[id]]

Forget(ids) == Settle(ids, [id \in ids |-> None])

\* Variant: the record of a reaped mailbox stays in the directory.
CommitRemoval_unstored(id) ==
    /\ Forget({id})
    /\ UNCHANGED <<up, allocation_enabled, disk>>

\* commit of a transition that reaped the mailbox.
CommitRemoval(id) ==
    /\ disk' = DiskAfterRemove(id, "ok")
    /\ Forget({id})
    /\ UNCHANGED <<up, allocation_enabled>>

\* Variant: the connection that lost the membership keeps its session.
attach_undisplaced(c, session) ==
    LET previous == connections[c]
        stale == {s \in DOMAIN routes : s = previous /\ routes[s] = c}
    IN  /\ routes' = With(Without(routes, stale), session, c)
        /\ connections' = [connections EXCEPT ![c] = session]

attach(c, session) ==
    LET previous == connections[c]
        stale == {s \in DOMAIN routes : s = previous /\ routes[s] = c}
        kept == Without(routes, stale)
        old == IF session \in DOMAIN kept THEN kept[session] ELSE None
    IN  /\ routes' = With(kept, session, c)
        /\ connections' = [k \in DOMAIN connections |->
              IF k = c THEN session
              ELSE IF k = old THEN None ELSE connections[k]]

-----------------------------------------------------------------------------
(* Calls that touch no mailbox.                                            *)

RateLimited(c) == up /\ Refuse(c, 429)

Bind(c) ==
    /\ up
    /\ connections' = With(connections, c, SessionOf(c))
    /\ UNCHANGED <<up, allocation_enabled, service, routes, disk>>
    /\ Return(<< <<c, "Welcome", None>> >>)

Unbound(c) == up /\ ~Bound(c) /\ Refuse(c, 400)

Ping(c) == Bound(c) /\ Reply(<<c, "Pong", None>>)

disconnect(c) ==
    /\ Bound(c)
    /\ connections' = Without(connections, {c})
    /\ routes' = Without(routes, {s \in DOMAIN routes :
                                    s = connections[c] /\ routes[s] = c})
    /\ UNCHANGED <<up, allocation_enabled, service, disk>>
    /\ Return(<<>>)

-----------------------------------------------------------------------------
(* Allocation.                                                             *)

\* The refusals that depend on the caller and the relay alone...
AllocationOpen(c) ==
    /\ Bound(c) /\ allocation_enabled /\ ~Attached(c)
    /\ Cardinality(DOMAIN mailboxes) < MailboxCap

AllocationRefused(c) ==
    /\ Bound(c) /\ ~AllocationOpen(c)
    /\ Refuse(c, IF allocation_enabled /\ Attached(c) THEN 409 ELSE 503)

\* ... and those that depend on the identifier and token drawn for it.
Collides(id, hash) == id \in DOMAIN mailboxes \/ hash \in hashes

\* Variant: the expiry index is forgotten.
Install_unexpiring(c, m) ==
    /\ disk' = DiskAfterPut(m.mailbox_id, m, "ok")
    /\ mailboxes' = With(mailboxes, m.mailbox_id, m)
    /\ hashes' = hashes \cup {m.hash["Allocator"]}
    /\ nameplates' = IF m.nameplate = None THEN nameplates
                     ELSE With(nameplates, m.nameplate, m.mailbox_id)
    /\ attach(c, <<m.mailbox_id, "Allocator">>)
    /\ UNCHANGED <<up, allocation_enabled, queue_bytes, expiries>>
    /\ Return(<< <<c, "Allocated", m.mailbox_id>> >>)

\* The store is written before the tables, the tables before the reply.
Install(c, m) ==
    \/ StoreFails(c, m.mailbox_id, m)
    \/ /\ disk' = DiskAfterPut(m.mailbox_id, m, "ok")
       /\ mailboxes' = With(mailboxes, m.mailbox_id, m)
       /\ hashes' = hashes \cup {m.hash["Allocator"]}
       /\ expiries' = expiries \cup {<<m.expires_at, m.mailbox_id>>}
       /\ nameplates' = IF m.nameplate = None THEN nameplates
                        ELSE With(nameplates, m.nameplate, m.mailbox_id)
       /\ attach(c, <<m.mailbox_id, "Allocator">>)
       /\ UNCHANGED <<up, allocation_enabled, queue_bytes>>
       /\ Return(<< <<c, "Allocated", m.mailbox_id>> >>)

Allocated(c, result) ==
    \/ result.error # None /\ Reply(mailbox_error(c, result.error))
    \/ result.error = None /\ Install(c, result.state)

allocate_v1(c, now, id, token, mode, plate, ttl) ==
    LET hash == token_hash[token]
        free == mode = 1 => plate \notin DOMAIN nameplates
    IN  /\ AllocationOpen(c)
        /\ \/ (Collides(id, hash) \/ ~free) /\ Refuse(c, 503)
           \/ ~Collides(id, hash) /\ mode \notin {0, 1} /\ Refuse(c, 400)
           \/ /\ ~Collides(id, hash) /\ mode \in {0, 1} /\ free
              /\ Allocated(c, allocate(id, IF mode = 1 THEN plate ELSE None,
                                       hash, now, ttl))

allocate_v2_call(c, now, id, token, commitment, ttl) ==
    LET hash == token_hash[token]
    IN  /\ AllocationOpen(c)
        /\ \/ Collides(id, hash) /\ Refuse(c, 503)
           \/ /\ ~Collides(id, hash)
              /\ Allocated(c, allocate_v2(id, hash, commitment, now, ttl))

disable_allocation ==
    /\ up
    /\ allocation_enabled' = FALSE
    /\ UNCHANGED <<up, service, links, disk>>
    /\ Return(<<>>)

-----------------------------------------------------------------------------
(* Claims and opens: commit first, then attach or report the terminal.     *)

resolve(locator) ==
    IF locator \in DOMAIN mailboxes THEN locator
    ELSE IF locator \in DOMAIN nameplates THEN nameplates[locator]
    ELSE None

\* What a committed claim or open answers.  When the transition reaped the
\* mailbox its routes are already gone here: only the actor hears of it.
Joined(c, id, result, side, messages) ==
    LET reason == result.effects.terminal
    IN  \/ StoreFails(c, id, result.state)
        \/ /\ result.state # None /\ reason = None
           /\ CommitState(id, result.state)
           /\ attach(c, <<id, side>>)
           /\ Return(messages)
        \/ /\ result.state # None /\ reason # None
           /\ CommitState(id, result.state)
           /\ UNCHANGED links
           /\ Return(deduplicate_routes(Append(terminal_routes(id, reason),
                                               ClosedMsg(c, reason))))
        \/ /\ result.state = None
           /\ CommitRemoval(id)
           /\ Return(<<IF reason = None THEN Error(c, 503)
                       ELSE ClosedMsg(c, reason)>>)

ClaimRefused(c) == Bound(c) /\ Attached(c) /\ Refuse(c, 409)

claim(c, now, token, locator) ==
    LET hash == token_hash[token]
        id == resolve(locator)
        result == transition(mailboxes[id], now, [op |-> "Claim", hash |-> hash])
    IN  /\ Bound(c) /\ ~Attached(c)
        /\ \/ id = None /\ Refuse(c, 404)
           \/ id # None /\ hash \in hashes /\ Refuse(c, 409)
           \/ /\ id # None /\ hash \notin hashes
              /\ \/ result.error # None /\ Reply(mailbox_error(c, result.error))
                 \/ /\ result.error = None
                    /\ Joined(c, id, result, "Claimant",
                              << <<c, "Claimed", id>> >>)

\* claim_v2 has no terminal reply: without Claimed it answers 503.
claim_v2(c, now, id, token, bearer) ==
    LET hash == token_hash[token]
        result == transition(mailboxes[id], now,
                    [op |-> "ClaimV2", hash |-> hash, token |-> bearer])
    IN  /\ Bound(c) /\ ~Attached(c)
        /\ \/ hash \in hashes /\ Refuse(c, 409)
           \/ hash \notin hashes /\ id \notin DOMAIN mailboxes /\ Refuse(c, 404)
           \/ /\ hash \notin hashes /\ id \in DOMAIN mailboxes
              /\ \/ result.error # None /\ Reply(mailbox_error(c, result.error))
                 \/ /\ result.error = None
                    /\ Joined(c, id,
                         [result EXCEPT !.effects.terminal = None],
                         "Claimant", << <<c, "Claimed", id>> >>)

\* An open answers with the queued frames alone; it may re-attach.
open(c, now, id, token) ==
    LET result == transition(mailboxes[id], now,
                    [op |-> "Open", hash |-> token_hash[token]])
    IN  /\ Bound(c)
        /\ \/ id \notin DOMAIN mailboxes /\ Refuse(c, 404)
           \/ /\ id \in DOMAIN mailboxes /\ result.error # None
              /\ Reply(mailbox_error(c, result.error))
           \/ /\ id \in DOMAIN mailboxes /\ result.error = None
              /\ Joined(c, id, result, result.effects.opened,
                        Frames(c, result.effects.deliver))

-----------------------------------------------------------------------------
(* Put, Ack and Close by the attached member.                              *)

\* Variant: the cap is applied to the mailbox alone.
projected_queue_bytes_alone(id, state) ==
    IF state = None THEN 0 ELSE state.queue_bytes

projected_queue_bytes(id, state) ==
    queue_bytes - mailboxes[id].queue_bytes +
        IF state = None THEN 0 ELSE state.queue_bytes

\* The messages are collected before the commit, so a reaped mailbox still
\* tells its routed members; a failed commit drops them all.
MemberMessages(c, id, side, result) ==
    LET e == result.effects
        to == <<id, peer(side)>>
    IN  deduplicate_routes(
          (IF e.stored = None THEN <<>> ELSE << <<c, "Acknowledged", e.stored>> >>)
          \o (IF to \in DOMAIN routes THEN Frames(routes[to], e.deliver) ELSE <<>>)
          \o (IF e.terminal = None THEN <<>> ELSE terminal_routes(id, e.terminal)))

\* MailboxCommandKind with the attached member as its sender.
MemberCommand(kind, side) ==
    [op |-> kind.op, side |-> side, seq |-> kind.seq, body |-> kind.body]

MemberRefused(c) ==
    /\ Bound(c)
    /\ Attached(c) => connections[c][1] \notin DOMAIN mailboxes
    /\ Refuse(c, 404)

member_command(c, now, kind) ==
    LET id == connections[c][1]
        side == connections[c][2]
        result == transition(mailboxes[id], now, MemberCommand(kind, side))
        fits == projected_queue_bytes(id, result.state) <= QueueCap
    IN  /\ Bound(c) /\ Attached(c) /\ id \in DOMAIN mailboxes
        /\ \/ result.error # None /\ Reply(mailbox_error(c, result.error))
           \/ result.error = None /\ ~fits /\ Refuse(c, 503)
           \/ /\ result.error = None /\ fits
              /\ StoreFails(c, id, result.state)
           \/ /\ result.error = None /\ fits
              /\ \/ result.state = None /\ CommitRemoval(id)
                 \/ /\ result.state # None
                    /\ CommitState(id, result.state)
                    /\ UNCHANGED links
              /\ Return(MemberMessages(c, id, side, result))

put(c, now, seq, body) ==
    member_command(c, now, [op |-> "Put", seq |-> seq, body |-> body])

ack(c, now, seq) ==
    member_command(c, now, [op |-> "Ack", seq |-> seq, body |-> None])

close(c, now) ==
    member_command(c, now, [op |-> "Close", seq |-> None, body |-> None])

-----------------------------------------------------------------------------
(* Calls over many mailboxes: they stop at the first store error, keep     *)
(* what they did so far and drop the messages they had collected.          *)

ClosedAll(ids, reason) ==
    SetToSeq({ClosedMsg(routes[s], reason) : s \in {r \in DOMAIN routes : r[1] \in ids}})

SweepDone(now) ==
    LET due == {e[2] : e \in {x \in expiries : x[1] <= now}}
    IN  /\ up
        /\ Forget(due)
        /\ disk' = Without(disk, due)
        /\ UNCHANGED <<up, allocation_enabled>>
        /\ Return(ClosedAll(due, "Expired"))

\* The expiry index is walked in order, so a failed removal shields every
\* later expiry.
SweepStops(now) ==
    LET due == {e \in expiries : e[1] <= now}
        ids(entries) == {e[2] : e \in entries}
    IN  /\ up
        /\ \E fault \in Faults, done \in SUBSET due : \E failed \in due \ done :
            /\ \A d \in done, e \in due \ done : d[1] <= e[1]
            /\ \A e \in due \ done : failed[1] <= e[1]
            /\ Forget(ids(done))
            /\ disk' = Without(disk, ids(done) \cup
                          (IF fault = "lost" THEN {} ELSE {failed[2]}))
        /\ UNCHANGED <<up, allocation_enabled>>
        /\ Return(<<>>)

sweep(now) == SweepDone(now) \/ SweepStops(now)

\* Close one mailbox after another.  The code goes in identifier order; the
\* identifiers are random, so any subset may be done when a write fails.
emergency_close(now) ==
    LET open_ids == {id \in DOMAIN mailboxes : ~IsTerminal(mailboxes[id])}
        after == [id \in open_ids |->
            transition(mailboxes[id], now, [op |-> "Close", side |-> "Allocator"]).state]
    IN  /\ up
        /\ allocation_enabled' = FALSE
        /\ UNCHANGED up
        /\ \/ /\ Settle(open_ids, after)
              /\ disk' = DiskSettled(open_ids, after)
              /\ Return(ClosedAll(open_ids, "Closed"))
           \/ /\ \E fault \in Faults, done \in SUBSET open_ids :
                 \E failed \in open_ids \ done :
                   /\ Settle(done, after)
                   /\ disk' = DiskSettled(done \cup
                         (IF fault = "lost" THEN {} ELSE {failed}), after)
              /\ Return(<<>>)

-----------------------------------------------------------------------------
(* Startup.  The process may die between any two calls; a death inside a   *)
(* call is a store failure followed by Restart.                            *)

Loaded == [id \in DOMAIN disk |-> from_snapshot(disk[id])]

\* FileMailboxStore::load and the checks of with_store.
LoadAccepts ==
    /\ \A id \in DOMAIN disk : ValidSnapshot(disk[id])
    /\ \A a, b \in DOMAIN disk :
        a # b => /\ disk[a].nameplate # None => disk[a].nameplate # disk[b].nameplate
                 /\ ToSet(disk[a].hashes) \cap ToSet(disk[b].hashes) = {}
    /\ \A id \in DOMAIN disk : IsInjective(disk[id].hashes)
    /\ Cardinality(DOMAIN disk) <= MailboxCap
    /\ SumFunction([id \in DOMAIN disk |-> Loaded[id].queue_bytes]) <= QueueCap

IndexNameplates(table) ==
    LET named == {id \in DOMAIN table : table[id].nameplate # None}
    IN  [p \in {table[id].nameplate : id \in named} |->
            CHOOSE id \in named : table[id].nameplate = p]

IndexHashes(table) == UNION {membership_hashes(table[id]) : id \in DOMAIN table}

IndexExpiries(table) == {<<table[id].expires_at, id>> : id \in DOMAIN table}

with_store(enabled) ==
    /\ LoadAccepts
    /\ up' = TRUE
    /\ allocation_enabled' = enabled
    /\ mailboxes' = Loaded
    /\ nameplates' = IndexNameplates(Loaded)
    /\ hashes' = IndexHashes(Loaded)
    /\ expiries' = IndexExpiries(Loaded)
    /\ queue_bytes' = SumFunction([id \in DOMAIN disk |-> Loaded[id].queue_bytes])
    /\ connections' = <<>>
    /\ routes' = <<>>
    /\ UNCHANGED disk
    /\ Return(<<>>)

\* The process ends without having served anyone; only the directory is
\* left.
RefuseToStart ==
    /\ ~LoadAccepts
    /\ up' = FALSE
    /\ mailboxes' = <<>> /\ nameplates' = <<>> /\ hashes' = {} /\ expiries' = {}
    /\ queue_bytes' = 0
    /\ connections' = <<>> /\ routes' = <<>>
    /\ UNCHANGED <<allocation_enabled, disk>>
    /\ Return(<<>>)

-----------------------------------------------------------------------------
(* The specification.                                                      *)

Init ==
    /\ up = TRUE
    /\ allocation_enabled \in BOOLEAN
    /\ mailboxes = <<>> /\ nameplates = <<>> /\ hashes = {} /\ expiries = {}
    /\ queue_bytes = 0
    /\ connections = <<>> /\ routes = <<>>
    /\ disk = <<>>
    /\ offered = [c \in Conn |-> {}]
    /\ told = {}

Seqs == 0..MaxFrames

\* One message from connection c, handled with clock reading `now`: first
\* the calls decided without the clock or the message's contents.
Next ==
    \/ \E c \in Conn :
        \/ RateLimited(c) \/ Bind(c) \/ Unbound(c) \/ Ping(c) \/ disconnect(c)
        \/ AllocationRefused(c) \/ ClaimRefused(c) \/ MemberRefused(c)
    \/ \E c \in Conn, now \in Time, id \in MailboxId, token \in Token, ttl \in Ttl :
        \/ \E mode \in 0..2, plate \in Nameplate :
              allocate_v1(c, now, id, token, mode, plate, ttl)
        \/ \E commitment \in Commitment :
              allocate_v2_call(c, now, id, token, commitment, ttl)
    \/ \E c \in Conn, now \in Time, token \in Token :
        \/ \E locator \in MailboxId \cup Nameplate : claim(c, now, token, locator)
        \/ \E id \in MailboxId :
            \/ \E bearer \in ClaimToken : claim_v2(c, now, id, token, bearer)
            \/ open(c, now, id, token)
    \/ \E c \in Conn, now \in Time :
        \/ \E seq \in Seqs : \/ \E body \in Body : put(c, now, seq, body)
                             \/ ack(c, now, seq)
        \/ close(c, now)
    \/ \E now \in Time : sweep(now) \/ emergency_close(now)
    \/ disable_allocation
    \/ \E enabled \in BOOLEAN : with_store(enabled)
    \/ RefuseToStart

Spec == Init /\ [][Next]_vars

\* The sweeper thread calls `sweep` every second for as long as the process
\* lives.  FairSpec assumes that the clock keeps reaching Max(Time) and that
\* removals do not fail for ever.
FairSpec == Spec /\ WF_vars(SweepDone(Max(Time)))

-----------------------------------------------------------------------------
(* Properties.                                                             *)

\* The nameplate, membership and expiry indexes are exactly what the mailbox
\* table implies, and a nameplate or a membership hash names one mailbox:
\* through every mix of allocation, claim, reaping, emergency close, failed
\* writes and restart.  A stale expiry entry would make `sweep` loop forever;
\* a stale name or hash would refuse or misroute a later client.
IndexesMirror ==
    /\ \A id \in DOMAIN mailboxes : mailboxes[id].mailbox_id = id
    /\ \A p \in DOMAIN nameplates :
        /\ nameplates[p] \in DOMAIN mailboxes
        /\ mailboxes[nameplates[p]].nameplate = p
    /\ \A id \in DOMAIN mailboxes :
        mailboxes[id].nameplate # None =>
            /\ mailboxes[id].nameplate \in DOMAIN nameplates
            /\ nameplates[mailboxes[id].nameplate] = id
    /\ hashes = IndexHashes(mailboxes)
    /\ \A a, b \in DOMAIN mailboxes :
        a # b => membership_hashes(mailboxes[a]) \cap membership_hashes(mailboxes[b]) = {}
    /\ expiries = IndexExpiries(mailboxes)

\* Routes and sessions are two views of one relation: a member is routed to
\* a connection exactly when that connection holds that membership, and only
\* for a mailbox in the table in which the membership exists.  Displacement
\* by a second Open, a late disconnect of the displaced connection and the
\* removal of a mailbox all have to keep it (attach / disconnect /
\* remove_mailbox_indexes).
RoutesAgree ==
    /\ \A s \in DOMAIN routes :
        /\ routes[s] \in DOMAIN connections
        /\ connections[routes[s]] = s
        /\ s[1] \in DOMAIN mailboxes
        /\ IsMember(mailboxes[s[1]], s[2])
    /\ \A c \in DOMAIN connections :
        connections[c] # None =>
            /\ connections[c] \in DOMAIN routes
            /\ routes[connections[c]] = c

\* The incremental byte counter equals what the retained bodies add up to,
\* and neither capacity is exceeded; the checked arithmetic of commit and of
\* remove_mailbox_indexes therefore never fails.
CapacityHolds ==
    /\ queue_bytes = SumFunction([id \in DOMAIN mailboxes |->
                                    HeldBytes(mailboxes[id].frames)])
    /\ queue_bytes \in 0..QueueCap
    /\ Cardinality(DOMAIN mailboxes) <= MailboxCap

\* Write-through: when a failed write leaves the directory untouched, the
\* directory always holds exactly the table, so a death between any two
\* calls loses nothing and revives nothing.
DiskMirrors == disk = [id \in DOMAIN mailboxes |-> snapshot(mailboxes[id])]

\* Even when a write reports failure after the rename, the directory is
\* never behind the table: it holds the same mailbox or one step past it, so
\* no restart can take back a frame, an acknowledgement, a membership or a
\* closure that a client was told of.
DiskNeverBehind ==
    \A id \in DOMAIN mailboxes \cap DOMAIN disk :
        Forward(mailboxes[id], from_snapshot(disk[id]))

\* The relay can always be started on the directory it wrote itself.
AlwaysRestarts == LoadAccepts

\* The directory the relay wrote itself is always one it can start from,
\* provided 32 random octets never repeat as a membership token.
RestartReconstructs ==
    (\A a, b \in DOMAIN disk :
        a # b => ToSet(disk[a].hashes) \cap ToSet(disk[b].hashes) = {})
    => LoadAccepts

\* The walk of first_available_nameplate finds the least positive name that is
\* neither in the table nor otherwise taken, and reports exhaustion exactly
\* when there is none.
FirstIsLeast ==
    \A taken \in SUBSET Name :
        LET occupied == taken \cup DOMAIN nameplates
            free == (Name \ {0}) \ occupied
            n == FirstAvailable[occupied]
        IN  IF free = {} THEN n = None ELSE n \in free /\ \A k \in free : n <= k

\* A mailbox whose expiry the clock has reached is eventually removed, with
\* its record, whatever the clients do, however often removals fail and the
\* process restarts in between (spawn_sweeper, sweep, with_store).
ExpiredVanish ==
    \A id \in MailboxId :
        (id \in DOMAIN mailboxes /\ mailboxes[id].expires_at <= Max(Time))
        ~> (id \notin DOMAIN mailboxes)

\* An attached member has been sent every peer frame that is still queued
\* for it, except those stored before its own claim: no interleaving of Put,
\* Ack, Open, displacement and failed writes loses a delivery (open's
\* replay and member_command's Deliver together).
NothingUnoffered ==
    \A s \in DOMAIN routes :
        \A n \in Seqs : Holds(mailboxes[s[1]], peer(s[2]), n)
                            => n \in offered[routes[s]]

\* A connection that holds a membership of a closed mailbox has been told so,
\* whichever member, claimant or conflicting retry closed it (claim, open and
\* member_command with terminal_routes).  An emergency close, which turns
\* allocation off, is excepted: when a write fails in it, the notices of the
\* mailboxes it had closed are dropped.
TerminalHeard ==
    allocation_enabled =>
        \A s \in DOMAIN routes :
            IsTerminal(mailboxes[s[1]]) => routes[s] \in told
=============================================================================
