# Verification of cbcl-pairing

TLA+ models of the pairing relay and its mailboxes, the TLC runs that check
them on small instances, and TLAPS proofs of the mailbox for every value of the
constants. `PROJECT.json` maps each definition to the source lines it models.

## The system

cbcl-pairing lets two parties who share a short invitation exchange opaque
frames through a relay and run an authenticated ceremony over them.

| Part | Source | State | Model |
| --- | --- | --- | --- |
| Mailbox core | `src/src/mailbox.rs` | one mailbox: two memberships, their frame logs, status, admission, expiry | `MailboxOps`, `Mailbox`, abstract `PairLog` |
| Relay service | `src/src/relay.rs` | the mailbox table and its indexes, connections, routes | `Relay` |
| Stores | `src/src/storage.rs` | one record per mailbox in a directory | `Relay` (`disk`) |
| Server shells | `src/src/bin/*.rs` | a mutex around the service, one thread per connection, a sweeper | atomicity and fairness of `Relay`; rest planned |
| Rate limiter | `src/src/limiter.rs` | per-peer windows, cool-downs, recency | planned; `Relay` lets it refuse any call |
| v1 endpoint | `src/src/endpoint.rs`, `channel.rs`, `cbcl_protocol.rs` | invitation record, phases, counters, pending retries | planned |
| credential/v2 | `src/src/credential_v2/` | two sessions with checkpoints, restore and a persistence gate | planned |
| Codecs, profiles, carriers, CPace, metrics | `wire.rs`, `profile.rs`, `cpace.rs`, `observability.rs`, ... | none that feeds back | not modelled |

A client binds a connection, allocates or claims a mailbox (which attaches the
connection to a membership), puts frames, acknowledges the peer's frames and
closes. Open re-attaches a membership from any connection and replays what is
queued for it. Every successful call writes the mailbox to the store before the
tables change.

## Modules

**`MailboxOps`** has one operator per function of `mailbox.rs`: `allocate`,
`allocate_v2`, the six commands behind `transition`, `terminate`, `reap`,
`snapshot` and `from_snapshot`. They are constant-level, so that one mailbox
(`Mailbox`) and a table of them (`Relay`) share them. A body is a model value
with a length; its digest is injective, so a retry is identical exactly when
the body is the same. Token hashes and claim commitments are injective too. A
frame's sequence is its position, as in the code, and `held` says whether the
body is still retained. `Forward` is the order of a mailbox's life and
`MailboxInv` what every reachable mailbox satisfies.

**`Mailbox`** drives one mailbox with every command of both members and of
strangers; `Restart` replaces it by what `from_snapshot` makes of its snapshot.
Every step has its own clock reading: the shells read the clock before they take
the lock, so readings may go backwards.

**`PairLog`** is what a mailbox promises: two append-only logs, whose entries
stay readable by the other side until it consumes them or the pairing ends.

**`Relay`** has one action per call of `RelayService`, its early returns
included. A store write ends well, is *lost* (it failed and changed nothing) or
is *unsynced* (the rename or unlink happened, its directory sync failed, the call
reports an error). `sweep` and `emergency_close` stop at the first failed write
and keep what they did. `with_store` is a restart from the directory at any
moment; `RefuseToStart` is a startup that rejects it. Two history variables
record what the returned messages told each connection: `offered` (frames) and
`told` (closures). Error codes change nothing, so the refusals of a call are
written with their code and leave the state alone.

`MCMailbox` and `MCRelay` give the constants their values. A definition whose
comment begins with "Variant:" is a deliberately wrong form of the one after it:
`PROJECT.json` lists, for each property, a variant that must violate it.

## Runs

| Run | Instance | Distinct states | Result |
| --- | --- | --- | --- |
| `mailbox` | 2 ids, 3 hashes, 1 claim bearer, 3 bodies (one too long), 2 frames a side, clock 0..2 | 10 675 | passes |
| `relay_one` | 1 mailbox, 3 connections, 3 tokens, 2 bodies, lost writes | 10 920 | passes |
| `relay_two` | 2 mailboxes, 1 nameplate, 2 connections, 2 tokens, a queue of one octet, lost writes | 10 794 | passes |
| `relay_unsynced` | 2 mailboxes, 1 connection, 2 tokens, lost and unsynced writes | 19 426 | passes |
| `relay_live` | as above with a longer clock and lost writes, `FairSpec` | 11 284 | passes |
| `mailbox_gap`, `mailbox_lifetime`, `relay_restart` | see Findings | | violated |

What the passing runs show:

- *Mailbox.* `Consistent` ties status, admission, memberships and logs together.
  `RestoreExact`: every reachable mailbox survives the persistence boundary
  unchanged, the two fields the record omits included. `TombstoneIsEmpty`,
  `NeverUndone` and `OnlyPeerAckReleases` say what closure, steps and
  acknowledgements may do. `ImplementsPairLog` is the refinement.
- *Routing and delivery* (`relay_one`). `RoutesAgree`: routes and sessions are
  one relation through displacement and late disconnects. `NothingUnoffered`: an
  attached member has been sent every peer frame still queued for it, except
  those stored before its own claim, which a claim does not replay.
  `TerminalHeard`: a connection attached to a closed mailbox was told.
- *Tables, capacities, directory* (`relay_two`). The indexes are exactly what the
  table implies, the byte counter is exact and bounded, the directory mirrors the
  table, and the relay can restart from it at any moment.
- *Unsynced writes* (`relay_unsynced`). The tables stay exact and the directory
  is never behind them (`DiskNeverBehind`), so no mailbox ever goes backwards.
- *Liveness* (`relay_live`). Every expired mailbox is eventually removed.

**Bounds.** Two frames a side reach a retry, an out-of-order acknowledgement and
the frame limit; `Seqs` goes one past it. Three hashes make a third claimant
(crowding). One nameplate and two mailboxes make it be reused. A queue of one
octet is full after one put, so the cap is met across mailboxes. The clock of the
relay runs has a reading before and one at expiry, in any order. Two bodies
separate a retry from a conflict; the relay runs with two mailboxes have one body,
since conflicts are covered by `mailbox` and `relay_one`. Tokens, connections and,
where they are interchangeable, mailbox identifiers are symmetric; the liveness
run uses no symmetry. Deadlock is checked everywhere.

**Fairness.** `FairSpec` adds weak fairness of a complete sweep at the latest
reading. `spawn_sweeper` calls `sweep` every second while the process lives, so
this assumes that the clock reaches the expiry and that removals do not fail for
ever. Nothing is assumed of clients.

## Findings

- `mailbox_gap`: `docs/OPERATOR.md` says that sequence gaps close the mailbox; the
  code answers 409 and leaves it open.
- `mailbox_lifetime`: `docs/OPERATOR.md` and `docs/TUTORIAL.md` bound a mailbox by
  600 seconds; the code, with the specification, allows 86 400, and 900 for
  credential/v2.
- `relay_restart`: `docs/OPERATOR.md` says that a restart reconstructs the
  mailboxes. When the directory sync after an allocation's rename fails, the
  record remains although the call failed; if its nameplate is then given to
  another mailbox, the next startup refuses the directory.

## Proofs

`MailboxProofs` and `MailboxRefinement` hold for every number of frames and every
set of identifiers, hashes, bodies, lifetimes and clock readings, from
`MailboxAssumption` (lengths and limits are natural numbers; `None` is none of
the values it stands beside) and `TimeAssumption`.

- `Consistency`: `Spec => []Consistent`. `TypeOK` alone is not inductive: that a
  retry finds its frame needs `next_seq` to be the length of the log, that an
  acknowledgement by the allocator finds a paired mailbox needs "only a member has
  frames", and that a snapshot is accepted needs status, admission and the number
  of memberships to agree. `MailboxInv` is that strengthening. The proof has one
  lemma per command, each saying that its result is consistent and `Forward` of
  the state before.
- `TypeCorrect`, `Tombstones`, `NothingUndone` follow from it.
- `Restorable`: the snapshot of a reachable mailbox is valid and `from_snapshot`
  gives the mailbox back with `queue_bytes` recomputed. It rests on counting the
  saved records of a member and on the gapless numbering of its log.
- `Refinement`: `Spec => ImplementsPairLog`. A committed command has one of six
  shapes (`TransitionShapes`: unchanged, removed, closed, paired, one frame
  appended, one body released), and each maps to one abstract step or none.
- `PeerReleases`: `OnlyPeerAckReleases`, from the same shapes.

Only model-checked: that `queue_bytes` is the sum of the retained lengths (the
other half of `RestoreExact`), and all of `Relay`. Out of the prover's reach, and
left to TLC: liveness under fairness and `ENABLED`; induction over data, such as
the value of a sum; anything about `RECURSIVE` operators, of which the project declares none.

## Not modelled

- CBOR, S-expressions, text carriers, profiles: stateless codecs.
- CPace, key schedules, ciphers, signatures: arithmetic.
- Metrics and log events: nothing reads them back.
- Overflow of `now + ttl` in 64 bits: out of range for wall-clock seconds.
- A power failure that reverts an unsynced rename: `unsynced` is about a process
  that goes on or restarts over the same file system.
- Leftover temporary files: they are one more reason for a lost write, and the
  next load removes them.

## Plan

1. *Server shells*: the lock, the sweep before each call, replies sent after the
   unlock; which notices can be lost or overtaken. `first_available_nameplate` and
   `sample_nameplate` as functions against their definitions.
2. *Limiter*: windows, cool-downs, recency and eviction with a clamped clock;
   abstract promise: at most `limit` calls allowed in any window unless evicted.
3. *v1 endpoint*: the reducer of both sides with the channel counters and the
   protocol monitors, composed over the pair of logs; agreement on the outcome, at
   most one delivered payload, an invitation spent once.
4. *credential/v2*: the allocator and claimant sessions with gate, checkpoint,
   crash and restore, composed over the pair of logs; agreement of the phases,
   no message before its checkpoint, recovery after any crash.
5. *Proofs*: `IndexesMirror` and `RoutesAgree` of `Relay`; the invariants of the
   limiter and of the credential/v2 gate.
