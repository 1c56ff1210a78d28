-------------------------- MODULE RelayStepProofs --------------------------
(***************************************************************************)
(* The relay's table, indexes, routes and directory, for every number of   *)
(* mailboxes, connections, tokens and frames and with every fault of the   *)
(* store: the invariant, and one lemma for each way a call may change      *)
(* them.  RelayProofs combines these into the calls.                       *)
(***************************************************************************)
EXTENDS Relay, MailboxOpsProofs

\* The entry of a table under id.
Kept(m, id) == MailboxInv(m) /\ m.mailbox_id = id

TableInv ==
    /\ DOMAIN mailboxes \subseteq MailboxId
    /\ \A id \in DOMAIN mailboxes : Kept(mailboxes[id], id)

\* Every record was written for a consistent mailbox, the one in the table or
\* one that may follow it.
DiskInv ==
    /\ DOMAIN disk \subseteq MailboxId
    /\ \A id \in DOMAIN disk : \E m :
        /\ Kept(m, id) /\ disk[id] = snapshot(m)
        /\ id \in DOMAIN mailboxes => Forward(mailboxes[id], m)

LinkInv ==
    /\ DOMAIN connections \subseteq Conn
    /\ \A c \in DOMAIN connections : connections[c] \in Session \cup {None}
    /\ DOMAIN routes \subseteq Session
    /\ RoutesAgree

\* The inductive invariant.
RelayInv == TableInv /\ DiskInv /\ LinkInv /\ IndexesMirror

-----------------------------------------------------------------------------
(* Links.                                                                  *)

\* The mailboxes and memberships of the table are still there.
MembersStay ==
    \A id \in DOMAIN mailboxes :
        /\ id \in DOMAIN mailboxes'
        /\ \A side \in Membership :
            IsMember(mailboxes[id], side) => IsMember(mailboxes'[id], side)

LEMMA NoneIsNoSession == None \notin Session
  BY RelayAssumption DEF Session

LEMMA SessionFields ==
    ASSUME NEW s \in Session
    PROVE  s[1] \in MailboxId /\ s[2] \in Membership /\ s = <<s[1], s[2]>>
  BY DEF Session

LEMMA LinksKept ==
    ASSUME LinkInv, MembersStay, UNCHANGED links
    PROVE  LinkInv'
  <1>1. connections' = connections /\ routes' = routes
    BY DEF links
  <1>2. \A s \in DOMAIN routes : s[2] \in Membership
    BY SessionFields DEF LinkInv
  <1> QED BY <1>1, <1>2 DEF LinkInv, RoutesAgree, MembersStay

LEMMA LinksAttached ==
    ASSUME LinkInv, MembersStay, NEW c \in DOMAIN connections, NEW s \in Session,
           s[1] \in DOMAIN mailboxes', IsMember(mailboxes'[s[1]], s[2]),
           attach(c, s)
    PROVE  LinkInv'
  <1> DEFINE stale == {x \in DOMAIN routes : x = connections[c] /\ routes[x] = c}
             kept == Without(routes, stale)
             old == IF s \in DOMAIN kept THEN kept[s] ELSE None
  <1>1. /\ routes' = With(kept, s, c)
        /\ connections' = [k \in DOMAIN connections |->
              IF k = c THEN s ELSE IF k = old THEN None ELSE connections[k]]
    BY DEF attach
  <1>2. /\ DOMAIN kept = DOMAIN routes \ stale
        /\ \A x \in DOMAIN kept : kept[x] = routes[x]
    BY DEF Without
  <1>3. \A x \in DOMAIN kept : /\ x \in DOMAIN routes /\ x \in Session
                               /\ routes[x] \in DOMAIN connections
                               /\ connections[routes[x]] = x
                               /\ routes[x] # c
    BY <1>2 DEF LinkInv, RoutesAgree
  <1>4. /\ DOMAIN routes' = DOMAIN kept \cup {s} /\ routes'[s] = c
        /\ \A x \in DOMAIN kept \ {s} : routes'[x] = routes[x]
    BY <1>1, <1>2 DEF With
  <1>5. /\ DOMAIN connections' = DOMAIN connections /\ connections'[c] = s
        /\ \A k \in DOMAIN connections \ {c} :
              connections'[k] = IF k = old THEN None ELSE connections[k]
    BY <1>1
  <1>6. \A x \in DOMAIN kept \ {s} : routes[x] # old
    BY <1>2, <1>3, RelayAssumption DEF LinkInv
  <1> HIDE DEF kept, old, stale
  <1>7. \A x \in DOMAIN routes' : /\ routes'[x] \in DOMAIN connections'
                                  /\ connections'[routes'[x]] = x
    BY <1>3, <1>4, <1>5, <1>6
  <1>8. \A x \in DOMAIN routes' : /\ x \in Session /\ x[1] \in DOMAIN mailboxes'
                                  /\ IsMember(mailboxes'[x[1]], x[2])
    <2>1. \A x \in DOMAIN kept : /\ x \in Session /\ x[2] \in Membership
                                 /\ x[1] \in DOMAIN mailboxes
                                 /\ IsMember(mailboxes[x[1]], x[2])
      BY <1>3, SessionFields DEF LinkInv, RoutesAgree
    <2> QED BY <1>4, <2>1 DEF MembersStay
  <1>9. ASSUME NEW k \in DOMAIN connections', connections'[k] # None
        PROVE  /\ connections'[k] \in DOMAIN routes'
               /\ routes'[connections'[k]] = k
    <2>1. CASE k = c
      BY <1>4, <1>5, <2>1
    <2>2. CASE k # c
      <3>1. k \in DOMAIN connections /\ k # old /\ connections'[k] = connections[k]
        BY <1>5, <1>9, <2>2
      <3>2. connections[k] \in DOMAIN routes /\ routes[connections[k]] = k
        BY <1>9, <3>1 DEF LinkInv, RoutesAgree
      <3>3. connections[k] \in DOMAIN kept
        BY <1>2, <2>2, <3>2 DEF stale
      <3>4. connections[k] # s
        BY <1>2, <3>1, <3>2, <3>3 DEF old
      <3> QED BY <1>4, <3>1, <3>2, <3>3, <3>4
    <2> QED BY <2>1, <2>2
  <1>10. \A k \in DOMAIN connections' : connections'[k] \in Session \cup {None}
    BY <1>5 DEF LinkInv
  <1> QED BY <1>5, <1>7, <1>8, <1>9, <1>10 DEF LinkInv, RoutesAgree

LEMMA LinksBound ==
    ASSUME LinkInv, MembersStay, NEW c \in Conn,
           connections' = With(connections, c, SessionOf(c)), routes' = routes
    PROVE  LinkInv'
  <1>1. /\ DOMAIN connections' = DOMAIN connections \cup {c}
        /\ \A k \in DOMAIN connections : connections'[k] = connections[k]
        /\ c \notin DOMAIN connections => connections'[c] = None
    BY DEF With, SessionOf, Bound
  <1>2. \A s \in DOMAIN routes : s[2] \in Membership
    BY SessionFields DEF LinkInv
  <1> QED BY <1>1, <1>2 DEF LinkInv, RoutesAgree, MembersStay

LEMMA LinksDropped ==
    ASSUME LinkInv, MembersStay, NEW c \in DOMAIN connections,
           connections' = Without(connections, {c}),
           routes' = Without(routes, {s \in DOMAIN routes :
                                        s = connections[c] /\ routes[s] = c})
    PROVE  LinkInv'
  <1>1. /\ DOMAIN connections' = DOMAIN connections \ {c}
        /\ \A k \in DOMAIN connections' : connections'[k] = connections[k]
    BY DEF Without
  <1>2. /\ DOMAIN routes' =
              DOMAIN routes \ {s \in DOMAIN routes : s = connections[c] /\ routes[s] = c}
        /\ \A s \in DOMAIN routes' : routes'[s] = routes[s]
    BY DEF Without
  <1>3. \A s \in DOMAIN routes' : s \in DOMAIN routes /\ routes[s] # c
    BY <1>2 DEF LinkInv, RoutesAgree
  <1>4. \A s \in DOMAIN routes : s[2] \in Membership
    BY SessionFields DEF LinkInv
  <1>5. \A s \in DOMAIN routes' :
          /\ routes'[s] \in DOMAIN connections' /\ connections'[routes'[s]] = s
          /\ s[1] \in DOMAIN mailboxes' /\ IsMember(mailboxes'[s[1]], s[2])
    <2> SUFFICES ASSUME NEW s \in DOMAIN routes'
                 PROVE  /\ routes'[s] \in DOMAIN connections'
                        /\ connections'[routes'[s]] = s
                        /\ s[1] \in DOMAIN mailboxes'
                        /\ IsMember(mailboxes'[s[1]], s[2])
      BY Zenon
    <2>1. /\ s \in DOMAIN routes /\ routes[s] # c /\ routes'[s] = routes[s]
          /\ s[2] \in Membership
      BY <1>2, <1>3, <1>4
    <2>2. /\ routes[s] \in DOMAIN connections /\ connections[routes[s]] = s
          /\ s[1] \in DOMAIN mailboxes /\ IsMember(mailboxes[s[1]], s[2])
      BY <2>1 DEF LinkInv, RoutesAgree
    <2>3. routes[s] \in DOMAIN connections'
      BY <1>1, <2>1, <2>2
    <2> QED BY <1>1, <2>1, <2>2, <2>3 DEF MembersStay
  <1>6. ASSUME NEW k \in DOMAIN connections', connections'[k] # None
        PROVE  connections'[k] \in DOMAIN routes' /\ routes'[connections'[k]] = k
    <2>1. /\ k \in DOMAIN connections /\ k # c /\ connections[k] \in DOMAIN routes
          /\ routes[connections[k]] = k
      BY <1>1, <1>6, Zenon DEF LinkInv, RoutesAgree
    <2> QED BY <1>1, <1>2, <2>1, Zenon
  <1>7. /\ DOMAIN connections' \subseteq Conn /\ DOMAIN routes' \subseteq Session
        /\ \A k \in DOMAIN connections' : connections'[k] \in Session \cup {None}
    BY <1>1, <1>3, Zenon DEF LinkInv
  <1> QED BY <1>5, <1>6, <1>7, Zenon DEF LinkInv, RoutesAgree

-----------------------------------------------------------------------------
(* The directory.                                                          *)

\* A failed write leaves the old record, the new one or none.
LEMMA StoreFailsInv ==
    ASSUME RelayInv, NEW c, NEW id \in MailboxId, NEW m, StoreFails(c, id, m),
           m # None => /\ Kept(m, id)
                       /\ id \in DOMAIN mailboxes => Forward(mailboxes[id], m)
    PROVE  RelayInv'
  <1>1. /\ mailboxes' = mailboxes /\ nameplates' = nameplates /\ hashes' = hashes
        /\ expiries' = expiries /\ connections' = connections /\ routes' = routes
    BY DEF StoreFails, service, links
  <1>2. TableInv' /\ LinkInv' /\ IndexesMirror'
    BY <1>1 DEF RelayInv, TableInv, LinkInv, RoutesAgree, IndexesMirror,
                IndexHashes, IndexExpiries
  <1>3. \/ disk' = disk
        \/ disk' = Without(disk, {id})
        \/ m # None /\ disk' = With(disk, id, snapshot(m))
    BY DEF StoreFails, DiskAfterPut, DiskAfterRemove
  <1>4. ASSUME disk' = disk PROVE DiskInv'
    BY <1>1, <1>4 DEF RelayInv, DiskInv
  <1>5. ASSUME disk' = Without(disk, {id}) PROVE DiskInv'
    <2>1. DOMAIN disk' \subseteq DOMAIN disk /\ \A i \in DOMAIN disk' : disk'[i] = disk[i]
      BY <1>5 DEF Without
    <2> QED BY <1>1, <2>1 DEF RelayInv, DiskInv
  <1>6. ASSUME m # None, disk' = With(disk, id, snapshot(m)) PROVE DiskInv'
    <2>1. /\ DOMAIN disk' = DOMAIN disk \cup {id} /\ disk'[id] = snapshot(m)
          /\ \A i \in DOMAIN disk \ {id} : disk'[i] = disk[i]
      BY <1>6 DEF With
    <2>2. ASSUME NEW i \in DOMAIN disk'
          PROVE  \E n : /\ Kept(n, i) /\ disk'[i] = snapshot(n)
                        /\ i \in DOMAIN mailboxes' => Forward(mailboxes'[i], n)
      <3>1. CASE i = id
        BY <1>1, <1>6, <2>1, <3>1
      <3>2. CASE i # id
        BY <1>1, <2>1, <3>2 DEF RelayInv, DiskInv
      <3> QED BY <3>1, <3>2
    <2> QED BY <2>1, <2>2 DEF RelayInv, DiskInv
  <1> QED BY <1>2, <1>3, <1>4, <1>5, <1>6 DEF RelayInv

-----------------------------------------------------------------------------
(* The table and its indexes.                                              *)

LEMMA ForwardMembers ==
    ASSUME NEW m, NEW n, Forward(m, n)
    PROVE  /\ \A side \in Membership : IsMember(m, side) => IsMember(n, side)
           /\ membership_hashes(m) \subseteq membership_hashes(n)
           /\ n.nameplate = m.nameplate /\ n.expires_at = m.expires_at
  <1>1. \A side \in Membership : IsMember(m, side) => n.hash[side] = m.hash[side]
    BY DEF Forward
  <1>2. \A side \in Membership : IsMember(m, side) => IsMember(n, side)
    BY <1>1 DEF IsMember
  <1>3. membership_hashes(m) \subseteq membership_hashes(n)
    BY <1>1 DEF membership_hashes, IsMember
  <1> QED BY <1>2, <1>3 DEF Forward

\* What IndexesMirror says of one hash.
LEMMA HashesInTable ==
    ASSUME RelayInv
    PROVE  \A h : h \in hashes <=>
                \E id \in DOMAIN mailboxes : h \in membership_hashes(mailboxes[id])
  BY DEF RelayInv, IndexesMirror, IndexHashes

\* commit writes the record, then the table; a hash it adds is new to the relay.
LEMMA CommitStateInv ==
    ASSUME RelayInv, NEW id \in DOMAIN mailboxes, NEW n, CommitState(id, n),
           Kept(n, id), Forward(mailboxes[id], n),
           \A h \in membership_hashes(n) :
                h \in membership_hashes(mailboxes[id]) \/ h \notin hashes
    PROVE  TableInv' /\ DiskInv' /\ IndexesMirror' /\ MembersStay
  <1>0. id \in MailboxId
    BY DEF RelayInv, TableInv
  <1>1. /\ disk' = With(disk, id, snapshot(n))
        /\ hashes' = hashes \cup membership_hashes(n)
        /\ mailboxes' = [mailboxes EXCEPT ![id] = n]
        /\ nameplates' = nameplates /\ expiries' = expiries
    BY DEF CommitState, DiskAfterPut
  <1>2. /\ DOMAIN mailboxes' = DOMAIN mailboxes /\ mailboxes'[id] = n
        /\ \A i \in DOMAIN mailboxes \ {id} : mailboxes'[i] = mailboxes[i]
    BY <1>1
  <1>3. /\ DOMAIN disk' = DOMAIN disk \cup {id} /\ disk'[id] = snapshot(n)
        /\ \A i \in DOMAIN disk \ {id} : disk'[i] = disk[i]
    BY <1>1 DEF With
  <1>4. TableInv'
    BY <1>2 DEF RelayInv, TableInv
  <1>5. DiskInv'
    <2>1. ASSUME NEW i \in DOMAIN disk'
          PROVE  \E m : /\ Kept(m, i) /\ disk'[i] = snapshot(m)
                        /\ i \in DOMAIN mailboxes' => Forward(mailboxes'[i], m)
      <3>1. CASE i = id
        BY <1>2, <1>3, <3>1, ForwardRefl
      <3>2. CASE i # id
        BY <1>2, <1>3, <3>2 DEF RelayInv, DiskInv
      <3> QED BY <3>1, <3>2
    <2> QED BY <1>0, <1>3, <2>1 DEF RelayInv, DiskInv
  <1>6. /\ \A side \in Membership : IsMember(mailboxes[id], side) => IsMember(n, side)
        /\ membership_hashes(mailboxes[id]) \subseteq membership_hashes(n)
        /\ n.nameplate = mailboxes[id].nameplate
        /\ n.expires_at = mailboxes[id].expires_at
    BY ForwardMembers
  <1>7. MembersStay
    BY <1>2, <1>6 DEF MembersStay
  <1>8. IndexesMirror'
    <2>1. hashes' = IndexHashes(mailboxes')
      <3>1. ASSUME NEW h \in hashes' PROVE h \in IndexHashes(mailboxes')
        BY <1>1, <1>2, <1>6, HashesInTable DEF IndexHashes
      <3>2. ASSUME NEW h \in IndexHashes(mailboxes') PROVE h \in hashes'
        BY <1>1, <1>2, HashesInTable DEF IndexHashes
      <3> QED BY <3>1, <3>2
    <2>2. expiries' = IndexExpiries(mailboxes')
      <3>1. expiries = {<<mailboxes[i].expires_at, i>> : i \in DOMAIN mailboxes}
        BY DEF RelayInv, IndexesMirror, IndexExpiries
      <3>2. \A i \in DOMAIN mailboxes : mailboxes'[i].expires_at = mailboxes[i].expires_at
        BY <1>2, <1>6
      <3>3. {<<mailboxes'[i].expires_at, i>> : i \in DOMAIN mailboxes'}
              = {<<mailboxes[i].expires_at, i>> : i \in DOMAIN mailboxes}
        BY <1>2, <3>2
      <3> QED BY <1>1, <3>1, <3>3 DEF IndexExpiries
    <2>3. ASSUME NEW a \in DOMAIN mailboxes', NEW b \in DOMAIN mailboxes', a # b
          PROVE  membership_hashes(mailboxes'[a]) \cap membership_hashes(mailboxes'[b]) = {}
      <3>1. ASSUME NEW i \in DOMAIN mailboxes, i # id
            PROVE  membership_hashes(n) \cap membership_hashes(mailboxes[i]) = {}
        <4>1. membership_hashes(mailboxes[id]) \cap membership_hashes(mailboxes[i]) = {}
          BY <3>1 DEF RelayInv, IndexesMirror
        <4>2. membership_hashes(mailboxes[i]) \subseteq hashes
          BY HashesInTable
        <4> QED BY <4>1, <4>2
      <3>2. CASE a = id
        BY <1>2, <2>3, <3>1, <3>2
      <3>3. CASE b = id
        BY <1>2, <2>3, <3>1, <3>3
      <3>4. CASE a # id /\ b # id
        BY <1>2, <2>3, <3>4 DEF RelayInv, IndexesMirror
      <3> QED BY <3>2, <3>3, <3>4
    <2>4. \A i \in DOMAIN mailboxes' : /\ mailboxes'[i].mailbox_id = i
                                       /\ mailboxes'[i].nameplate = mailboxes[i].nameplate
      BY <1>2, <1>6 DEF RelayInv, IndexesMirror, Kept
    <2>5. /\ \A p \in DOMAIN nameplates' :
              nameplates'[p] \in DOMAIN mailboxes' /\ mailboxes'[nameplates'[p]].nameplate = p
          /\ \A i \in DOMAIN mailboxes' : mailboxes'[i].nameplate # None =>
              /\ mailboxes'[i].nameplate \in DOMAIN nameplates'
              /\ nameplates'[mailboxes'[i].nameplate] = i
      BY <1>1, <1>2, <2>4 DEF RelayInv, IndexesMirror
    <2> QED BY <2>1, <2>2, <2>3, <2>4, <2>5 DEF IndexesMirror
  <1> QED BY <1>4, <1>5, <1>7, <1>8

\* A new mailbox with a new identifier, hash and locator.
LEMMA InstallInv ==
    ASSUME RelayInv, NEW c \in DOMAIN connections, NEW m, MailboxInv(m),
           m.mailbox_id \notin DOMAIN mailboxes,
           membership_hashes(m) = {m.hash["Allocator"]},
           m.hash["Allocator"] \notin hashes, m.hash["Allocator"] # None,
           m.nameplate = None \/ m.nameplate \notin DOMAIN nameplates,
           Install(c, m)
    PROVE  RelayInv'
  <1> DEFINE id == m.mailbox_id
             h == m.hash["Allocator"]
  <1>1. id \in MailboxId /\ Kept(m, id)
    BY DEF MailboxInv, IsMailbox, MailboxOf, Kept
  <1>2. CASE StoreFails(c, id, m)
    <2> HIDE DEF id
    <2>1. id \notin DOMAIN mailboxes
      BY DEF id
    <2> QED BY <1>1, <1>2, <2>1, StoreFailsInv
  <1>3. CASE ~StoreFails(c, id, m)
    <2>1. /\ disk' = With(disk, id, snapshot(m))
          /\ mailboxes' = With(mailboxes, id, m)
          /\ hashes' = hashes \cup {h}
          /\ expiries' = expiries \cup {<<m.expires_at, id>>}
          /\ nameplates' = (IF m.nameplate = None THEN nameplates
                            ELSE With(nameplates, m.nameplate, id))
          /\ attach(c, <<id, "Allocator">>)
      BY <1>3 DEF Install, DiskAfterPut
    <2>2. id \notin DOMAIN mailboxes /\ h \notin hashes /\ membership_hashes(m) = {h}
      OBVIOUS
    <2>3. IsMember(m, "Allocator")
      BY DEF IsMember
    <2> HIDE DEF id, h
    <2>4. /\ DOMAIN mailboxes' = DOMAIN mailboxes \cup {id} /\ mailboxes'[id] = m
          /\ \A i \in DOMAIN mailboxes : mailboxes'[i] = mailboxes[i]
      BY <2>1, <2>2 DEF With
    <2>5. /\ DOMAIN disk' = DOMAIN disk \cup {id} /\ disk'[id] = snapshot(m)
          /\ \A i \in DOMAIN disk \ {id} : disk'[i] = disk[i]
      BY <2>1 DEF With
    <2>6. TableInv'
      BY <1>1, <2>4 DEF RelayInv, TableInv
    <2>7. DiskInv'
      <3>1. ASSUME NEW i \in DOMAIN disk'
            PROVE  \E n : /\ Kept(n, i) /\ disk'[i] = snapshot(n)
                          /\ i \in DOMAIN mailboxes' => Forward(mailboxes'[i], n)
        <4>1. CASE i = id
          BY <1>1, <2>4, <2>5, <4>1, ForwardRefl
        <4>2. CASE i # id
          BY <2>4, <2>5, <4>2 DEF RelayInv, DiskInv
        <4> QED BY <4>1, <4>2
      <3> QED BY <1>1, <2>5, <3>1 DEF RelayInv, DiskInv
    <2>8. LinkInv'
      <3> DEFINE s == <<id, "Allocator">>
      <3>1. s \in Session /\ s[1] = id /\ s[2] = "Allocator"
        BY <1>1 DEF Session, Membership
      <3>2. MembersStay
        BY <2>4 DEF MembersStay
      <3>3. attach(c, s)
        BY <2>1
      <3> HIDE DEF s
      <3>4. s[1] \in DOMAIN mailboxes' /\ IsMember(mailboxes'[s[1]], s[2])
        BY <2>3, <2>4, <3>1
      <3> QED BY <3>1, <3>2, <3>3, <3>4, LinksAttached DEF RelayInv
    <2>9. IndexesMirror'
      <3>1. hashes' = IndexHashes(mailboxes')
        <4>1. ASSUME NEW x \in hashes' PROVE x \in IndexHashes(mailboxes')
          BY <2>1, <2>2, <2>4, HashesInTable DEF IndexHashes
        <4>2. ASSUME NEW x \in IndexHashes(mailboxes') PROVE x \in hashes'
          BY <2>1, <2>2, <2>4, HashesInTable DEF IndexHashes
        <4> QED BY <4>1, <4>2, Zenon
      <3>2. expiries' = IndexExpiries(mailboxes')
        <4>1. expiries = {<<mailboxes[i].expires_at, i>> : i \in DOMAIN mailboxes}
          BY DEF RelayInv, IndexesMirror, IndexExpiries
        <4>2. {<<mailboxes'[i].expires_at, i>> : i \in DOMAIN mailboxes'}
                = {<<mailboxes[i].expires_at, i>> : i \in DOMAIN mailboxes}
                    \cup {<<m.expires_at, id>>}
          BY <2>4
        <4> QED BY <2>1, <4>1, <4>2 DEF IndexExpiries
      <3>3. ASSUME NEW a \in DOMAIN mailboxes', NEW b \in DOMAIN mailboxes', a # b
            PROVE  membership_hashes(mailboxes'[a]) \cap membership_hashes(mailboxes'[b]) = {}
        <4>1. ASSUME NEW i \in DOMAIN mailboxes
              PROVE  membership_hashes(m) \cap membership_hashes(mailboxes[i]) = {}
          BY <2>2, HashesInTable
        <4>2. CASE a = id
          BY <2>4, <3>3, <4>1, <4>2
        <4>3. CASE b = id
          BY <2>4, <3>3, <4>1, <4>3
        <4>4. CASE a # id /\ b # id
          BY <2>4, <3>3, <4>4 DEF RelayInv, IndexesMirror
        <4> QED BY <4>2, <4>3, <4>4
      <3>4. \A i \in DOMAIN mailboxes' : mailboxes'[i].mailbox_id = i
        BY <1>1, <2>4 DEF RelayInv, IndexesMirror, Kept
      <3>5. /\ \A p \in DOMAIN nameplates :
                 nameplates[p] \in DOMAIN mailboxes /\ mailboxes[nameplates[p]].nameplate = p
            /\ \A i \in DOMAIN mailboxes : mailboxes[i].nameplate # None =>
                 /\ mailboxes[i].nameplate \in DOMAIN nameplates
                 /\ nameplates[mailboxes[i].nameplate] = i
        BY DEF RelayInv, IndexesMirror
      <3>6. CASE m.nameplate = None
        <4>1. nameplates' = nameplates
          BY <2>1, <3>6
        <4>2. \A p \in DOMAIN nameplates' :
                /\ nameplates'[p] \in DOMAIN mailboxes'
                /\ mailboxes'[nameplates'[p]].nameplate = p
          BY <2>4, <3>5, <4>1
        <4>3. \A i \in DOMAIN mailboxes' : mailboxes'[i].nameplate # None =>
                /\ mailboxes'[i].nameplate \in DOMAIN nameplates'
                /\ nameplates'[mailboxes'[i].nameplate] = i
          BY <2>4, <3>5, <3>6, <4>1
        <4> QED BY <3>1, <3>2, <3>3, <3>4, <4>2, <4>3 DEF IndexesMirror
      <3>7. CASE m.nameplate # None
        <4>1. /\ DOMAIN nameplates' = DOMAIN nameplates \cup {m.nameplate}
              /\ nameplates'[m.nameplate] = id /\ m.nameplate \notin DOMAIN nameplates
              /\ \A p \in DOMAIN nameplates : nameplates'[p] = nameplates[p]
          BY <2>1, <3>7 DEF With
        <4>2. \A p \in DOMAIN nameplates' :
                /\ nameplates'[p] \in DOMAIN mailboxes'
                /\ mailboxes'[nameplates'[p]].nameplate = p
          BY <2>4, <3>5, <4>1
        <4>3. \A i \in DOMAIN mailboxes' : mailboxes'[i].nameplate # None =>
                /\ mailboxes'[i].nameplate \in DOMAIN nameplates'
                /\ nameplates'[mailboxes'[i].nameplate] = i
          BY <2>4, <3>5, <4>1
        <4> QED BY <3>1, <3>2, <3>3, <3>4, <4>2, <4>3 DEF IndexesMirror
      <3> QED BY <3>6, <3>7
    <2> QED BY <2>6, <2>7, <2>8, <2>9 DEF RelayInv
  <1> QED BY <1>2, <1>3

\* Each mailbox of ids is removed, or replaced by one that may follow it and has
\* the same members.
Settles(ids, after) ==
    /\ ids \subseteq DOMAIN mailboxes
    /\ \A id \in ids : after[id] # None =>
        /\ Kept(after[id], id) /\ Forward(mailboxes[id], after[id])
        /\ membership_hashes(after[id]) = membership_hashes(mailboxes[id])

LEMMA SettleTable ==
    ASSUME RelayInv, NEW ids, NEW after, Settles(ids, after), Settle(ids, after)
    PROVE  LET removed == {id \in ids : after[id] = None}
           IN  /\ TableInv'
               /\ DOMAIN mailboxes' = DOMAIN mailboxes \ removed
               /\ \A id \in DOMAIN mailboxes' :
                    mailboxes'[id] = IF id \in ids THEN after[id] ELSE mailboxes[id]
               /\ \A id \in DOMAIN mailboxes' :
                    /\ membership_hashes(mailboxes'[id]) = membership_hashes(mailboxes[id])
                    /\ mailboxes'[id].nameplate = mailboxes[id].nameplate
                    /\ mailboxes'[id].expires_at = mailboxes[id].expires_at
                    /\ \A side \in Membership :
                        IsMember(mailboxes[id], side) => IsMember(mailboxes'[id], side)
  <1> DEFINE removed == {id \in ids : after[id] = None}
  <1>1. mailboxes' = [id \in DOMAIN mailboxes \ removed |->
                        IF id \in ids THEN after[id] ELSE mailboxes[id]]
    BY DEF Settle
  <1>2. /\ DOMAIN mailboxes' = DOMAIN mailboxes \ removed
        /\ \A id \in DOMAIN mailboxes' :
             mailboxes'[id] = IF id \in ids THEN after[id] ELSE mailboxes[id]
    BY <1>1
  <1>3. ASSUME NEW id \in DOMAIN mailboxes'
        PROVE  /\ Kept(mailboxes'[id], id)
               /\ membership_hashes(mailboxes'[id]) = membership_hashes(mailboxes[id])
               /\ mailboxes'[id].nameplate = mailboxes[id].nameplate
               /\ mailboxes'[id].expires_at = mailboxes[id].expires_at
               /\ \A side \in Membership :
                    IsMember(mailboxes[id], side) => IsMember(mailboxes'[id], side)
    <2>1. CASE id \in ids
      <3>1. mailboxes'[id] = after[id] /\ after[id] # None
        BY <1>2, <2>1
      <3> QED BY <2>1, <3>1, ForwardMembers DEF Settles
    <2>2. CASE id \notin ids
      BY <1>2, <2>2 DEF RelayInv, TableInv
    <2> QED BY <2>1, <2>2
  <1> HIDE DEF removed
  <1>4. TableInv'
    BY <1>2, <1>3 DEF TableInv, RelayInv
  <1> QED BY <1>2, <1>3, <1>4 DEF removed

LEMMA SettleLinks ==
    ASSUME RelayInv, NEW ids, NEW after, Settles(ids, after), Settle(ids, after)
    PROVE  LinkInv'
  <1> DEFINE removed == {id \in ids : after[id] = None}
             gone == {s \in DOMAIN routes : s[1] \in removed}
  <1>1. /\ routes' = Without(routes, gone)
        /\ connections' = [c \in DOMAIN connections |->
              IF \E s \in DOMAIN routes : s[1] \in removed /\ routes[s] = c
              THEN None ELSE connections[c]]
    BY DEF Settle
  <1>2. /\ DOMAIN mailboxes' = DOMAIN mailboxes \ removed
        /\ \A id \in DOMAIN mailboxes', side \in Membership :
             IsMember(mailboxes[id], side) => IsMember(mailboxes'[id], side)
    BY SettleTable, Zenon
  <1> HIDE DEF removed
  <1>3. /\ DOMAIN routes' = DOMAIN routes \ gone
        /\ \A s \in DOMAIN routes' : routes'[s] = routes[s]
    BY <1>1 DEF Without
  <1>4. \A s \in DOMAIN routes : /\ s \in Session /\ s[2] \in Membership
                                 /\ routes[s] \in DOMAIN connections
                                 /\ connections[routes[s]] = s
                                 /\ s[1] \in DOMAIN mailboxes
                                 /\ IsMember(mailboxes[s[1]], s[2])
    BY SessionFields DEF RelayInv, LinkInv, RoutesAgree
  <1>5. ASSUME NEW c \in DOMAIN connections
        PROVE  connections'[c] =
                 IF connections[c] \in gone THEN None ELSE connections[c]
    <2>1. CASE connections[c] \in gone
      <3>1. routes[connections[c]] = c
        BY <2>1, NoneIsNoSession DEF RelayInv, LinkInv, RoutesAgree
      <3> QED BY <1>1, <2>1, <3>1
    <2>2. CASE connections[c] \notin gone
      <3>1. ~\E s \in DOMAIN routes : s[1] \in removed /\ routes[s] = c
        BY <1>4, <2>2
      <3> QED BY <1>1, <2>2, <3>1
    <2> QED BY <2>1, <2>2
  <1>6. DOMAIN connections' = DOMAIN connections
    BY <1>1
  <1>7. \A s \in DOMAIN routes' : s \in DOMAIN routes /\ s \notin gone /\ s[1] \notin removed
    BY <1>3
  <1> HIDE DEF gone
  <1>8. \A s \in DOMAIN routes' :
          /\ routes'[s] \in DOMAIN connections' /\ connections'[routes'[s]] = s
    BY <1>3, <1>4, <1>5, <1>6, <1>7
  <1>9. \A s \in DOMAIN routes' :
          s[1] \in DOMAIN mailboxes' /\ IsMember(mailboxes'[s[1]], s[2])
    BY <1>2, <1>4, <1>7
  <1>10. ASSUME NEW c \in DOMAIN connections', connections'[c] # None
         PROVE  connections'[c] \in DOMAIN routes' /\ routes'[connections'[c]] = c
    <2>1. c \in DOMAIN connections /\ connections'[c] = connections[c]
          /\ connections[c] \notin gone
      BY <1>5, <1>6, <1>10
    <2>2. connections[c] \in DOMAIN routes /\ routes[connections[c]] = c
      BY <1>10, <2>1 DEF RelayInv, LinkInv, RoutesAgree
    <2> QED BY <1>3, <2>1, <2>2
  <1>11. /\ DOMAIN connections' \subseteq Conn /\ DOMAIN routes' \subseteq Session
         /\ \A c \in DOMAIN connections' : connections'[c] \in Session \cup {None}
    BY <1>3, <1>4, <1>5, <1>6 DEF RelayInv, LinkInv
  <1> QED BY <1>8, <1>9, <1>10, <1>11 DEF LinkInv, RoutesAgree

LEMMA SettleIndexes ==
    ASSUME RelayInv, NEW ids, NEW after, Settles(ids, after), Settle(ids, after)
    PROVE  IndexesMirror'
  <1> DEFINE removed == {id \in ids : after[id] = None}
             kept == ids \ removed
  <1>1. /\ nameplates' = Without(nameplates, {mailboxes[id].nameplate : id \in removed})
        /\ hashes' = (hashes \ UNION {membership_hashes(mailboxes[id]) : id \in removed})
                       \cup UNION {membership_hashes(after[id]) : id \in kept}
        /\ expiries' = expiries \ {<<mailboxes[id].expires_at, id>> : id \in removed}
    BY DEF Settle
  <1>2. /\ DOMAIN mailboxes' = DOMAIN mailboxes \ removed
        /\ \A id \in DOMAIN mailboxes' :
             /\ membership_hashes(mailboxes'[id]) = membership_hashes(mailboxes[id])
             /\ mailboxes'[id].nameplate = mailboxes[id].nameplate
             /\ mailboxes'[id].expires_at = mailboxes[id].expires_at
    BY SettleTable, Zenon
  <1>3. removed \subseteq DOMAIN mailboxes
    BY DEF Settles
  <1>4. \A id \in kept : /\ id \in DOMAIN mailboxes \ removed
                         /\ membership_hashes(after[id]) = membership_hashes(mailboxes[id])
    BY DEF Settles
  <1> HIDE DEF removed, kept
  <1>5. \A a, b \in DOMAIN mailboxes :
          a # b => membership_hashes(mailboxes[a]) \cap membership_hashes(mailboxes[b]) = {}
    BY DEF RelayInv, IndexesMirror
  <1>6. hashes' = IndexHashes(mailboxes')
    <2>1. ASSUME NEW h \in hashes' PROVE h \in IndexHashes(mailboxes')
      <3>1. \E id \in DOMAIN mailboxes \ removed : h \in membership_hashes(mailboxes[id])
        <4>1. CASE \E id \in kept : h \in membership_hashes(after[id])
          BY <1>4, <4>1
        <4>2. CASE h \in hashes \ UNION {membership_hashes(mailboxes[id]) : id \in removed}
          BY <4>2, HashesInTable
        <4> QED BY <1>1, <4>1, <4>2
      <3> QED BY <1>2, <3>1 DEF IndexHashes
    <2>2. ASSUME NEW h \in IndexHashes(mailboxes') PROVE h \in hashes'
      <3>1. PICK id \in DOMAIN mailboxes \ removed : h \in membership_hashes(mailboxes[id])
        BY <1>2, <2>2 DEF IndexHashes
      <3>2. h \in hashes
        BY <3>1, HashesInTable
      <3>3. \A i \in removed : h \notin membership_hashes(mailboxes[i])
        BY <1>3, <1>5, <3>1
      <3> QED BY <1>1, <3>2, <3>3
    <2> QED BY <2>1, <2>2
  <1>7. expiries' = IndexExpiries(mailboxes')
    <2>1. expiries = {<<mailboxes[id].expires_at, id>> : id \in DOMAIN mailboxes}
      BY DEF RelayInv, IndexesMirror, IndexExpiries
    <2>2. expiries' = {<<mailboxes[id].expires_at, id>> : id \in DOMAIN mailboxes \ removed}
      BY <1>1, <1>3, <2>1
    <2>3. {<<mailboxes'[id].expires_at, id>> : id \in DOMAIN mailboxes'}
            = {<<mailboxes[id].expires_at, id>> : id \in DOMAIN mailboxes \ removed}
      BY <1>2
    <2> QED BY <2>2, <2>3 DEF IndexExpiries
  <1>8. /\ \A p \in DOMAIN nameplates :
             nameplates[p] \in DOMAIN mailboxes /\ mailboxes[nameplates[p]].nameplate = p
        /\ \A i \in DOMAIN mailboxes : mailboxes[i].nameplate # None =>
             /\ mailboxes[i].nameplate \in DOMAIN nameplates
             /\ nameplates[mailboxes[i].nameplate] = i
    BY DEF RelayInv, IndexesMirror
  <1>9. /\ DOMAIN nameplates' = DOMAIN nameplates \ {mailboxes[id].nameplate : id \in removed}
        /\ \A p \in DOMAIN nameplates' : nameplates'[p] = nameplates[p]
    BY <1>1 DEF Without
  <1>10. ASSUME NEW p \in DOMAIN nameplates'
         PROVE  /\ nameplates'[p] \in DOMAIN mailboxes'
                /\ mailboxes'[nameplates'[p]].nameplate = p
    BY <1>2, <1>8, <1>9
  <1>11. ASSUME NEW i \in DOMAIN mailboxes', mailboxes'[i].nameplate # None
         PROVE  /\ mailboxes'[i].nameplate \in DOMAIN nameplates'
                /\ nameplates'[mailboxes'[i].nameplate] = i
    <2>1. /\ i \in DOMAIN mailboxes \ removed /\ mailboxes'[i].nameplate = mailboxes[i].nameplate
          /\ mailboxes[i].nameplate \in DOMAIN nameplates
          /\ nameplates[mailboxes[i].nameplate] = i
      BY <1>2, <1>8, <1>11
    <2>2. \A j \in removed : mailboxes[j].nameplate # mailboxes[i].nameplate
      BY <1>2, <1>3, <1>8, <1>11, <2>1
    <2> QED BY <1>9, <2>1, <2>2
  <1>12. \A i \in DOMAIN mailboxes' : mailboxes'[i].mailbox_id = i
    BY SettleTable, Zenon DEF TableInv, Kept
  <1>13. ASSUME NEW a \in DOMAIN mailboxes', NEW b \in DOMAIN mailboxes', a # b
         PROVE  membership_hashes(mailboxes'[a]) \cap membership_hashes(mailboxes'[b]) = {}
    BY <1>2, <1>5, <1>13
  <1> QED BY <1>6, <1>7, <1>10, <1>11, <1>12, <1>13 DEF IndexesMirror

\* The directory follows: a settled mailbox has its new record or none, another
\* one its old record or, after a write that failed late, the one that may follow.
LEMMA SettleInv ==
    ASSUME RelayInv, NEW ids, NEW after, Settles(ids, after), Settle(ids, after),
           DOMAIN disk' \subseteq MailboxId,
           \A i \in DOMAIN disk' :
              \/ i \in ids /\ after[i] # None /\ disk'[i] = snapshot(after[i])
              \/ i \notin ids /\ i \in DOMAIN disk /\ disk'[i] = disk[i]
              \/ /\ i \notin ids /\ i \in DOMAIN mailboxes
                 /\ \E m : /\ Kept(m, i) /\ disk'[i] = snapshot(m)
                           /\ Forward(mailboxes[i], m)
    PROVE  RelayInv'
  <1>1. \A i \in DOMAIN mailboxes' : /\ i \in DOMAIN mailboxes
                                     /\ i \in ids => mailboxes'[i] = after[i]
                                     /\ i \notin ids => mailboxes'[i] = mailboxes[i]
    BY SettleTable, Zenon
  <1>2. ASSUME NEW i \in DOMAIN disk'
        PROVE  \E m : /\ Kept(m, i) /\ disk'[i] = snapshot(m)
                      /\ i \in DOMAIN mailboxes' => Forward(mailboxes'[i], m)
    <2>1. CASE i \in ids /\ after[i] # None /\ disk'[i] = snapshot(after[i])
      <3>1. Kept(after[i], i)
        BY <2>1 DEF Settles
      <3>2. ASSUME i \in DOMAIN mailboxes' PROVE Forward(mailboxes'[i], after[i])
        <4>1. mailboxes'[i] = after[i]
          BY <1>1, <2>1, <3>2
        <4> QED BY <4>1, ForwardRefl
      <3> QED BY <2>1, <3>1, <3>2
    <2>2. CASE i \notin ids /\ i \in DOMAIN disk /\ disk'[i] = disk[i]
      <3>1. PICK m : /\ Kept(m, i) /\ disk[i] = snapshot(m)
                     /\ i \in DOMAIN mailboxes => Forward(mailboxes[i], m)
        BY <2>2, Zenon DEF RelayInv, DiskInv
      <3>2. ASSUME i \in DOMAIN mailboxes' PROVE Forward(mailboxes'[i], m)
        <4>1. mailboxes'[i] = mailboxes[i] /\ i \in DOMAIN mailboxes
          BY <1>1, <2>2, <3>2
        <4> QED BY <3>1, <4>1
      <3> QED BY <2>2, <3>1, <3>2
    <2>3. CASE /\ i \notin ids
               /\ \E m : /\ Kept(m, i) /\ disk'[i] = snapshot(m)
                         /\ Forward(mailboxes[i], m)
      <3>1. PICK m : /\ Kept(m, i) /\ disk'[i] = snapshot(m)
                     /\ Forward(mailboxes[i], m)
        BY <2>3
      <3>2. ASSUME i \in DOMAIN mailboxes' PROVE Forward(mailboxes'[i], m)
        <4>1. mailboxes'[i] = mailboxes[i]
          BY <1>1, <2>3, <3>2
        <4> QED BY <3>1, <4>1
      <3> QED BY <3>1, <3>2
    <2> QED BY <2>1, <2>2, <2>3, Zenon
  <1>3. DiskInv'
    BY <1>2 DEF DiskInv
  <1>4. TableInv'
    BY SettleTable, Zenon
  <1> QED BY <1>3, <1>4, SettleLinks, SettleIndexes, Zenon DEF RelayInv

\* Forgetting mailboxes together with their records.
LEMMA ForgetInv ==
    ASSUME RelayInv, NEW ids, ids \subseteq DOMAIN mailboxes, NEW more, Forget(ids),
           disk' = Without(disk, ids \cup more)
    PROVE  RelayInv'
  <1> DEFINE after == [id \in ids |-> None]
  <1>1. Settle(ids, after)
    BY DEF Forget
  <1>2. Settles(ids, after)
    BY DEF Settles
  <1>3. /\ DOMAIN disk' = DOMAIN disk \ (ids \cup more)
        /\ \A i \in DOMAIN disk' : disk'[i] = disk[i]
    BY DEF Without
  <1>4. DOMAIN disk' \subseteq MailboxId
    BY <1>3 DEF RelayInv, DiskInv
  <1>5. \A i \in DOMAIN disk' : i \notin ids /\ i \in DOMAIN disk /\ disk'[i] = disk[i]
    BY <1>3
  <1> HIDE DEF after
  <1> QED BY <1>1, <1>2, <1>4, <1>5, SettleInv

LEMMA CommitRemovalInv ==
    ASSUME RelayInv, NEW id \in DOMAIN mailboxes, CommitRemoval(id)
    PROVE  RelayInv'
  <1>1. Forget({id}) /\ disk' = Without(disk, {id} \cup {})
    BY DEF CommitRemoval, DiskAfterRemove
  <1> QED BY <1>1, ForgetInv

-----------------------------------------------------------------------------
(* Records read back.                                                      *)

\* snapshot as a function of the fields it reads.
Record(id, plate, expires_at, status, admission, hash, frames) ==
    [mailbox_id |-> id, nameplate |-> plate,
     expires_at |-> expires_at, status |-> status,
     admission |-> admission,
     hashes |-> IF hash["Claimant"] # None
                THEN <<hash["Allocator"], hash["Claimant"]>>
                ELSE <<hash["Allocator"]>>,
     sequences |-> UNION {{[owner |-> s, seq |-> i - 1,
                            body |-> frames[s][i].body,
                            held |-> frames[s][i].held]
                              : i \in DOMAIN frames[s]} : s \in Membership}]

LEMMA SnapshotReads ==
    ASSUME NEW m
    PROVE  snapshot(m) = Record(m.mailbox_id, m.nameplate, m.expires_at, m.status,
                                m.admission, m.hash, m.frames)
  BY DEF snapshot, Record, IsMember

\* A record that was written for a consistent mailbox is read back as one.
LEMMA RecordLoads ==
    ASSUME NEW m, NEW id, Kept(m, id), NEW n, n = from_snapshot(snapshot(m))
    PROVE  /\ Kept(n, id) /\ snapshot(n) = snapshot(m)
           /\ n.nameplate = snapshot(m).nameplate
           /\ membership_hashes(n) = ToSet(snapshot(m).hashes)
  <1>1. MailboxInv(m) /\ m \in MailboxOf(m.queue_bytes)
    BY DEF Kept, MailboxInv, IsMailbox
  <1>2. n = [m EXCEPT !.queue_bytes = HeldBytes(m.frames)]
    BY <1>1, SnapshotRestores
  <1>3. MailboxInv(n)
    BY <1>1, <1>2, RechargedInv
  <1>4. /\ n.mailbox_id = m.mailbox_id /\ n.nameplate = m.nameplate
        /\ n.expires_at = m.expires_at /\ n.hash = m.hash
        /\ n.frames = m.frames /\ n.status = m.status /\ n.admission = m.admission
    <2> DEFINE z == [m EXCEPT !.queue_bytes = HeldBytes(m.frames)]
    <2>1. /\ z.mailbox_id = m.mailbox_id /\ z.nameplate = m.nameplate
          /\ z.expires_at = m.expires_at /\ z.hash = m.hash
          /\ z.frames = m.frames /\ z.status = m.status /\ z.admission = m.admission
      BY <1>1 DEF MailboxOf
    <2> HIDE DEF z
    <2>2. n = z
      BY <1>2 DEF z
    <2> QED BY <2>1, <2>2
  <1>5. snapshot(n) = snapshot(m)
    BY <1>4, SnapshotReads
  <1>6. snapshot(m).nameplate = m.nameplate
    BY Zenon DEF snapshot
  <1>7. membership_hashes(m) = ToSet(snapshot(m).hashes)
    <2> DEFINE a == m.hash["Allocator"]
               b == m.hash["Claimant"]
    <2>1. membership_hashes(m) = {a, b} \ {None} /\ a # None
      BY <1>1 DEF membership_hashes, Membership, MailboxInv, Admitted
    <2>2. snapshot(m).hashes = IF b # None THEN <<a, b>> ELSE <<a>>
      BY DEF snapshot, IsMember
    <2> HIDE DEF a, b
    <2>3. ToSet(<<a, b>>) = {a, b} /\ ToSet(<<a>>) = {a}
      BY DEF ToSet
    <2> QED BY <2>1, <2>2, <2>3
  <1>8. membership_hashes(n) = membership_hashes(m)
    BY <1>4 DEF membership_hashes
  <1> QED BY <1>3, <1>4, <1>5, <1>6, <1>7, <1>8 DEF Kept

-----------------------------------------------------------------------------
(* Startup.                                                                *)

\* The nameplate index that startup builds names each mailbox once.
LEMMA NameplatesIndexed ==
    ASSUME NEW T,
           \A a, b \in DOMAIN T :
              a # b /\ T[a].nameplate # None => T[a].nameplate # T[b].nameplate
    PROVE  LET index == IndexNameplates(T)
           IN  /\ \A p \in DOMAIN index :
                    index[p] \in DOMAIN T /\ T[index[p]].nameplate = p
               /\ \A id \in DOMAIN T : T[id].nameplate # None =>
                    T[id].nameplate \in DOMAIN index /\ index[T[id].nameplate] = id
  <1> DEFINE index == IndexNameplates(T)
             named == {id \in DOMAIN T : T[id].nameplate # None}
             owner(p) == CHOOSE id \in named : T[id].nameplate = p
  <1>1. index = [p \in {T[id].nameplate : id \in named} |-> owner(p)]
    BY DEF IndexNameplates
  <1>2. ASSUME NEW p, \E id \in named : T[id].nameplate = p
        PROVE  owner(p) \in named /\ T[owner(p)].nameplate = p
    BY <1>2
  <1> HIDE DEF owner, index
  <1>3. \A p \in DOMAIN index : (\E id \in named : T[id].nameplate = p) /\ index[p] = owner(p)
    BY <1>1
  <1>4. \A p \in DOMAIN index : index[p] \in DOMAIN T /\ T[index[p]].nameplate = p
    BY <1>2, <1>3
  <1>5. ASSUME NEW id \in DOMAIN T, T[id].nameplate # None
        PROVE  T[id].nameplate \in DOMAIN index /\ index[T[id].nameplate] = id
    <2>1. T[id].nameplate \in DOMAIN index
      BY <1>1, <1>5
    <2> QED BY <1>4, <1>5, <2>1
  <1> QED BY <1>4, <1>5 DEF index

\* Startup on an accepted directory.
LEMMA WithStoreInv ==
    ASSUME RelayInv, NEW enabled, with_store(enabled)
    PROVE  RelayInv'
  <1>1. /\ DOMAIN mailboxes' = DOMAIN disk /\ disk' = disk
        /\ \A i \in DOMAIN disk : mailboxes'[i] = from_snapshot(disk[i])
        /\ connections' = <<>> /\ routes' = <<>>
    BY DEF with_store, Loaded
  <1>2. ASSUME NEW i \in DOMAIN disk
        PROVE  /\ Kept(mailboxes'[i], i) /\ disk[i] = snapshot(mailboxes'[i])
               /\ mailboxes'[i].nameplate = disk[i].nameplate
               /\ membership_hashes(mailboxes'[i]) = ToSet(disk[i].hashes)
    <2>1. PICK m : Kept(m, i) /\ disk[i] = snapshot(m)
      BY DEF RelayInv, DiskInv
    <2>2. mailboxes'[i] = from_snapshot(snapshot(m))
      BY <1>1, <2>1
    <2> QED BY <2>1, <2>2, RecordLoads
  <1>3. DOMAIN disk \subseteq MailboxId
    BY DEF RelayInv, DiskInv
  <1>4. TableInv'
    BY <1>1, <1>2, <1>3 DEF TableInv
  <1>5. DiskInv'
    <2>1. ASSUME NEW i \in DOMAIN disk'
          PROVE  \E m : /\ Kept(m, i) /\ disk'[i] = snapshot(m)
                        /\ i \in DOMAIN mailboxes' => Forward(mailboxes'[i], m)
      BY <1>1, <1>2, ForwardRefl
    <2> QED BY <1>1, <1>3, <2>1 DEF DiskInv
  <1>6. LinkInv'
    BY <1>1 DEF LinkInv, RoutesAgree
  <1>7. IndexesMirror'
    <2>1. LoadAccepts
      BY DEF with_store
    <2>2. ASSUME NEW a \in DOMAIN mailboxes', NEW b \in DOMAIN mailboxes', a # b
          PROVE  /\ membership_hashes(mailboxes'[a])
                      \cap membership_hashes(mailboxes'[b]) = {}
                 /\ mailboxes'[a].nameplate # None =>
                      mailboxes'[a].nameplate # mailboxes'[b].nameplate
      <3>1. /\ disk[a].nameplate # None => disk[a].nameplate # disk[b].nameplate
            /\ ToSet(disk[a].hashes) \cap ToSet(disk[b].hashes) = {}
        BY <1>1, <2>1, <2>2 DEF LoadAccepts
      <3>2. /\ mailboxes'[a].nameplate = disk[a].nameplate
            /\ mailboxes'[b].nameplate = disk[b].nameplate
            /\ membership_hashes(mailboxes'[a]) = ToSet(disk[a].hashes)
            /\ membership_hashes(mailboxes'[b]) = ToSet(disk[b].hashes)
        BY <1>1, <1>2
      <3> QED BY <3>1, <3>2
    <2>3. nameplates' = IndexNameplates(mailboxes')
      BY DEF with_store
    <2>4. /\ \A p \in DOMAIN nameplates' :
               /\ nameplates'[p] \in DOMAIN mailboxes'
               /\ mailboxes'[nameplates'[p]].nameplate = p
          /\ \A id \in DOMAIN mailboxes' : mailboxes'[id].nameplate # None =>
               /\ mailboxes'[id].nameplate \in DOMAIN nameplates'
               /\ nameplates'[mailboxes'[id].nameplate] = id
      BY <2>2, <2>3, NameplatesIndexed
    <2>5. hashes' = IndexHashes(mailboxes') /\ expiries' = IndexExpiries(mailboxes')
      BY DEF with_store
    <2>6. \A id \in DOMAIN mailboxes' : mailboxes'[id].mailbox_id = id
      BY <1>4 DEF TableInv, Kept
    <2> QED BY <2>2, <2>4, <2>5, <2>6 DEF IndexesMirror, IndexHashes, IndexExpiries
  <1> QED BY <1>4, <1>5, <1>6, <1>7 DEF RelayInv

\* A refused directory leaves everything but itself empty.
LEMMA RefuseToStartInv ==
    ASSUME RelayInv, RefuseToStart
    PROVE  RelayInv'
  <1>1. /\ mailboxes' = <<>> /\ nameplates' = <<>> /\ hashes' = {} /\ expiries' = {}
        /\ connections' = <<>> /\ routes' = <<>> /\ disk' = disk
    BY DEF RefuseToStart
  <1>2. TableInv' /\ LinkInv'
    BY <1>1 DEF TableInv, LinkInv, RoutesAgree
  <1>3. DiskInv'
    BY <1>1 DEF RelayInv, DiskInv
  <1>4. IndexesMirror'
    BY <1>1 DEF IndexesMirror, IndexHashes, IndexExpiries
  <1> QED BY <1>2, <1>3, <1>4 DEF RelayInv
=============================================================================
