----------------------------- MODULE PeerTable -----------------------------
(***************************************************************************)
(* The peer table of network/discovery and the DiscoveryManager over it:   *)
(* records of peers with a score, added by bootstrap sources and by peers, *)
(* merged by id and by address, evicted from a full table, banned, judged  *)
(* by the handshakes tried with them, and selected for connections.        *)
(*                                                                         *)
(* last_seen only breaks ties between scores; here a tie goes either way.  *)
(* Capabilities are left out.  Nothing but an eviction removes a record.   *)
(***************************************************************************)
EXTENDS Integers, Sequences, FiniteSets, Functions

CONSTANTS
    Ids,                \* peer ids
    Addresses,          \* host and port
    Prefix,             \* network prefix of every address, None for a name
    None,
    Sources,            \* PeerSource
    Scores,             \* scores records come with
    MaxScore,           \* 1000
    Reward, Penalty,    \* 50 and 100
    BanAfter,           \* failures in a row that ban: 3
    Bootstrap,          \* records of each bootstrap source
    MaxEntries,
    SharePercent,       \* max_same_source_ratio
    MaxSamePrefix,
    MaxOutbound

Offers == [id : Ids, address : Addresses, source : Sources, score : Scores]

ASSUME PeerTableAssumption ==
    /\ DOMAIN Prefix = Addresses
    /\ MaxScore \in Nat /\ Scores \subseteq 0 .. MaxScore
    /\ Reward \in Nat /\ Penalty \in Nat
    /\ BanAfter \in Nat \ {0} /\ MaxEntries \in Nat \ {0}
    /\ SharePercent \in 0 .. 100
    /\ MaxSamePrefix \in Nat /\ MaxOutbound \in Nat
    /\ Bootstrap \in Seq(Seq(Offers))

VARIABLE table          \* _records and _address_index

Size(t) == Cardinality(DOMAIN t.records)
IsBanned(r) == r.status = "BANNED"
Least(a, b) == IF a < b THEN a ELSE b
Most(a, b) == IF a > b THEN a ELSE b

TableInit == table = [records |-> << >>, index |-> << >>]

-----------------------------------------------------------------------------
(* PeerTable.add *)

(* PeerRecord as it is offered. *)
Candidate(offer) ==
    [address |-> offer.address, source |-> offer.source, score |-> offer.score,
     failures |-> 0, status |-> "CANDIDATE"]

(* The mapping f with x mapped to y: an assignment to a dict.              *)
Put(f, x, y) == [z \in DOMAIN f \cup {x} |-> IF z = x THEN y ELSE f[z]]

Insert(t, offer) ==
    [records |-> Put(t.records, offer.id, Candidate(offer)),
     index |-> Put(t.index, offer.address, offer.id)]

(* _update_existing *)
Merge(t, id, offer) == [t EXCEPT !.records[id].score = Most(@, offer.score)]

WithoutRecord(t, id) ==  \* mutant: the address stays taken
    [t EXCEPT !.records = Restrict(@, DOMAIN t.records \ {id})]

(* remove *)
Without(t, id) ==
    [records |-> Restrict(t.records, DOMAIN t.records \ {id}),
     index |-> Restrict(t.index, DOMAIN t.index \ {t.records[id].address})]

(* The records _evict_for may take out for a newcomer. *)
Evictable(t, offer) ==
    {id \in DOMAIN t.records :
        LET r == t.records[id]
        IN  IsBanned(r) \/ (r.source = offer.source /\ r.score < offer.score)}

Victims(t, offer) ==
    {id \in Evictable(t, offer) :
        \A other \in Evictable(t, offer) : t.records[id].score <= t.records[other].score}

(* The tables add may leave; none when it raises PeerTableFullError.       *)
Added(t, offer) ==
    IF offer.id \in DOMAIN t.records THEN {Merge(t, offer.id, offer)}
    ELSE IF offer.address \in DOMAIN t.index THEN {Merge(t, t.index[offer.address], offer)}
    ELSE IF Size(t) < MaxEntries THEN {Insert(t, offer)}
    ELSE {Insert(Without(t, id), offer) : id \in Victims(t, offer)}

-----------------------------------------------------------------------------
(* DiscoveryManager *)

AddDiscovered(offer) == table' \in Added(table, offer)

(* The tables one source may leave: a full table ends its records.         *)
LoadedFrom(t, offers) ==
    LET n == Len(offers)
        Loaded[i \in 0 .. n] ==
            IF i = 0 THEN {t} ELSE UNION {Added(l, offers[i]) : l \in Loaded[i - 1]}
    IN  UNION {{l \in Loaded[i] : i = n \/ Added(l, offers[i + 1]) = {}} : i \in 0 .. n}

(* The tables the first i sources may leave.                               *)
LoadedSources(t) ==
    LET Loaded[i \in 0 .. Len(Bootstrap)] ==
            IF i = 0 THEN {t}
            ELSE UNION {LoadedFrom(l, Bootstrap[i]) : l \in Loaded[i - 1]}
    IN  Loaded

(* load_bootstrap, which the first selection calls.                        *)
LoadBootstrap == table' \in LoadedSources(table)[Len(Bootstrap)]

ReportSuccess(id) ==
    /\ id \in DOMAIN table.records
    /\ table' = [table EXCEPT !.records[id].failures = 0,
                              !.records[id].status = "ACTIVE",
                              !.records[id].score = Least(MaxScore, @ + Reward)]

AfterFailureUnban(r) ==  \* mutant: a ban is only a failure
    LET failures == Least(BanAfter, r.failures + 1)
    IN  [r EXCEPT !.failures = failures,
                  !.status = IF failures = BanAfter THEN "BANNED" ELSE "FAILED",
                  !.score = Most(0, @ - Penalty)]

(* Failures are not counted further than the ban.                          *)
AfterFailure(r) ==
    LET failures == Least(BanAfter, r.failures + 1)
    IN  IF failures = BanAfter
        THEN [r EXCEPT !.failures = failures, !.status = "BANNED", !.score = 0]
        ELSE [r EXCEPT !.failures = failures,
                       !.status = IF IsBanned(r) THEN @ ELSE "FAILED",
                       !.score = Most(0, @ - Penalty)]

ReportFailure(id) ==
    /\ id \in DOMAIN table.records
    /\ table' = [table EXCEPT !.records[id] = AfterFailure(@)]

Ban(id) ==
    /\ id \in DOMAIN table.records
    /\ table' = [table EXCEPT !.records[id].status = "BANNED"]

-----------------------------------------------------------------------------
(* PeerTable.select_candidates: the viable records in the order of their   *)
(* scores, as long as source and network prefix have room.                 *)
Viable(t) == {id \in DOMAIN t.records : t.records[id].status \in {"CANDIDATE", "FAILED"}}

Rankings(t) ==
    {order \in [1 .. Cardinality(Viable(t)) -> Viable(t)] :
        /\ IsInjective(order)
        /\ \A i, j \in DOMAIN order :
              i < j => t.records[order[i]].score >= t.records[order[j]].score}

PerSource(count) == Most(1, (SharePercent * count) \div 100)

SameSource(t, ids, id) == {c \in ids : t.records[c].source = t.records[id].source}

PrefixOf(t, id) == Prefix[t.records[id].address]
SamePrefix(t, ids, id) ==
    {c \in ids : PrefixOf(t, id) # None /\ PrefixOf(t, c) = PrefixOf(t, id)}

HasRoomAgain(t, count, ids, id) ==  \* mutant: one more of a prefix than allowed
    /\ Cardinality(SameSource(t, ids, id)) < PerSource(count)
    /\ PrefixOf(t, id) # None => Cardinality(SamePrefix(t, ids, id)) <= MaxSamePrefix

HasRoom(t, count, ids, id) ==
    /\ Cardinality(SameSource(t, ids, id)) < PerSource(count)
    /\ PrefixOf(t, id) # None => Cardinality(SamePrefix(t, ids, id)) < MaxSamePrefix

Considered(t, count, chosen, id) ==
    IF Len(chosen) < count /\ HasRoom(t, count, Range(chosen), id)
    THEN Append(chosen, id) ELSE chosen

(* The loop over the ranked records: the choice after each of them.        *)
Choices(t, count, order) ==
    LET Choice[i \in 0 .. Len(order)] ==
            IF i = 0 THEN << >> ELSE Considered(t, count, Choice[i - 1], order[i])
    IN  Choice

Selected(t, count, order) == Choices(t, count, order)[Len(order)]

-----------------------------------------------------------------------------
TableNext ==
    \/ \E offer \in Offers : AddDiscovered(offer)
    \/ LoadBootstrap
    \/ \E id \in Ids : ReportSuccess(id)
    \/ \E id \in Ids : ReportFailure(id)
    \/ \E id \in Ids : Ban(id)

TableSpec == TableInit /\ [][TableNext]_table

-----------------------------------------------------------------------------
(* The address index names exactly the records of the table, each under    *)
(* its own address, whatever was merged and evicted: no address is blocked *)
(* by a record that is gone, none is in the table twice, and no merge      *)
(* looks for a record that is not there.                                   *)
IndexMatches ==
    /\ Size(table) <= MaxEntries
    /\ \A id \in DOMAIN table.records :
          LET address == table.records[id].address
          IN  address \in DOMAIN table.index /\ table.index[address] = id
    /\ \A address \in DOMAIN table.index :
          LET id == table.index[address]
          IN  id \in DOMAIN table.records /\ table.records[id].address = address

(* No operation of the table but the report of a handshake that succeeded  *)
(* lifts a ban: not a later failure, a merge or what becomes of others.    *)
(* (Nor does time, although the documents say it should: see BansLapse.)   *)
(* A record is evicted from a full table only, when banned or for a better *)
(* one of its own source: the peers of one source cannot drive those of    *)
(* another out.                                                            *)
(* (load_bootstrap is a run of such additions in one step: it may evict a  *)
(* banned peer and offer it anew.)                                         *)
RecordsKept ==
    [][\/ \A id \in DOMAIN table.records :
             LET r == table.records[id]
             IN  IF id \in DOMAIN table'.records
                 THEN IsBanned(r) => IsBanned(table'.records[id]) \/ ReportSuccess(id)
                 ELSE /\ Size(table) = MaxEntries
                      /\ \/ IsBanned(r)
                         \/ \E n \in DOMAIN table'.records \ DOMAIN table.records :
                               /\ table'.records[n].source = r.source
                               /\ table'.records[n].score > r.score
       \/ LoadBootstrap]_table

(* Reference for a selection: viable peers with different addresses, no    *)
(* source and no prefix beyond its share, and nobody is passed over but    *)
(* for want of room beside peers at least as good.                         *)
GoodSelection(t, count, chosen) ==
    LET ids == Range(chosen)
        AtLeast(id) == {c \in ids : t.records[c].score >= t.records[id].score}
    IN  /\ IsInjective(chosen) /\ Len(chosen) <= count
        /\ ids \subseteq Viable(t)
        /\ \A c, d \in ids : t.records[c].address = t.records[d].address => c = d
        /\ \A c \in ids : /\ Cardinality(SameSource(t, ids, c)) <= PerSource(count)
                          /\ Cardinality(SamePrefix(t, ids, c)) <= MaxSamePrefix
        /\ \A id \in Viable(t) \ ids :
              \/ Cardinality(AtLeast(id)) = count
              \/ ~HasRoom(t, count, AtLeast(id), id)

(* Every selection from every table that can arise is a good one, by the   *)
(* rules of the code.  Those of the documents differ: they exempt trusted  *)
(* sources from the share (TrustedExempt), leave out peers that failed     *)
(* lately (FailedFiltered) and set a plain quarter, where the code leaves  *)
(* every source one place.                                                 *)
SelectionsGood ==
    \A count \in 0 .. MaxOutbound : \A order \in Rankings(table) :
        GoodSelection(table, count, Selected(table, count, order))

-----------------------------------------------------------------------------
(* What the documents say and the code does not do.                        *)

(* docs/PEER_DISCOVERY_ARCHITECTURE.md:182: "Trusted manual/bootstrap      *)
(* peers are exempt from source diversity".  Refuted by a bootstrap peer   *)
(* left out beside one of the same source, with places still free.         *)
TrustedExempt ==
    \A count \in 1 .. MaxOutbound : \A order \in Rankings(table) :
        LET chosen == Range(Selected(table, count, order))
        IN  \A id \in Viable(table) \ chosen :
                /\ \E i \in DOMAIN Bootstrap : \E j \in DOMAIN Bootstrap[i] :
                      table.records[id].source = Bootstrap[i][j].source
                /\ Cardinality(chosen) < count
                => /\ PrefixOf(table, id) # None
                   /\ Cardinality(SamePrefix(table, chosen, id)) >= MaxSamePrefix

(* docs/PEER_SCORING_MODEL.md:107: "Filter out banned and recently failed  *)
(* peers."  Refuted by a selection just after a failure.                   *)
FailedFiltered ==
    \A order \in Rankings(table) :
        \A id \in Range(Selected(table, MaxOutbound, order)) :
            table.records[id].status # "FAILED"

(* docs/PEER_ABUSE_POLICY.md:75: "Bans have a default duration of 1 hour"; *)
(* docs/PEER_SCORING_MODEL.md:67: "Ban duration is dynamic".  Refuted,     *)
(* under any fairness of the table's own steps: nothing in the code lifts  *)
(* a ban because its time is over.                                         *)
BansLapse ==
    \A id \in Ids :
        (id \in DOMAIN table.records /\ IsBanned(table.records[id]))
            ~> ~(id \in DOMAIN table.records /\ IsBanned(table.records[id]))
=============================================================================
