----------------------------- MODULE AgentPool ------------------------------
(***************************************************************************)
(* The generations of a project's agents:                                  *)
(* agent/src/web/model-selection/{reloadable,runtime}.ts.  An edit of the   *)
(* settings makes later turns build a new generation of agents; the turns   *)
(* (and background jobs) that use an older one keep it, with its MCP        *)
(* clients, until the last of them has released it.  A turn reads the       *)
(* settings' revision before it acquires a generation, and the first turn   *)
(* of a generation builds its agent from the settings as they are by then.  *)
(***************************************************************************)
EXTENDS Naturals, FiniteSets

CONSTANTS
  Leases,    \* turns and background jobs that come to use the pool
  Revisions, \* revisions of the settings that agents are built from
  MaxGens    \* bound: generations built

ASSUME LeasesAssumption == IsFiniteSet(Leases)
ASSUME GensAssumption == MaxGens \in Nat

VARIABLES
  revision, \* the settings' current revision
  current,  \* the generation that new turns use, or 0
  built,    \* generations built so far; they are numbered from 1
  gen,      \* PoolGeneration, and how far its pool's end has come
  lease,    \* the leases
  stopped   \* close() has been called

vars == <<revision, current, built, gen, lease, stopped>>

Gens == 1..MaxGens
Generation == [pool : {"none", "open", "closing", "closed"}, revision : Revisions,
               users : Nat, retired : BOOLEAN,
               tools : SUBSET Revisions]  \* the settings its agent was built from, if it was
Opened(r) == [pool |-> "open", revision |-> r, users |-> 1, retired |-> FALSE, tools |-> {}]
Unbuilt(r) == [pool |-> "none", revision |-> r, users |-> 0, retired |-> FALSE, tools |-> {}]

\* A lease: where its turn is, its generation, the one whose end it waits for, and the
\* revision the turn has read.
Lease == [pc : {"idle", "reading", "acquiring", "using", "released"},
          gen : 0..MaxGens, waits : 0..MaxGens, revision : Revisions]

Init ==
  /\ revision \in Revisions
  /\ current = 0 /\ built = 0
  /\ gen = [g \in Gens |-> Unbuilt(revision)]
  /\ lease = [l \in Leases |-> [pc |-> "idle", gen |-> 0, waits |-> 0,
                                revision |-> revision]]
  /\ stopped = FALSE

-----------------------------------------------------------------------------
\* A mutant of Retire: a pool with users is closed.
RetireUsed(g) == IF g.retired /\ g.pool = "open" THEN [g EXCEPT !.pool = "closing"] ELSE g

\* retire(): the pool of a retired generation ends with its last user.  A pool
\* that is open is one in the set of generations.
Retire(g) ==
  IF g.retired /\ g.users = 0 /\ g.pool = "open" THEN [g EXCEPT !.pool = "closing"] ELSE g

\* The settings change.
Edit(r) ==
  /\ revision' = r
  /\ UNCHANGED <<current, built, gen, lease, stopped>>

\* projectGenerator(): a turn reads the revision, and awaits.
ReadRevision(l) ==
  /\ ~stopped /\ lease[l].pc = "idle"  \* shutdown.ts closes the runs before the pool
  /\ lease' = [lease EXCEPT ![l] = [pc |-> "reading", gen |-> 0, waits |-> 0,
                                    revision |-> revision]]
  /\ UNCHANGED <<revision, current, built, gen, stopped>>

\* Is the current generation of the revision that turn l has read?
Current(l) == current # 0 /\ gen[current].revision = lease[l].revision

Acquiring(l, g, w) == [lease[l] EXCEPT !.pc = "acquiring", !.gen = g, !.waits = w]

\* acquire(), up to its first await: use the current generation, ...
AcquireCurrent(l) ==
  /\ ~stopped /\ lease[l].pc = "reading"
  /\ Current(l)
  /\ gen' = [gen EXCEPT ![current].users = @ + 1]
  /\ lease' = [lease EXCEPT ![l] = Acquiring(l, current, 0)]
  /\ UNCHANGED <<revision, current, built, stopped>>

\* Is there a generation before this one, which ends as soon as it is retired?
Unused(g) == g # 0 /\ gen[g].users = 0

\* ... or build one and retire the one before it; its end is awaited if it begins here.
AcquireNew(l) ==
  /\ ~stopped /\ lease[l].pc = "reading"
  /\ ~Current(l)
  /\ built < MaxGens
  /\ built' = built + 1 /\ current' = built + 1
  /\ gen' = [g \in Gens |->
               IF g = built + 1 THEN Opened(lease[l].revision)
               ELSE IF g = current THEN Retire([gen[g] EXCEPT !.retired = TRUE])
               ELSE gen[g]]
  /\ lease' = [lease EXCEPT ![l] = Acquiring(l, built + 1, IF Unused(current) THEN current ELSE 0)]
  /\ UNCHANGED <<revision, stopped>>

\* close() of the generation before has returned, if this lease's acquire() began it.
Waited(l) == lease[l].waits # 0 => gen[lease[l].waits].pool # "closing"

\* forSelection() builds the agent, once for all that wait for it: buildTools() asks
\* the settings again.
BuildAgent(l) ==
  /\ lease[l].pc = "acquiring" /\ Waited(l)
  /\ gen[lease[l].gen].tools = {}
  /\ gen' = [gen EXCEPT ![lease[l].gen].tools = {revision}]
  /\ UNCHANGED <<revision, current, built, lease, stopped>>

\* The agent is there.
AcquireDone(l) ==
  /\ lease[l].pc = "acquiring" /\ Waited(l)
  /\ gen[lease[l].gen].tools # {}
  /\ lease' = [lease EXCEPT ![l].pc = "using"]
  /\ UNCHANGED <<revision, current, built, gen, stopped>>

\* A background job keeps the agents of the turn that starts it.
RetainFor(l, m) ==
  /\ lease[m].pc = "using" /\ lease[l].pc = "idle"
  /\ gen' = [gen EXCEPT ![lease[m].gen].users = @ + 1]
  /\ lease' = [lease EXCEPT ![l] = [lease[m] EXCEPT !.waits = 0]]
  /\ UNCHANGED <<revision, current, built, stopped>>

Released(l) == lease[l].pc = "released"

Left(g) == [g EXCEPT !.users = @ - 1]

\* release(): by a turn's stream and its response, by a job, or by an acquire()
\* that fails; only the first one counts.
Release(l) ==
  /\ lease[l].pc \in {"acquiring", "using", "released"}
  /\ IF Released(l) THEN UNCHANGED <<gen, lease>>
     ELSE /\ gen' = [gen EXCEPT ![lease[l].gen] = Retire(Left(@))]
          /\ lease' = [lease EXCEPT ![l].pc = "released"]
  /\ UNCHANGED <<revision, current, built, stopped>>

PoolClosed(g) ==
  /\ gen[g].pool = "closing"
  /\ gen' = [gen EXCEPT ![g].pool = "closed"]
  /\ UNCHANGED <<revision, current, built, lease, stopped>>

\* close(): every generation is retired, the idle ones end.
Close ==
  /\ ~stopped /\ stopped' = TRUE
  /\ gen' = [g \in Gens |-> IF gen[g].pool = "open"
                             THEN Retire([gen[g] EXCEPT !.retired = TRUE]) ELSE gen[g]]
  /\ UNCHANGED <<revision, current, built, lease>>

Next ==
  \/ \E r \in Revisions : Edit(r)
  \/ \E l \in Leases : ReadRevision(l) \/ AcquireCurrent(l) \/ AcquireNew(l)
                       \/ BuildAgent(l) \/ AcquireDone(l) \/ Release(l)
  \/ \E l, m \in Leases : RetainFor(l, m)
  \/ \E g \in Gens : PoolClosed(g)
  \/ Close

Spec == Init /\ [][Next]_vars

-----------------------------------------------------------------------------
(* Properties.                                                             *)

Holders(g) == {l \in Leases : lease[l].pc \in {"acquiring", "using"} /\ lease[l].gen = g}

TypeOK ==
  /\ revision \in Revisions
  /\ built \in 0..MaxGens /\ current \in 0..built
  /\ gen \in [Gens -> Generation]
  /\ lease \in [Leases -> Lease]
  /\ \A l \in Leases :
       /\ lease[l].gen <= built /\ lease[l].waits <= built
       /\ lease[l].pc \in {"acquiring", "using", "released"} => lease[l].gen # 0
  /\ stopped \in BOOLEAN

\* "In-flight turns retain their MCP clients until their stream and response have
\* both finished": the pool of a lease is open until the lease is released, however
\* edits, retirements, repeated releases and background jobs interleave.
UsedIsOpen ==
  \A l \in Leases : lease[l].pc \in {"acquiring", "using"} => gen[lease[l].gen].pool = "open"

\* No pool is forgotten: a generation that nobody uses, other than the current one,
\* is closed or being closed; after close() this holds of the current one too.
NoneForgotten ==
  \A g \in Gens :
    gen[g].pool = "open" /\ Holders(g) = {} => g = current /\ ~stopped
=============================================================================
