----------------------------- MODULE MemoryCache -----------------------------
(* One user's confirmed memories: rows in the database, one per key, with the  *)
(* whole list cached in Redis and copied into the file the agent reads before  *)
(* every run.  The cache is read through and deleted after a write; it fails   *)
(* open, that is, silently.                                                    *)
(*                                                                             *)
(* The value of a memory is the number of the commit that wrote it, so a       *)
(* larger value is a newer one.                                                *)
EXTENDS Naturals

CONSTANTS
    Keys,         \* memory keys
    Callers,      \* the tools and runs that can be calling at a time
    MaxCalls,     \* bound: calls in all
    Absent

ASSUME MemoryCacheAssumption == MaxCalls \in Nat

VARIABLES
    rows,         \* table user_memories: the value of each key, 0 if it has no row
    commits,      \* writes committed so far
    cache,        \* the cached list and whether its entry has a TTL, or Absent
    file,         \* /memories/confirmed.md in the agent's store, or Absent
    call,         \* the calls in progress
    made,         \* calls made so far
    settled,      \* history: the newest value of a key whose remember has returned
    calm          \* history: no remember overlapped a call or failed to invalidate

memoryVars == <<rows, commits, cache, file, call, made, settled, calm>>

Nothing == [k \in Keys |-> 0]

Idle == [pc |-> "idle", kind |-> Absent,
         key |-> Absent, found |-> FALSE, value |-> 0,  \* remember
         list |-> Nothing,                              \* list and sync
         floor |-> Nothing]                             \* settled when it began

Active(c) == call[c].pc # "idle"

Goto(c, l) == call' = [call EXCEPT ![c].pc = l]

Got(c, l, list) == call' = [call EXCEPT ![c] = [@ EXCEPT !.pc = l, !.list = list]]

Finish(c) == call' = [call EXCEPT ![c] = Idle]

(* Where a call goes with its list: list_confirmed_memories answers it, a run  *)
(* of the agent first writes it to the file.                                   *)
AfterList(c) == IF call[c].kind = "sync" THEN "put" ELSE "told"

-----------------------------------------------------------------------------
MemoryInit ==
    /\ rows = Nothing
    /\ commits = 0
    /\ cache = Absent
    /\ file = Absent
    /\ call = [c \in Callers |-> Idle]
    /\ made = 0
    /\ settled = Nothing
    /\ calm = TRUE

Overlaps(c, kind) ==
    \E d \in Callers \ {c} : Active(d) /\ (kind = "remember" \/ call[d].kind = "remember")

Begin(c) ==
    /\ ~Active(c)
    /\ made < MaxCalls
    /\ made' = made + 1
    /\ \/ \E k \in Keys :
             call' = [call EXCEPT ![c] = [Idle EXCEPT !.pc = "select", !.kind = "remember",
                                                      !.key = k]]
       \/ \E kind \in {"list", "sync"} :
             call' = [call EXCEPT ![c] = [Idle EXCEPT !.pc = "lookup", !.kind = kind,
                                                      !.floor = settled]]
    /\ calm' = (calm /\ ~Overlaps(c, call'[c].kind))
    /\ UNCHANGED <<rows, commits, cache, file, settled>>

-----------------------------------------------------------------------------
(* remember(confirmed=True): save_memory looks for a row of the key ...        *)
Select(c) ==
    /\ call[c].pc = "select"
    /\ call' = [call EXCEPT ![c] = [@ EXCEPT !.found = rows[call[c].key] # 0,
                                             !.pc = "write"]]
    /\ UNCHANGED <<rows, commits, cache, file, made, settled, calm>>

\* Mutant: only the update of a row invalidates the cache.
WriteInvalidatesUpdates(c) ==
    LET k == call[c].key IN
    /\ call[c].pc = "write"
    /\ IF call[c].found \/ rows[k] = 0
       THEN /\ rows' = [rows EXCEPT ![k] = commits + 1]
            /\ commits' = commits + 1
            /\ IF call[c].found
               THEN /\ call' = [call EXCEPT ![c] = [@ EXCEPT !.pc = "invalidate",
                                                             !.value = commits + 1]]
                    /\ UNCHANGED settled
               ELSE /\ Finish(c)
                    /\ settled' = [settled EXCEPT ![k] = commits + 1]
       ELSE Finish(c) /\ UNCHANGED <<rows, commits, settled>>
    /\ UNCHANGED <<cache, file, made, calm>>

(* ... and updates or inserts it; an insert that lost a race fails on the      *)
(* unique constraint, and the call with it.                                    *)
Write(c) ==
    LET k == call[c].key IN
    /\ call[c].pc = "write"
    /\ IF call[c].found \/ rows[k] = 0
       THEN /\ rows' = [rows EXCEPT ![k] = commits + 1]
            /\ commits' = commits + 1
            /\ call' = [call EXCEPT ![c] = [@ EXCEPT !.pc = "invalidate",
                                                     !.value = commits + 1]]
       ELSE Finish(c) /\ UNCHANGED <<rows, commits>>
    /\ UNCHANGED <<cache, file, made, settled, calm>>

(* The cached list is deleted, or Redis fails and the call returns all the     *)
(* same.                                                                       *)
Invalidate(c) ==
    LET k == call[c].key IN
    /\ call[c].pc = "invalidate"
    /\ \/ cache' = Absent /\ UNCHANGED calm
       \/ calm' = FALSE /\ UNCHANGED cache
    /\ settled' = [settled EXCEPT ![k] = IF call[c].value > @ THEN call[c].value ELSE @]
    /\ Finish(c)
    /\ UNCHANGED <<rows, commits, file, made>>

-----------------------------------------------------------------------------
(* list_for: a hit is the answer; a miss, or Redis failing, goes to the        *)
(* database.                                                                   *)
Lookup(c) ==
    /\ call[c].pc = "lookup"
    /\ \/ cache # Absent /\ Got(c, AfterList(c), cache.list)
       \/ Goto(c, "read")
    /\ UNCHANGED <<rows, commits, cache, file, made, settled, calm>>

Read(c) ==
    /\ call[c].pc = "read"
    /\ Got(c, "fill", rows)
    /\ UNCHANGED <<rows, commits, cache, file, made, settled, calm>>

\* Mutant: the entry is set without an expiry.
FillForever(c) ==
    /\ call[c].pc = "fill"
    /\ \/ cache' = [list |-> call[c].list, ttl |-> FALSE]
       \/ UNCHANGED cache
    /\ Goto(c, AfterList(c))
    /\ UNCHANGED <<rows, commits, file, made, settled, calm>>

(* The list that was read fills the cache, whatever was remembered since; a    *)
(* failure of Redis is ignored.                                                *)
Fill(c) ==
    /\ call[c].pc = "fill"
    /\ \/ cache' = [list |-> call[c].list, ttl |-> TRUE]
       \/ UNCHANGED cache
    /\ Goto(c, AfterList(c))
    /\ UNCHANGED <<rows, commits, file, made, settled, calm>>

(* _sync_confirmed_memory writes the list to the file ...                      *)
Put(c) ==
    /\ call[c].pc = "put"
    /\ file' = call[c].list
    /\ Goto(c, "load")
    /\ UNCHANGED <<rows, commits, cache, made, settled, calm>>

(* ... and the run that follows works with what the file holds by then.        *)
Load(c) ==
    /\ call[c].pc = "load"
    /\ Got(c, "told", file)
    /\ UNCHANGED <<rows, commits, cache, file, made, settled, calm>>

Return(c) ==
    /\ call[c].pc = "told"
    /\ Finish(c)
    /\ UNCHANGED <<rows, commits, cache, file, made, settled, calm>>

(* The process ends, the call is cancelled, or a store cannot be used.         *)
Crash(c) ==
    /\ Active(c)
    /\ Finish(c)
    /\ UNCHANGED <<rows, commits, cache, file, made, settled, calm>>

(* The TTL of the entry runs out, or Redis evicts it.                          *)
Expire ==
    /\ cache # Absent
    /\ cache.ttl
    /\ cache' = Absent
    /\ UNCHANGED <<rows, commits, file, call, made, settled, calm>>

MemoryNext ==
    \/ \E c \in Callers :
          \/ Begin(c)
          \/ Select(c)
          \/ Write(c)
          \/ Invalidate(c)
          \/ Lookup(c)
          \/ Read(c)
          \/ Fill(c)
          \/ Put(c)
          \/ Load(c)
          \/ Return(c)
          \/ Crash(c)
    \/ Expire

(* Time passes: an entry that stays in the cache expires.  No call is assumed  *)
(* to go on.                                                                   *)
MemorySpec == MemoryInit /\ [][MemoryNext]_memoryVars /\ WF_memoryVars(Expire)

-----------------------------------------------------------------------------
(* Immediate invalidation: whoever asks after a remember has returned, the     *)
(* user through the tool or a run through its file, is told that memory or a   *)
(* newer one.                                                                  *)
ReadsSettled ==
    \A c \in Callers : call[c].pc = "told" =>
        \A k \in Keys : call[c].list[k] >= call[c].floor[k]

(* That is so as long as no remember overlaps another call of the same user    *)
(* and no deletion of the entry fails; readers may overlap, calls end half-way *)
(* and Redis fail to read or to store.                                         *)
CalmReadsSettled == calm => ReadsSettled

(* What goes wrong otherwise mends itself: a cached list that differs from the *)
(* database does not stay, even if nobody remembers or asks again.             *)
StaleEnds ==
    LET Stale == cache # Absent /\ cache.list # rows IN Stale ~> ~Stale

=============================================================================
