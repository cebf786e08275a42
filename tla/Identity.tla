------------------------------- MODULE Identity -------------------------------
(***************************************************************************)
(* Which device a frame belongs to (db/repo.js): getOrCreateDevice, by     *)
(* IMEI, and resolveDeviceByTerminalId, by the 12 digits of a JT808        *)
(* terminal, over a table to which devices are added meanwhile and a cache *)
(* whose entries last a minute.                                            *)
(*                                                                         *)
(* A row is its IMEI.  Rows are never deleted: archiving only clears the   *)
(* cache, as adding does.  Of the time the model keeps how long ago what   *)
(* may still matter was.                                                   *)
(***************************************************************************)
EXTENDS Naturals, FiniteSets

CONSTANTS Sockets,     \* connections of trackers
          Imeis,       \* the IMEIs of devices, all with the same ending
          Terminal,    \* that ending, the identifier of a JT808 terminal
          Nobody,      \* no row
          TTL,         \* CACHE_TTL_MS, in ticks
          Slow         \* bound: the ticks that a resolution takes

ASSUME IdentifiersAssumption == /\ IsFiniteSet(Imeis)
                                /\ Terminal \notin Imeis
                                /\ Nobody \notin Imeis \cup {Terminal}
ASSUME TimesAssumption == TTL \in Nat /\ Slow \in Nat

VARIABLES devices,     \* the rows of the table
          seen,        \* history: the tables of this tick and of those before
          cache,       \* deviceCache: the row of a key and its age
          clearing,    \* a device was added, and the cache has yet to be cleared
          pc,          \* where the resolution of each socket is
          asked,       \* the key it looks for
          rows,        \* what its query read, or the answer
          lasted       \* the ticks since it began

vars == <<devices, seen, cache, clearing, pc, asked, rows, lasted>>
request == <<pc, asked, rows, lasted>>

Identifiers == Imeis \cup {Terminal}

(* "t:..." for a terminal, and the IMEI otherwise.                         *)
Keys == [prefix : {"t"}, id : {Terminal}] \cup [prefix : {""}, id : Identifiers]
Own(key) == [prefix |-> "", id |-> key.id]

Queries == {"exact", "suffix", "select", "insert"}
NoEntry == [row |-> Nobody, age |-> 0]
TerminalKey == [prefix |-> "t", id |-> Terminal]

Init == /\ devices \in SUBSET Imeis
        /\ seen = [ago \in 0 .. TTL + Slow |-> {devices}]
        /\ cache = [key \in Keys |-> NoEntry]
        /\ clearing = FALSE
        /\ pc = [s \in Sockets |-> "idle"]
        /\ asked = [s \in Sockets |-> TerminalKey]
        /\ rows = [s \in Sockets |-> {}]
        /\ lasted = [s \in Sockets |-> 0]

(* cacheGet of an entry that has not expired.                              *)
Cached(key) == cache[key].row

(* The resolution ends with a row, under the keys it was looked for.       *)
Answer(s, keys, row) ==
    /\ cache' = [key \in Keys |-> IF key \in keys THEN [row |-> row, age |-> 0] ELSE cache[key]]
    /\ pc' = [pc EXCEPT ![s] = "answered"]
    /\ rows' = [rows EXCEPT ![s] = {row}]

Goto(s, place) == /\ pc' = [pc EXCEPT ![s] = place]
                  /\ rows' = [rows EXCEPT ![s] = {}]

(* getOrCreateDevice up to its first query.                                *)
Create(s) == LET key == Own(asked[s]) IN
             IF Cached(key) # Nobody THEN Answer(s, {asked[s]}, Cached(key))
             ELSE Goto(s, "select") /\ UNCHANGED cache

(* A frame with an identity, up to the first query.                        *)
Ask(s, key) ==
    /\ pc[s] = "idle"
    /\ asked' = [asked EXCEPT ![s] = key]
    /\ IF Cached(key) # Nobody THEN Answer(s, {}, Cached(key))
       ELSE /\ Goto(s, IF key.prefix = "t" THEN "exact" ELSE "select")
            /\ UNCHANGED cache
    /\ UNCHANGED <<devices, seen, clearing, lasted>>

Insertion(id) == /\ devices' = devices \cup {id}
                 /\ seen' = [seen EXCEPT ![0] = @ \cup {devices'}]

(* The database executes the query.                                        *)
Query(s) ==
    LET id == asked[s].id IN
    /\ pc[s] \in Queries
    /\ pc' = [pc EXCEPT ![s] = CASE pc[s] = "exact" -> "exact read"
                                 [] pc[s] = "suffix" -> "suffix read"
                                 [] pc[s] = "select" -> "select read"
                                 [] pc[s] = "insert" -> "insert read"]
    /\ rows' = [rows EXCEPT ![s] = CASE pc[s] = "suffix" -> devices
                                     [] pc[s] = "insert" -> {id}
                                     [] OTHER -> devices \cap {id}]
    /\ IF pc[s] = "insert" THEN Insertion(id) ELSE UNCHANGED <<devices, seen>>
    /\ UNCHANGED <<cache, clearing, asked, lasted>>

(* Mutant: the first candidate is taken. *)
SingledFirst(found) == found # {}

(* A suffix names a device if one alone ends with it.                      *)
Singled(found) == Cardinality(found) = 1

(* What the resolution does with the rows.                                 *)
ReturnExact(s) == /\ pc[s] = "exact read"
                  /\ IF rows[s] # {} THEN Answer(s, {asked[s]}, asked[s].id)
                     ELSE Goto(s, "suffix") /\ UNCHANGED cache

ReturnSuffix(s) == /\ pc[s] = "suffix read"
                   /\ IF Singled(rows[s])
                      THEN Answer(s, {asked[s]}, CHOOSE row \in rows[s] : TRUE)
                      ELSE Create(s)

ReturnCreate(s) == /\ pc[s] \in {"select read", "insert read"}
                   /\ IF rows[s] # {} THEN Answer(s, {asked[s], Own(asked[s])}, asked[s].id)
                      ELSE Goto(s, "insert") /\ UNCHANGED cache

Return(s) == /\ ReturnExact(s) \/ ReturnSuffix(s) \/ ReturnCreate(s)
             /\ UNCHANGED <<devices, seen, clearing, asked, lasted>>

(* processDecoded goes on with the device, or without the frame, if the    *)
(* query failed.                                                           *)
Leave(s) == /\ pc[s] = "answered" \/ pc[s] \in Queries
            /\ Goto(s, "idle")
            /\ asked' = [asked EXCEPT ![s] = TerminalKey]
            /\ lasted' = [lasted EXCEPT ![s] = 0]
            /\ UNCHANGED <<devices, seen, cache, clearing>>

(* createOrRestoreDevice: the statement, and then the cache.               *)
Add(imei) == /\ ~clearing /\ clearing' = TRUE
             /\ Insertion(imei)
             /\ UNCHANGED <<cache, request>>
ClearCache == /\ clearing /\ clearing' = FALSE
              /\ cache' = [key \in Keys |-> NoEntry]
              /\ UNCHANGED <<devices, seen, request>>

(* Mutant: an entry does not expire. *)
AgedForEver(entry) == entry

(* cacheGet deletes an entry that is older than its time.                  *)
Aged(entry) == IF entry.age = TTL \/ entry = NoEntry THEN NoEntry
               ELSE [entry EXCEPT !.age = @ + 1]

(* A resolution is not slower than the bound.                              *)
Tick == LET busy == {s \in Sockets : pc[s] # "idle"} IN
        /\ \A s \in busy : lasted[s] < Slow
        /\ lasted' = [s \in Sockets |-> IF s \in busy THEN lasted[s] + 1 ELSE 0]
        /\ cache' = [key \in Keys |-> Aged(cache[key])]
        /\ seen' = [ago \in DOMAIN seen |-> IF ago = 0 THEN {devices} ELSE seen[ago - 1]]
        /\ UNCHANGED <<devices, clearing, pc, asked, rows>>

(* The process starts again: the table is what is left.                    *)
Restart == /\ cache' = [key \in Keys |-> NoEntry] /\ clearing' = FALSE
           /\ pc' = [s \in Sockets |-> "idle"]
           /\ rows' = [s \in Sockets |-> {}]
           /\ asked' = [s \in Sockets |-> TerminalKey]
           /\ lasted' = [s \in Sockets |-> 0]
           /\ UNCHANGED <<devices, seen>>

Step(s) == (\E key \in Keys : Ask(s, key)) \/ Query(s) \/ Return(s) \/ Leave(s)
Next == \/ \E s \in Sockets : Step(s)
        \/ \E imei \in Imeis : Add(imei)
        \/ ClearCache \/ Tick \/ Restart

Spec == Init /\ [][Next]_vars

-----------------------------------------------------------------------------
(* The three rules of the comment at repo.js:67, over one table.           *)
Rule(id, table) == IF id = Terminal /\ id \notin table /\ Cardinality(table) = 1
                   THEN CHOOSE imei \in table : TRUE
                   ELSE id

Recent == UNION {seen[ago] : ago \in DOMAIN seen}

(* "Nunca adivinamos entre varios candidatos" (repo.js:72), and "el cambio *)
(* se refleja solo" (repo.js:8): whichever queries, additions and answers  *)
(* overlap, the device of a frame is the one that the rules gave for some  *)
(* table of the last minute, or since the resolution that was kept began.  *)
AnswersWereRight ==
    [][\A s \in Sockets : pc[s] # "answered" /\ pc'[s] = "answered" =>
          \E table \in Recent : rows'[s] = {Rule(asked'[s].id, table)}]_vars
=============================================================================
