---------------------------- MODULE IdentityProofs ----------------------------
(***************************************************************************)
(* The device of a frame is the one that the three rules gave for a recent *)
(* table: for any number of connections and of devices with one ending,    *)
(* any life of a cache entry and any length of a resolution.               *)
(***************************************************************************)
EXTENDS Identity, FiniteSetTheorems, TLAPS

Places == {"idle", "answered",
           "exact", "suffix", "select", "insert",
           "exact read", "suffix read", "select read", "insert read"}
Entries == [row : Identifiers \cup {Nobody}, age : 0 .. TTL]
Past == 0 .. TTL + Slow

TypeOK == /\ devices \in SUBSET Identifiers
          /\ seen \in [Past -> SUBSET SUBSET Identifiers]
          /\ cache \in [Keys -> Entries]
          /\ clearing \in BOOLEAN
          /\ pc \in [Sockets -> Places]
          /\ asked \in [Sockets -> Keys]
          /\ rows \in [Sockets -> SUBSET Identifiers]
          /\ lasted \in [Sockets -> 0 .. Slow]

(* The row of an entry was right when its resolution read the table, which *)
(* was no longer ago than the entry is old and a resolution lasts.         *)
Justified(key, entry, tables, table) ==
    IF key.prefix = "" THEN entry.row = key.id /\ entry.row \in table
    ELSE \E ago \in 0 .. entry.age + Slow : \E old \in tables[ago] : entry.row = Rule(Terminal, old)

CacheIsRight == \A key \in Keys : cache[key].row # Nobody => Justified(key, cache[key], seen, devices)

(* A resolution by suffix holds a table of since it began; any other holds *)
(* at most the row of its own identifier.                                  *)
ReadsAreRight(s) ==
    /\ pc[s] \in {"exact", "exact read", "suffix", "suffix read"} => asked[s] = TerminalKey
    /\ pc[s] \in {"exact read", "select read", "insert read"} => rows[s] \subseteq {asked[s].id} \cap devices
    /\ pc[s] = "suffix read" => \E ago \in 0 .. lasted[s] : rows[s] \in seen[ago]

IInv == /\ TypeOK
        /\ devices \in seen[0]
        /\ CacheIsRight
        /\ \A s \in Sockets : ReadsAreRight(s)

(* Every key names one of the identifiers, and the prefixed one the        *)
(* terminal.                                                               *)
LEMMA KeyShape ==
    /\ TerminalKey \in Keys /\ TerminalKey.prefix = "t" /\ TerminalKey.id = Terminal
    /\ \A key \in Keys : /\ key.id \in Identifiers /\ key.prefix \in {"", "t"}
                         /\ key.prefix = "t" => key = TerminalKey
                         /\ Own(key) \in Keys /\ Own(key).prefix = "" /\ Own(key).id = key.id
<1>1. TerminalKey \in Keys /\ TerminalKey.prefix = "t" /\ TerminalKey.id = Terminal
    BY DEF TerminalKey, Keys
<1>2. ASSUME NEW key \in Keys
      PROVE  /\ key.id \in Identifiers /\ key.prefix \in {"", "t"}
             /\ key.prefix = "t" => key = TerminalKey
             /\ Own(key) \in Keys /\ Own(key).prefix = "" /\ Own(key).id = key.id
  <2>1. CASE key \in [prefix : {"t"}, id : {Terminal}]
    <3>1. key.prefix = "t" /\ key.id = Terminal /\ Terminal \in Identifiers
        BY <2>1 DEF Identifiers
    <3>2. key = TerminalKey
        BY <2>1 DEF TerminalKey
    <3> QED BY <3>1, <3>2 DEF Own, Keys
  <2>2. CASE key \in [prefix : {""}, id : Identifiers]
    <3>1. key.prefix = "" /\ key.id \in Identifiers
        BY <2>2
    <3> QED BY <3>1 DEF Own, Keys
  <2> QED BY <2>1, <2>2 DEF Keys
<1> QED BY <1>1, <1>2

LEMMA NobodyIsNoIdentifier == Nobody \notin Identifiers
BY IdentifiersAssumption DEF Identifiers

(* A device that is in the table under its very identifier is the answer   *)
(* of the rules, the first one or the third.                               *)
LEMMA ExactRule == ASSUME NEW id, NEW table, id # Terminal \/ id \in table
                   PROVE  Rule(id, table) = id
BY DEF Rule

(* One candidate alone is the answer of the rules.                         *)
LEMMA SingleRule ==
    ASSUME NEW table \in SUBSET Identifiers, Singled(table)
    PROVE  /\ (CHOOSE row \in table : TRUE) = Rule(Terminal, table)
           /\ (CHOOSE row \in table : TRUE) \in Identifiers
<1>1. IsFiniteSet(Identifiers)
    BY IdentifiersAssumption, FS_AddElement DEF Identifiers
<1>2. IsFiniteSet(table)
    BY <1>1, FS_Subset
<1>3. PICK one : table = {one}
    BY <1>2, FS_Singleton DEF Singled
<1>4. (CHOOSE row \in table : TRUE) = one
    BY <1>3
<1>5. CASE Terminal \in table
    BY <1>3, <1>4, <1>5 DEF Rule
<1>6. CASE Terminal \notin table
    BY <1>3, <1>4, <1>6 DEF Rule, Singled
<1> QED BY <1>3, <1>4, <1>5, <1>6

LEMMA Beginning == Init => IInv
<1> SUFFICES ASSUME Init PROVE IInv
    OBVIOUS
<1>1. Past # {} /\ 0 \in Past /\ 0 \in 0 .. TTL /\ 0 \in 0 .. Slow
    BY TimesAssumption DEF Past
<1>2. devices \in SUBSET Identifiers
    BY DEF Init, Identifiers
<1>3. seen \in [Past -> SUBSET SUBSET Identifiers] /\ devices \in seen[0]
    BY <1>1, <1>2 DEF Init, Past
<1>4. cache \in [Keys -> Entries] /\ CacheIsRight
    BY <1>1 DEF Init, NoEntry, Entries, CacheIsRight
<1>5. /\ pc \in [Sockets -> Places] /\ asked \in [Sockets -> Keys]
      /\ rows \in [Sockets -> SUBSET Identifiers] /\ lasted \in [Sockets -> 0 .. Slow]
      /\ clearing \in BOOLEAN
    BY <1>1, KeyShape DEF Init, Places
<1>6. \A s \in Sockets : ReadsAreRight(s)
    BY DEF Init, ReadsAreRight
<1> QED BY <1>2, <1>3, <1>4, <1>5, <1>6 DEF IInv, TypeOK

(* What a step that ends a resolution does with a row that the rules gave. *)
LEMMA AnswerKeeps ==
    ASSUME IInv, NEW s \in Sockets, NEW keys \in SUBSET Keys, NEW row \in Identifiers,
           Answer(s, keys, row),
           \A key \in keys : Justified(key, [row |-> row, age |-> 0], seen, devices)
    PROVE  /\ cache' \in [Keys -> Entries]
           /\ pc' \in [Sockets -> Places] /\ pc'[s] = "answered"
           /\ rows' \in [Sockets -> SUBSET Identifiers] /\ rows'[s] = {row}
           /\ \A other \in Sockets \ {s} : pc'[other] = pc[other] /\ rows'[other] = rows[other]
           /\ \A key \in Keys : cache'[key].row # Nobody => Justified(key, cache'[key], seen, devices)
<1> DEFINE new == [row |-> row, age |-> 0]
<1>1. new \in Entries
    BY TimesAssumption DEF Entries
<1>2. /\ cache' = [key \in Keys |-> IF key \in keys THEN new ELSE cache[key]]
      /\ cache \in [Keys -> Entries] /\ CacheIsRight
    BY DEF Answer, IInv, TypeOK
<1>3. cache' \in [Keys -> Entries]
    BY <1>1, <1>2
<1>4. ASSUME NEW key \in Keys, cache'[key].row # Nobody
      PROVE  Justified(key, cache'[key], seen, devices)
  <2>1. CASE key \in keys
      BY <1>2, <2>1
  <2>2. CASE key \notin keys
      BY <1>2, <1>4, <2>2 DEF CacheIsRight
  <2> QED BY <2>1, <2>2
<1>5. /\ pc' \in [Sockets -> Places] /\ pc'[s] = "answered"
      /\ rows' \in [Sockets -> SUBSET Identifiers] /\ rows'[s] = {row}
      /\ \A other \in Sockets \ {s} : pc'[other] = pc[other] /\ rows'[other] = rows[other]
    BY DEF Answer, IInv, TypeOK, Places
<1> QED BY <1>3, <1>4, <1>5

(* What a step that goes on with a resolution changes.                     *)
LEMMA GotoKeeps ==
    ASSUME IInv, NEW s \in Sockets, NEW place \in Places, Goto(s, place)
    PROVE  /\ pc' \in [Sockets -> Places] /\ pc'[s] = place
           /\ rows' \in [Sockets -> SUBSET Identifiers] /\ rows'[s] = {}
           /\ \A other \in Sockets \ {s} : pc'[other] = pc[other] /\ rows'[other] = rows[other]
BY DEF Goto, IInv, TypeOK

(* What is in the cache was right for a table of the recent past.          *)
LEMMA CachedIsRight ==
    ASSUME IInv, NEW key \in Keys, Cached(key) # Nobody
    PROVE  /\ Cached(key) \in Identifiers
           /\ \E table \in Recent : Cached(key) = Rule(key.id, table)
           /\ key.prefix = "" => Cached(key) = key.id /\ key.id \in devices
<1>1. cache[key] \in Entries /\ Justified(key, cache[key], seen, devices)
    BY DEF IInv, TypeOK, CacheIsRight, Cached
<1>2. Cached(key) \in Identifiers
    BY <1>1 DEF Entries, Cached
<1>3. DOMAIN seen = Past /\ devices \in seen[0] /\ 0 \in Past
    BY TimesAssumption DEF IInv, TypeOK, Past
<1>4. CASE key.prefix = ""
  <2>1. Cached(key) = key.id /\ key.id \in devices
      BY <1>1, <1>4 DEF Justified, Cached
  <2>2. devices \in Recent
      BY <1>3 DEF Recent
  <2> QED BY <1>2, <2>1, <2>2, ExactRule
<1>5. CASE key.prefix # ""
  <2>1. key = TerminalKey /\ key.id = Terminal
      BY <1>5, KeyShape
  <2>2. PICK ago \in 0 .. cache[key].age + Slow :
            \E table \in seen[ago] : Cached(key) = Rule(Terminal, table)
      BY <1>1, <1>5 DEF Justified, Cached
  <2>3. ago \in Past
      BY <1>1, TimesAssumption DEF Entries, Past
  <2>4. seen[ago] \subseteq Recent
      BY <1>3, <2>3 DEF Recent
  <2> QED BY <1>2, <1>5, <2>1, <2>2, <2>4
<1> QED BY <1>4, <1>5

(* The table as it is now justifies the device of an identifier in it.     *)
LEMMA ExactIsJustified ==
    ASSUME IInv, NEW key \in Keys, key.id \in devices
    PROVE  /\ Justified(key, [row |-> key.id, age |-> 0], seen, devices)
           /\ Justified(Own(key), [row |-> key.id, age |-> 0], seen, devices)
           /\ devices \in Recent
<1>1. devices \in seen[0] /\ DOMAIN seen = Past /\ 0 \in Past /\ 0 \in 0 .. 0 + Slow
    BY TimesAssumption DEF IInv, TypeOK, Past
<1>2. Justified(key, [row |-> key.id, age |-> 0], seen, devices)
  <2>1. CASE key.prefix = ""
      BY <2>1 DEF Justified
  <2>2. CASE key.prefix # ""
    <3>1. key.id = Terminal
        BY <2>2, KeyShape
    <3>2. key.id = Rule(Terminal, devices)
        BY <3>1, ExactRule
    <3> QED BY <1>1, <2>2, <3>2 DEF Justified
  <2> QED BY <2>1, <2>2
<1>3. Justified(Own(key), [row |-> key.id, age |-> 0], seen, devices)
    BY KeyShape DEF Justified
<1>4. devices \in Recent
    BY <1>1 DEF Recent
<1> QED BY <1>2, <1>3, <1>4

(* Nothing changes for a resolution that is not the one of the step.       *)
LEMMA OthersKeep ==
    ASSUME IInv, NEW other \in Sockets,
           pc'[other] = pc[other], rows'[other] = rows[other],
           asked'[other] = asked[other], lasted'[other] = lasted[other],
           UNCHANGED <<devices, seen>>
    PROVE  ReadsAreRight(other)'
<1>1. ReadsAreRight(other)
    BY DEF IInv
<1> QED BY <1>1 DEF ReadsAreRight

-----------------------------------------------------------------------------
LEMMA AskKeeps == ASSUME IInv, NEW s \in Sockets, NEW key \in Keys, Ask(s, key)
                  PROVE  IInv'
<1>1. /\ asked' = [asked EXCEPT ![s] = key]
      /\ UNCHANGED <<devices, seen, clearing, lasted>>
    BY DEF Ask
<1>2. /\ asked' \in [Sockets -> Keys] /\ asked'[s] = key
      /\ \A other \in Sockets \ {s} : asked'[other] = asked[other]
    BY <1>1 DEF IInv, TypeOK
<1>3. CASE Cached(key) # Nobody
  <2>1. Answer(s, {}, Cached(key)) /\ Cached(key) \in Identifiers
      BY <1>3, CachedIsRight DEF Ask
  <2>2. /\ cache' \in [Keys -> Entries]
        /\ pc' \in [Sockets -> Places] /\ pc'[s] = "answered"
        /\ rows' \in [Sockets -> SUBSET Identifiers]
        /\ \A other \in Sockets \ {s} : pc'[other] = pc[other] /\ rows'[other] = rows[other]
        /\ \A k \in Keys : cache'[k].row # Nobody => Justified(k, cache'[k], seen, devices)
    <3>1. \A k \in {} : Justified(k, [row |-> Cached(key), age |-> 0], seen, devices)
        OBVIOUS
    <3>2. {} \in SUBSET Keys
        OBVIOUS
    <3> QED BY ONLY IInv, s \in Sockets, <2>1, <3>1, <3>2, AnswerKeeps
  <2>3. TypeOK' /\ devices' \in seen'[0]
      BY <1>1, <1>2, <2>2 DEF IInv, TypeOK
  <2>4. CacheIsRight'
      BY <1>1, <2>2 DEF CacheIsRight
  <2>5. ReadsAreRight(s)'
      BY <2>2 DEF ReadsAreRight
  <2>6. \A other \in Sockets \ {s} : ReadsAreRight(other)'
      BY <1>1, <1>2, <2>2, OthersKeep
  <2> QED BY <2>3, <2>4, <2>5, <2>6 DEF IInv
<1>4. CASE Cached(key) = Nobody
  <2> DEFINE place == IF key.prefix = "t" THEN "exact" ELSE "select"
  <2>1. Goto(s, place) /\ place \in Places /\ UNCHANGED cache
      BY <1>4 DEF Ask, Places
  <2>2. /\ pc' \in [Sockets -> Places] /\ pc'[s] = place
        /\ rows' \in [Sockets -> SUBSET Identifiers]
        /\ \A other \in Sockets \ {s} : pc'[other] = pc[other] /\ rows'[other] = rows[other]
      BY <2>1, GotoKeeps
  <2>3. TypeOK' /\ devices' \in seen'[0]
      BY <1>1, <1>2, <2>1, <2>2 DEF IInv, TypeOK
  <2>4. CacheIsRight'
      BY <1>1, <2>1 DEF IInv, CacheIsRight
  <2>5. ReadsAreRight(s)'
      BY <1>2, <2>2, KeyShape DEF ReadsAreRight
  <2>6. \A other \in Sockets \ {s} : ReadsAreRight(other)'
      BY <1>1, <1>2, <2>2, OthersKeep
  <2> QED BY <2>3, <2>4, <2>5, <2>6 DEF IInv
<1> QED BY <1>3, <1>4

(* A larger table justifies what the smaller one did.                      *)
LEMMA InsertionKeeps ==
    ASSUME IInv, NEW id \in Identifiers, Insertion(id)
    PROVE  /\ devices' \in SUBSET Identifiers /\ devices \subseteq devices' /\ id \in devices'
           /\ seen' \in [Past -> SUBSET SUBSET Identifiers]
           /\ devices' \in seen'[0]
           /\ \A ago \in Past : seen[ago] \subseteq seen'[ago]
           /\ cache' = cache => CacheIsRight'
<1>1. 0 \in Past
    BY TimesAssumption DEF Past
<1>2. /\ devices' = devices \cup {id}
      /\ seen' = [seen EXCEPT ![0] = @ \cup {devices'}]
      /\ devices \in SUBSET Identifiers /\ seen \in [Past -> SUBSET SUBSET Identifiers]
    BY DEF Insertion, IInv, TypeOK
<1>3. devices' \in SUBSET Identifiers /\ devices \subseteq devices' /\ id \in devices'
    BY <1>2
<1>4. /\ seen' \in [Past -> SUBSET SUBSET Identifiers] /\ devices' \in seen'[0]
      /\ \A ago \in Past : seen[ago] \subseteq seen'[ago]
    BY <1>1, <1>2, <1>3
<1>5. ASSUME cache' = cache, NEW key \in Keys, cache[key].row # Nobody
      PROVE  Justified(key, cache[key], seen', devices')
  <2>1. Justified(key, cache[key], seen, devices) /\ cache[key].age \in 0 .. TTL
      BY <1>5 DEF IInv, TypeOK, CacheIsRight, Entries
  <2>2. 0 .. cache[key].age + Slow \subseteq Past
      BY <2>1, TimesAssumption DEF Past
  <2> QED BY <1>3, <1>4, <2>1, <2>2 DEF Justified
<1> QED BY <1>3, <1>4, <1>5 DEF CacheIsRight

LEMMA QueryKeeps == ASSUME IInv, NEW s \in Sockets, Query(s)
                    PROVE  IInv'
<1> DEFINE id == asked[s].id
<1>1. /\ id \in Identifiers /\ asked[s] \in Keys
      /\ devices \in SUBSET Identifiers /\ devices \in seen[0]
      /\ lasted[s] \in 0 .. Slow
      /\ UNCHANGED <<cache, clearing, asked, lasted>>
    BY KeyShape DEF Query, IInv, TypeOK
<1>2. 0 \in 0 .. lasted[s]
    BY <1>1, TimesAssumption
<1>3. /\ pc' \in [Sockets -> Places] /\ rows' \in [Sockets -> SUBSET Identifiers]
      /\ \A other \in Sockets \ {s} : pc'[other] = pc[other] /\ rows'[other] = rows[other]
  <2>1. \/ pc[s] = "exact" \/ pc[s] = "suffix" \/ pc[s] = "select" \/ pc[s] = "insert"
      BY DEF Query, Queries
  <2> QED BY <1>1, <2>1 DEF Query, IInv, TypeOK, Places
<1>4. CASE pc[s] = "insert"
  <2>1. Insertion(id) /\ pc'[s] = "insert read" /\ rows'[s] = {id}
      BY <1>4 DEF Query, IInv, TypeOK
  <2>2. /\ devices' \in SUBSET Identifiers /\ devices \subseteq devices' /\ id \in devices'
        /\ seen' \in [Past -> SUBSET SUBSET Identifiers]
        /\ devices' \in seen'[0]
        /\ \A ago \in Past : seen[ago] \subseteq seen'[ago]
        /\ CacheIsRight'
      BY <1>1, <2>1, InsertionKeeps
  <2>3. TypeOK'
      BY <1>1, <1>3, <2>2 DEF IInv, TypeOK
  <2>4. ReadsAreRight(s)'
      BY <1>1, <2>1, <2>2 DEF ReadsAreRight
  <2>5. ASSUME NEW other \in Sockets \ {s} PROVE ReadsAreRight(other)'
    <3>1. ReadsAreRight(other) /\ lasted[other] \in 0 .. Slow
        BY DEF IInv, TypeOK
    <3>2. 0 .. lasted[other] \subseteq Past
        BY <3>1, TimesAssumption DEF Past
    <3>3. /\ pc'[other] = pc[other] /\ rows'[other] = rows[other]
          /\ asked' = asked /\ lasted' = lasted
        BY <1>1, <1>3
    <3> QED BY <2>2, <3>1, <3>2, <3>3 DEF ReadsAreRight
  <2> QED BY <2>2, <2>3, <2>4, <2>5 DEF IInv
<1>5. CASE pc[s] # "insert"
  <2>1. UNCHANGED <<devices, seen>>
      BY <1>5 DEF Query
  <2>2. \/ /\ pc[s] = "exact" /\ pc'[s] = "exact read" /\ rows'[s] = devices \cap {id}
        \/ /\ pc[s] = "select" /\ pc'[s] = "select read" /\ rows'[s] = devices \cap {id}
        \/ /\ pc[s] = "suffix" /\ pc'[s] = "suffix read" /\ rows'[s] = devices
      BY <1>5 DEF Query, Queries, IInv, TypeOK
  <2>3. TypeOK' /\ devices' \in seen'[0] /\ CacheIsRight'
      BY <1>1, <1>3, <2>1 DEF IInv, TypeOK, CacheIsRight
  <2>4. ReadsAreRight(s)'
    <3>1. ReadsAreRight(s) /\ asked' = asked /\ lasted' = lasted
        BY <1>1 DEF IInv
    <3>2. CASE pc'[s] = "exact read"
        BY <1>1, <2>1, <2>2, <3>1, <3>2 DEF ReadsAreRight
    <3>3. CASE pc'[s] = "select read"
        BY <1>1, <2>1, <2>2, <3>1, <3>3 DEF ReadsAreRight
    <3>4. CASE pc'[s] = "suffix read"
      <4>1. rows'[s] \in seen'[0] /\ 0 \in 0 .. lasted'[s]
          BY <1>1, <1>2, <2>1, <2>2, <3>4
      <4> QED BY <2>2, <3>1, <3>4, <4>1 DEF ReadsAreRight
    <3> QED BY <2>2, <3>2, <3>3, <3>4
  <2>5. \A other \in Sockets \ {s} : ReadsAreRight(other)'
      BY <1>1, <1>3, <2>1, OthersKeep
  <2> QED BY <2>3, <2>4, <2>5 DEF IInv
<1> QED BY <1>4, <1>5

(* How a resolution goes on after a query: with a row that the rules gave  *)
(* for a recent table, and that may be kept, or with another query.        *)
Answering(s) ==
    \E keys \in SUBSET Keys : \E row \in Identifiers :
        /\ Answer(s, keys, row)
        /\ \A key \in keys : Justified(key, [row |-> row, age |-> 0], seen, devices)
        /\ \E table \in Recent : row = Rule(asked[s].id, table)
GoingOn(s) ==
    \E place \in {"suffix", "select", "insert"} :
        /\ Goto(s, place) /\ UNCHANGED cache
        /\ place = "suffix" => asked[s] = TerminalKey

(* The row of a frame's own identifier is in the table.                    *)
LEMMA ExactAnswers ==
    ASSUME IInv, NEW s \in Sockets, asked[s].id \in devices,
           NEW keys \in SUBSET {asked[s], Own(asked[s])}, Answer(s, keys, asked[s].id)
    PROVE  Answering(s)
<1>1. asked[s] \in Keys /\ asked[s].id \in Identifiers /\ Own(asked[s]) \in Keys
    BY KeyShape DEF IInv, TypeOK
<1>2. keys \in SUBSET Keys
    BY <1>1
<1>3. /\ Justified(asked[s], [row |-> asked[s].id, age |-> 0], seen, devices)
      /\ Justified(Own(asked[s]), [row |-> asked[s].id, age |-> 0], seen, devices)
      /\ devices \in Recent
    BY <1>1, ExactIsJustified
<1>4. \A key \in keys : Justified(key, [row |-> asked[s].id, age |-> 0], seen, devices)
    BY <1>3
<1>5. asked[s].id = Rule(asked[s].id, devices)
    BY ExactRule
<1> QED BY <1>1, <1>2, <1>3, <1>4, <1>5 DEF Answering

LEMMA CreateGoesOn == ASSUME IInv, NEW s \in Sockets, Create(s)
                      PROVE  Answering(s) \/ GoingOn(s)
<1> DEFINE key == Own(asked[s])
<1>1. asked[s] \in Keys /\ key \in Keys /\ key.prefix = "" /\ key.id = asked[s].id
    BY KeyShape DEF IInv, TypeOK
<1>2. CASE Cached(key) = Nobody
  <2>1. Goto(s, "select") /\ UNCHANGED cache
      BY <1>2 DEF Create
  <2> QED BY <2>1 DEF GoingOn
<1>3. CASE Cached(key) # Nobody
  <2>1. Cached(key) = asked[s].id /\ asked[s].id \in devices
      BY <1>1, <1>3, CachedIsRight
  <2>2. Answer(s, {asked[s]}, asked[s].id)
      BY <1>3, <2>1 DEF Create
  <2> QED BY <2>1, <2>2, ExactAnswers
<1> QED BY <1>2, <1>3

LEMMA SuffixGoesOn == ASSUME IInv, NEW s \in Sockets, ReturnSuffix(s)
                      PROVE  Answering(s) \/ GoingOn(s)
<1>1. asked[s] = TerminalKey /\ \E ago \in 0 .. lasted[s] : rows[s] \in seen[ago]
    BY DEF IInv, ReadsAreRight, ReturnSuffix
<1>2. PICK ago \in 0 .. lasted[s] : rows[s] \in seen[ago]
    BY <1>1
<1>3. ago \in 0 .. 0 + Slow /\ ago \in Past /\ DOMAIN seen = Past /\ rows[s] \in SUBSET Identifiers
    BY TimesAssumption DEF IInv, TypeOK, Past
<1>4. CASE ~Singled(rows[s])
    BY <1>4, CreateGoesOn DEF ReturnSuffix
<1>5. CASE Singled(rows[s])
  <2> DEFINE row == CHOOSE r \in rows[s] : TRUE
  <2>1. row = Rule(Terminal, rows[s]) /\ row \in Identifiers
      BY <1>3, <1>5, SingleRule
  <2>2. Answer(s, {TerminalKey}, row)
      BY <1>1, <1>5 DEF ReturnSuffix
  <2>3. Justified(TerminalKey, [row |-> row, age |-> 0], seen, devices)
      BY <1>2, <1>3, <2>1, KeyShape DEF Justified
  <2>4. rows[s] \in Recent
      BY <1>2, <1>3 DEF Recent
  <2>5. {TerminalKey} \in SUBSET Keys /\ asked[s].id = Terminal
      BY <1>1, KeyShape
  <2> HIDE DEF row
  <2> QED BY <2>1, <2>2, <2>3, <2>4, <2>5 DEF Answering
<1> QED BY <1>4, <1>5

LEMMA ReturnGoesOn == ASSUME IInv, NEW s \in Sockets, Return(s)
                      PROVE  Answering(s) \/ GoingOn(s)
<1>1. asked[s] \in Keys /\ ReadsAreRight(s)
    BY DEF IInv, TypeOK
<1>2. CASE ReturnExact(s)
  <2>1. CASE rows[s] # {}
    <3>1. asked[s].id \in devices
        BY <1>1, <1>2, <2>1 DEF ReadsAreRight, ReturnExact
    <3>2. Answer(s, {asked[s]}, asked[s].id)
        BY <1>2, <2>1 DEF ReturnExact
    <3> QED BY <3>1, <3>2, ExactAnswers
  <2>2. CASE rows[s] = {}
    <3>1. Goto(s, "suffix") /\ UNCHANGED cache /\ asked[s] = TerminalKey
        BY <1>1, <1>2, <2>2 DEF ReadsAreRight, ReturnExact
    <3> QED BY <3>1 DEF GoingOn
  <2> QED BY <2>1, <2>2
<1>3. CASE ReturnSuffix(s)
    BY <1>3, SuffixGoesOn
<1>4. CASE ReturnCreate(s)
  <2>1. CASE rows[s] # {}
    <3>1. asked[s].id \in devices
        BY <1>1, <1>4, <2>1 DEF ReadsAreRight, ReturnCreate
    <3>2. Answer(s, {asked[s], Own(asked[s])}, asked[s].id)
        BY <1>4, <2>1 DEF ReturnCreate
    <3> QED BY <3>1, <3>2, ExactAnswers
  <2>2. CASE rows[s] = {}
    <3>1. Goto(s, "insert") /\ UNCHANGED cache
        BY <1>4, <2>2 DEF ReturnCreate
    <3> QED BY <3>1 DEF GoingOn
  <2> QED BY <2>1, <2>2
<1> QED BY <1>2, <1>3, <1>4 DEF Return

LEMMA ReturnKeeps == ASSUME IInv, NEW s \in Sockets, Return(s)
                     PROVE  IInv'
<1>1. UNCHANGED <<devices, seen, clearing, asked, lasted>>
    BY DEF Return
<1>2. CASE Answering(s)
  <2>1. PICK keys \in SUBSET Keys, row \in Identifiers :
            /\ Answer(s, keys, row)
            /\ \A key \in keys : Justified(key, [row |-> row, age |-> 0], seen, devices)
      BY <1>2 DEF Answering
  <2>2. /\ cache' \in [Keys -> Entries]
        /\ pc' \in [Sockets -> Places] /\ pc'[s] = "answered"
        /\ rows' \in [Sockets -> SUBSET Identifiers]
        /\ \A other \in Sockets \ {s} : pc'[other] = pc[other] /\ rows'[other] = rows[other]
        /\ \A key \in Keys : cache'[key].row # Nobody => Justified(key, cache'[key], seen, devices)
      BY ONLY IInv, s \in Sockets, <2>1, AnswerKeeps
  <2>3. TypeOK' /\ devices' \in seen'[0] /\ CacheIsRight'
      BY <1>1, <2>2 DEF IInv, TypeOK, CacheIsRight
  <2>4. ReadsAreRight(s)'
      BY <2>2 DEF ReadsAreRight
  <2>5. \A other \in Sockets \ {s} : ReadsAreRight(other)'
      BY <1>1, <2>2, OthersKeep
  <2> QED BY <2>3, <2>4, <2>5 DEF IInv
<1>3. CASE GoingOn(s)
  <2>1. PICK place \in {"suffix", "select", "insert"} :
            /\ Goto(s, place) /\ UNCHANGED cache
            /\ place = "suffix" => asked[s] = TerminalKey
      BY <1>3 DEF GoingOn
  <2>2. place \in Places
      BY DEF Places
  <2>3. /\ pc' \in [Sockets -> Places] /\ pc'[s] = place
        /\ rows' \in [Sockets -> SUBSET Identifiers]
        /\ \A other \in Sockets \ {s} : pc'[other] = pc[other] /\ rows'[other] = rows[other]
      BY <2>1, <2>2, GotoKeeps
  <2>4. TypeOK' /\ devices' \in seen'[0] /\ CacheIsRight'
      BY <1>1, <2>1, <2>3 DEF IInv, TypeOK, CacheIsRight
  <2>5. ReadsAreRight(s)'
      BY <1>1, <2>1, <2>3 DEF ReadsAreRight
  <2>6. \A other \in Sockets \ {s} : ReadsAreRight(other)'
      BY <1>1, <2>3, OthersKeep
  <2> QED BY <2>4, <2>5, <2>6 DEF IInv
<1> QED BY <1>2, <1>3, ReturnGoesOn

LEMMA LeaveKeeps == ASSUME IInv, NEW s \in Sockets, Leave(s)
                    PROVE  IInv'
<1>1. /\ asked' = [asked EXCEPT ![s] = TerminalKey] /\ lasted' = [lasted EXCEPT ![s] = 0]
      /\ Goto(s, "idle") /\ UNCHANGED <<devices, seen, cache, clearing>>
    BY DEF Leave
<1>2. /\ asked' \in [Sockets -> Keys] /\ lasted' \in [Sockets -> 0 .. Slow]
      /\ \A other \in Sockets \ {s} : asked'[other] = asked[other] /\ lasted'[other] = lasted[other]
  <2>1. TerminalKey \in Keys
      BY KeyShape
  <2>2. 0 \in 0 .. Slow
      BY TimesAssumption
  <2> QED BY <1>1, <2>1, <2>2 DEF IInv, TypeOK
<1>3. /\ pc' \in [Sockets -> Places] /\ pc'[s] = "idle"
      /\ rows' \in [Sockets -> SUBSET Identifiers]
      /\ \A other \in Sockets \ {s} : pc'[other] = pc[other] /\ rows'[other] = rows[other]
  <2>1. "idle" \in Places
      BY DEF Places
  <2> QED BY <1>1, <2>1, GotoKeeps
<1>4. TypeOK' /\ devices' \in seen'[0] /\ CacheIsRight'
    BY <1>1, <1>2, <1>3 DEF IInv, TypeOK, CacheIsRight
<1>5. ReadsAreRight(s)'
    BY <1>3 DEF ReadsAreRight
<1>6. \A other \in Sockets \ {s} : ReadsAreRight(other)'
    BY <1>1, <1>2, <1>3, OthersKeep
<1> QED BY <1>4, <1>5, <1>6 DEF IInv

LEMMA AddKeeps == ASSUME IInv, NEW imei \in Imeis, Add(imei)
                  PROVE  IInv'
<1>1. /\ imei \in Identifiers /\ Insertion(imei) /\ clearing' = TRUE
      /\ UNCHANGED <<cache, pc, asked, rows, lasted>>
    BY DEF Add, request, Identifiers
<1>2. /\ devices' \in SUBSET Identifiers /\ devices \subseteq devices'
      /\ seen' \in [Past -> SUBSET SUBSET Identifiers]
      /\ devices' \in seen'[0]
      /\ \A ago \in Past : seen[ago] \subseteq seen'[ago]
      /\ CacheIsRight'
    BY <1>1, InsertionKeeps
<1>3. TypeOK'
    BY <1>1, <1>2 DEF IInv, TypeOK
<1>4. ASSUME NEW s \in Sockets PROVE ReadsAreRight(s)'
  <2>1. ReadsAreRight(s) /\ lasted[s] \in 0 .. Slow
      BY DEF IInv, TypeOK
  <2>2. 0 .. lasted[s] \subseteq Past
      BY <2>1, TimesAssumption DEF Past
  <2> QED BY <1>1, <1>2, <2>1, <2>2 DEF ReadsAreRight
<1> QED BY <1>2, <1>3, <1>4 DEF IInv

(* An empty cache is right.                                                *)
LEMMA EmptyCache == cache' = [key \in Keys |-> NoEntry] =>
                        cache' \in [Keys -> Entries] /\ CacheIsRight'
<1>1. NoEntry \in Entries /\ NoEntry.row = Nobody
    BY TimesAssumption DEF NoEntry, Entries
<1> QED BY <1>1 DEF CacheIsRight

LEMMA ClearCacheKeeps == ASSUME IInv, ClearCache PROVE IInv'
<1>1. /\ cache' \in [Keys -> Entries] /\ CacheIsRight' /\ clearing' = FALSE
      /\ UNCHANGED <<devices, seen, pc, asked, rows, lasted>>
    BY EmptyCache DEF ClearCache, request
<1>2. TypeOK' /\ devices' \in seen'[0]
    BY <1>1 DEF IInv, TypeOK
<1>3. \A s \in Sockets : ReadsAreRight(s)'
    BY <1>1, OthersKeep
<1> QED BY <1>1, <1>2, <1>3 DEF IInv

LEMMA RestartKeeps == ASSUME IInv, Restart PROVE IInv'
<1>1. /\ cache' \in [Keys -> Entries] /\ CacheIsRight' /\ clearing' = FALSE
      /\ pc' = [s \in Sockets |-> "idle"] /\ rows' = [s \in Sockets |-> {}]
      /\ asked' = [s \in Sockets |-> TerminalKey] /\ lasted' = [s \in Sockets |-> 0]
      /\ UNCHANGED <<devices, seen>>
    BY EmptyCache DEF Restart
<1>2. "idle" \in Places /\ 0 \in 0 .. Slow /\ TerminalKey \in Keys
  <2>1. TerminalKey \in Keys
      BY KeyShape
  <2>2. "idle" \in Places /\ 0 \in 0 .. Slow
      BY TimesAssumption DEF Places
  <2> QED BY <2>1, <2>2
<1>3. TypeOK' /\ devices' \in seen'[0]
    BY <1>1, <1>2 DEF IInv, TypeOK
<1>4. \A s \in Sockets : ReadsAreRight(s)'
    BY <1>1 DEF ReadsAreRight
<1> QED BY <1>1, <1>3, <1>4 DEF IInv

(* With the time both an entry and what justifies it get older.            *)
LEMMA TickKeeps == ASSUME IInv, Tick PROVE IInv'
<1> DEFINE busy == {s \in Sockets : pc[s] # "idle"}
<1>1. /\ \A s \in busy : lasted[s] < Slow
      /\ lasted' = [s \in Sockets |-> IF s \in busy THEN lasted[s] + 1 ELSE 0]
      /\ cache' = [key \in Keys |-> Aged(cache[key])]
      /\ seen' = [ago \in Past |-> IF ago = 0 THEN {devices} ELSE seen[ago - 1]]
      /\ UNCHANGED <<devices, clearing, pc, asked, rows>>
    BY DEF Tick, IInv, TypeOK
<1>2. /\ devices \in SUBSET Identifiers /\ seen \in [Past -> SUBSET SUBSET Identifiers]
      /\ \A s \in Sockets : lasted[s] \in 0 .. Slow
      /\ \A key \in Keys : cache[key] \in Entries
    BY DEF IInv, TypeOK
<1>3. lasted' \in [Sockets -> 0 .. Slow]
    BY <1>1, <1>2, TimesAssumption
<1>4. /\ seen' \in [Past -> SUBSET SUBSET Identifiers] /\ devices' \in seen'[0]
      /\ \A ago \in Past : ago + 1 \in Past => seen'[ago + 1] = seen[ago]
  <2>1. \A ago \in Past : ago # 0 => ago - 1 \in Past
      BY TimesAssumption DEF Past
  <2>2. 0 \in Past /\ \A ago \in Past : ago \in Nat /\ ago + 1 # 0 /\ (ago + 1) - 1 = ago
      BY TimesAssumption DEF Past
  <2> QED BY <1>1, <1>2, <2>1, <2>2
<1>5. ASSUME NEW key \in Keys
      PROVE  /\ cache'[key] \in Entries
             /\ cache'[key].row # Nobody => /\ cache[key].row = cache'[key].row
                                            /\ cache[key].age \in 0 .. TTL
                                            /\ cache'[key].age = cache[key].age + 1
                                            /\ cache[key].age + 1 \in 0 .. TTL
  <2>1. cache[key] \in Entries /\ cache'[key] = Aged(cache[key])
      BY <1>1, <1>2
  <2>2. CASE cache[key].age = TTL \/ cache[key] = NoEntry
    <3>1. cache'[key] = NoEntry
        BY <2>1, <2>2 DEF Aged
    <3> QED BY <3>1, TimesAssumption DEF NoEntry, Entries
  <2>3. CASE ~(cache[key].age = TTL \/ cache[key] = NoEntry)
    <3>1. cache'[key] = [cache[key] EXCEPT !.age = @ + 1]
        BY <2>1, <2>3 DEF Aged
    <3>2. cache[key].age \in 0 .. TTL /\ cache[key].age + 1 \in 0 .. TTL
        BY <2>1, <2>3, TimesAssumption DEF Entries
    <3> QED BY <2>1, <3>1, <3>2 DEF Entries
  <2> QED BY <2>2, <2>3
<1>6. cache' \in [Keys -> Entries]
    BY <1>1, <1>5
<1>7. ASSUME NEW key \in Keys, cache'[key].row # Nobody
      PROVE  Justified(key, cache'[key], seen', devices')
  <2>1. Justified(key, cache[key], seen, devices)
      BY <1>5, <1>7 DEF IInv, CacheIsRight
  <2>2. CASE key.prefix = ""
      BY <1>1, <1>5, <1>7, <2>1, <2>2 DEF Justified
  <2>3. CASE key.prefix # ""
    <3>1. PICK ago \in 0 .. cache[key].age + Slow :
              \E old \in seen[ago] : cache[key].row = Rule(Terminal, old)
        BY <2>1, <2>3 DEF Justified
    <3>2. /\ ago \in Past /\ ago + 1 \in Past
          /\ ago + 1 \in 0 .. cache'[key].age + Slow
        BY <1>5, <1>7, TimesAssumption DEF Past
    <3>3. seen'[ago + 1] = seen[ago]
        BY <1>4, <3>2
    <3> QED BY <1>5, <1>7, <2>3, <3>1, <3>2, <3>3 DEF Justified
  <2> QED BY <2>2, <2>3
<1>8. ASSUME NEW s \in Sockets PROVE ReadsAreRight(s)'
  <2>1. ReadsAreRight(s)
      BY DEF IInv
  <2>2. CASE pc[s] = "suffix read"
    <3>1. PICK ago \in 0 .. lasted[s] : rows[s] \in seen[ago]
        BY <2>1, <2>2 DEF ReadsAreRight
    <3>2. lasted'[s] = lasted[s] + 1 /\ lasted[s] < Slow
        BY <1>1, <2>2
    <3>3. ago \in Past /\ ago + 1 \in Past /\ ago + 1 \in 0 .. lasted'[s]
        BY <1>2, <3>2, TimesAssumption DEF Past
    <3>4. rows'[s] \in seen'[ago + 1]
        BY <1>1, <1>4, <3>1, <3>3
    <3> QED BY <1>1, <2>1, <2>2, <3>3, <3>4 DEF ReadsAreRight
  <2>3. CASE pc[s] # "suffix read"
      BY <1>1, <2>1, <2>3 DEF ReadsAreRight
  <2> QED BY <2>2, <2>3
<1>9. TypeOK'
    BY <1>1, <1>3, <1>4, <1>6 DEF IInv, TypeOK
<1> QED BY <1>4, <1>7, <1>8, <1>9 DEF IInv, CacheIsRight

LEMMA Inductive == IInv /\ [Next]_vars => IInv'
<1> SUFFICES ASSUME IInv, [Next]_vars PROVE IInv'
    OBVIOUS
<1>1. CASE UNCHANGED vars
  <2>1. UNCHANGED <<devices, seen, cache, clearing, pc, asked, rows, lasted>>
      BY <1>1 DEF vars
  <2>2. TypeOK' /\ devices' \in seen'[0] /\ CacheIsRight'
      BY <2>1 DEF IInv, TypeOK, CacheIsRight
  <2>3. \A s \in Sockets : ReadsAreRight(s)'
      BY <2>1, OthersKeep
  <2> QED BY <2>2, <2>3 DEF IInv
<1>2. ASSUME NEW s \in Sockets, Step(s) PROVE IInv'
  <2>1. ASSUME NEW key \in Keys, Ask(s, key) PROVE IInv'
      BY <2>1, AskKeeps
  <2>2. CASE Query(s)
      BY <2>2, QueryKeeps
  <2>3. CASE Return(s)
      BY <2>3, ReturnKeeps
  <2>4. CASE Leave(s)
      BY <2>4, LeaveKeeps
  <2> QED BY <1>2, <2>1, <2>2, <2>3, <2>4 DEF Step
<1>3. ASSUME NEW imei \in Imeis, Add(imei) PROVE IInv'
    BY <1>3, AddKeeps
<1>4. CASE ClearCache
    BY <1>4, ClearCacheKeeps
<1>5. CASE Tick
    BY <1>5, TickKeeps
<1>6. CASE Restart
    BY <1>6, RestartKeeps
<1> QED BY <1>1, <1>2, <1>3, <1>4, <1>5, <1>6 DEF Next

(* Every step of an invariant state that answers a frame answers it as the *)
(* rules do.                                                               *)
LEMMA AnswerIsRight ==
    ASSUME IInv, [Next]_vars, NEW s \in Sockets, pc[s] # "answered", pc'[s] = "answered"
    PROVE  \E table \in Recent : rows'[s] = {Rule(asked'[s].id, table)}
<1>1. pc \in [Sockets -> Places] /\ asked \in [Sockets -> Keys]
    BY DEF IInv, TypeOK
<1>2. CASE Return(s)
  <2>1. asked' = asked
      BY <1>2 DEF Return
  <2>2. ~GoingOn(s)
      BY <1>1 DEF GoingOn, Goto
  <2>3. PICK keys \in SUBSET Keys, row \in Identifiers :
            Answer(s, keys, row) /\ \E table \in Recent : row = Rule(asked[s].id, table)
      BY <1>2, <2>2, ReturnGoesOn DEF Answering
  <2>4. rows'[s] = {row}
      BY <2>3 DEF Answer, IInv, TypeOK
  <2> QED BY <2>1, <2>3, <2>4
<1>3. ASSUME NEW key \in Keys, Ask(s, key)
      PROVE  \E table \in Recent : rows'[s] = {Rule(asked'[s].id, table)}
  <2>1. asked'[s] = key
      BY <1>1, <1>3 DEF Ask
  <2>2. Cached(key) # Nobody
      BY <1>1, <1>3 DEF Ask, Goto
  <2>3. Answer(s, {}, Cached(key))
      BY <1>3, <2>2 DEF Ask
  <2>4. rows'[s] = {Cached(key)}
      BY <2>3 DEF Answer, IInv, TypeOK
  <2> QED BY <2>1, <2>2, <2>4, CachedIsRight
<1>4. ASSUME NEW other \in Sockets \ {s}, Step(other) PROVE FALSE
  <2>1. CASE Query(other)
      BY <1>1, <2>1 DEF Query
  <2>2. CASE Return(other)
    <3>1. CASE Answering(other)
        BY <1>1, <3>1 DEF Answering, Answer
    <3>2. CASE GoingOn(other)
        BY <1>1, <3>2 DEF GoingOn, Goto
    <3> QED BY <2>2, <3>1, <3>2, ReturnGoesOn
  <2>3. CASE Leave(other)
      BY <1>1, <2>3 DEF Leave, Goto
  <2>4. ASSUME NEW key \in Keys, Ask(other, key) PROVE FALSE
      BY <1>1, <2>4 DEF Ask, Answer, Goto
  <2> QED BY <1>4, <2>1, <2>2, <2>3, <2>4 DEF Step
<1>5. ~Query(s) /\ ~Leave(s)
  <2>1. ~Query(s)
      BY <1>1 DEF Query, Queries
  <2>2. ~Leave(s)
      BY <1>1 DEF Leave, Goto
  <2> QED BY <2>1, <2>2
<1>6. ~ \E imei \in Imeis : Add(imei)
    BY DEF Add, request
<1>7. ~ClearCache /\ ~Tick /\ ~Restart /\ ~UNCHANGED vars
    BY DEF ClearCache, request, Tick, Restart, vars
<1>8. \E actor \in Sockets : Step(actor)
    BY <1>6, <1>7 DEF Next
<1> QED BY <1>2, <1>3, <1>4, <1>5, <1>8 DEF Step

-----------------------------------------------------------------------------
(* The variables keep their types (the state of db/repo.js, its cache, its *)
(* table and the resolutions under way).                                   *)
THEOREM TypeCorrect == Spec => []TypeOK
<1>1. IInv => TypeOK
    BY DEF IInv
<1> QED BY <1>1, Beginning, Inductive, PTL DEF Spec

(* The cache never gives a device that the rules did not give within the   *)
(* life of its entry and the length of the resolution that left it         *)
(* (cacheGet and cacheSet, repo.js:8).                                     *)
THEOREM CacheStaysRight == Spec => []CacheIsRight
<1>1. IInv => CacheIsRight
    BY DEF IInv
<1> QED BY <1>1, Beginning, Inductive, PTL DEF Spec

(* The device of a frame is the one that the three rules of repo.js:67     *)
(* gave for a recent table, however resolutions and additions overlap.     *)
THEOREM FramesFindTheirDevice == Spec => AnswersWereRight
<1>1. IInv /\ [Next]_vars =>
          [\A s \in Sockets : pc[s] # "answered" /\ pc'[s] = "answered" =>
               \E table \in Recent : rows'[s] = {Rule(asked'[s].id, table)}]_vars
    BY AnswerIsRight
<1> QED BY <1>1, Beginning, Inductive, PTL DEF Spec, AnswersWereRight
=============================================================================
