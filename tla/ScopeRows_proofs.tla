--------------------------- MODULE ScopeRows_proofs ---------------------------
(***************************************************************************)
(* Theorems about ScopeRows, for any configurations, periods and requests: *)
(* what keeps a period from being rated twice although a process looks for *)
(* its row anew in each access, and may find another one each time.        *)
(***************************************************************************)
EXTENDS ScopeRows, SequenceTheorems, TLAPS

Uses == {"mark", "known", "active", "set", "reset"}

Searches == [pc : {"find"}, use : Uses, cols : Columns, period : Periods]
Answers  == [pc : {"adopt", "got", "rate"}, use : Uses, cols : Columns,
             period : Periods, row : Nat, mark : Periods \cup {-1},
             active : BOOLEAN]

States   == {Idle} \cup Searches \cup Answers

Fits(state) ==
  /\ state.pc = "rate" => state.use \in {"known", "active"}
  /\ state.pc \in {"adopt", "got"} => state.row \in Ids \cup {0}
  /\ state.pc = "adopt" => state.row # 0

TypeOK ==
  /\ rows \in Seq(Row)
  /\ data \in [Confs -> [Periods -> Nat]]
  /\ proc \in [Confs -> States]
  /\ \A c \in Confs : Fits(proc[c])
  /\ \/ api = None
     \/ /\ api.op = "post" /\ api.cols \in Columns /\ api.mark \in Periods
        /\ api.active \in BOOLEAN
     \/ /\ api.op = "patch" /\ api.row \in Columns /\ api.cols \in Columns
        /\ api.active \in BOOLEAN
  /\ resets \subseteq [cols : Columns, mark : Periods]

(* Nothing has happened that excuses a second copy.                        *)
Clean == why \ {"unfound"} = {}

At(c, uses) == proc[c].pc # "idle" /\ proc[c].use \in uses
Rated(c) == {q \in Periods : data[c][q] > 0}
RowLess(c) == Having(c) = {} \/ (proc[c].pc = "got" /\ proc[c].row = 0)

(* A process looks for the row of its own configuration.                   *)
LooksForOwn(c) ==
  proc[c].pc # "idle" =>
    /\ Sought(proc[c].cols, c) = c
    /\ IF proc[c].use = "reset" THEN proc[c].cols.key # Null
                                ELSE proc[c].cols = NullRow

(* What a process has read of its row is still so.                         *)
InHand(c) ==
  LET p == proc[c]
  IN  /\ p.pc = "adopt" =>
           /\ p.row \in Ids /\ Having(c) = {}
           /\ rows[p.row].cols = NullRow => p.mark = rows[p.row].mark
      /\ p.pc = "got" =>
           IF p.row = 0 THEN p.mark = -1
                        ELSE p.row \in Having(c) /\ p.mark = rows[p.row].mark

(* What is stored lies where the row, or the process that is about to      *)
(* write it, says.                                                         *)
Bounded(c) ==
  /\ ~At(c, {"set"}) => \A i \in Having(c), q \in Rated(c) : q <= rows[i].mark
  /\ At(c, {"set"}) => \A q \in Rated(c) : q <= proc[c].period
  /\ At(c, {"known", "active", "reset"}) =>
       \A q \in Rated(c) : q < proc[c].period
  /\ At(c, {"mark"}) /\ proc[c].pc = "got" =>
       \A q \in Rated(c) : q <= proc[c].mark

(* Without a row of its own a configuration has only its first period, and *)
(* then a row without columns or a process about to make one.              *)
FirstOnly(c) ==
  /\ Having(c) = {} => Rated(c) \subseteq {0}
  /\ Having(c) = {} /\ ~At(c, {"set"}) /\ Rated(c) # {} =>
       \E i \in Having(NullRow) : rows[i].by = c
  /\ At(c, {"known", "active", "set"}) /\ RowLess(c) => proc[c].period = 0

OwnInv(c) ==
  /\ \A i, j \in Having(c) : i = j
  /\ LooksForOwn(c)
  /\ InHand(c)
  /\ Bounded(c)
  /\ FirstOnly(c)
  /\ \A q \in Periods : data[c][q] <= 1

RowsInv == Clean => \A c \in Confs : OwnInv(c)

OwnRow(c) ==
  /\ \A i \in Ids : rows[i].by = c => rows[i].cols \in {NullRow, c}
  /\ \A i, j \in Ids : rows[i].by = c /\ rows[j].by = c => i = j
  /\ At(c, {"set", "reset"}) /\ proc[c].pc = "got" /\ proc[c].row = 0 =>
       \A i \in Ids : rows[i].by # c

MadeInv == why = {} => \A c \in Confs : OwnRow(c)

-----------------------------------------------------------------------------
(***************************************************************************)
(* Columns and rows.                                                       *)
(***************************************************************************)
LEMMA ColumnFacts ==
  /\ NullRow \in Columns
  /\ \A x \in Columns, c \in Confs : Sought(x, c) \in Columns
  /\ \A c \in Confs : /\ c \in Columns /\ c # NullRow /\ c # Null
                      /\ c.key # Null /\ c.fetcher # Null
                      /\ Sought(NullRow, c) = c
  /\ \A x \in Columns, c \in Confs :
       x.key # Null /\ x.fetcher # Null => Sought(x, c) = x
  /\ \A c, d \in Confs : Sought(c, d) = c
  <1> USE ScopeRowsAssumption
  <1>1. NullRow \in Columns
    BY DEF Columns, NullRow
  <1>2. ASSUME NEW c \in Confs
        PROVE  /\ c \in Columns /\ c # NullRow /\ c # Null
               /\ c.key # Null /\ c.fetcher # Null
               /\ c = [key |-> c.key, fetcher |-> c.fetcher]
    <2>1. c \in Columns /\ c # Null /\ c.key # Null /\ c.fetcher # Null
      OBVIOUS
    <2> QED
      BY <2>1 DEF Columns, NullRow
  <1>3. ASSUME NEW x \in Columns, NEW c \in Confs
        PROVE  /\ Sought(x, c) \in Columns
               /\ x.key # Null /\ x.fetcher # Null => Sought(x, c) = x
    BY <1>2 DEF Columns, Sought, Or
  <1>4. ASSUME NEW c \in Confs PROVE Sought(NullRow, c) = c
    BY <1>2 DEF NullRow, Sought, Or
  <1> QED
    BY <1>1, <1>2, <1>3, <1>4

LEMMA Added ==
  ASSUME NEW s \in Seq(Row), NEW r \in Row
  PROVE  /\ Append(s, r) \in Seq(Row)
         /\ DOMAIN Append(s, r) = DOMAIN s \cup {Len(s) + 1}
         /\ Len(s) + 1 \notin DOMAIN s /\ DOMAIN s \subseteq Nat \ {0}
         /\ \A i \in DOMAIN s : Append(s, r)[i] = s[i]
         /\ Append(s, r)[Len(s) + 1] = r
  <1>1. /\ DOMAIN s = 1..Len(s) /\ Len(s) \in Nat
        /\ DOMAIN Append(s, r) = 1..(Len(s) + 1)
    BY AppendProperties, LenProperties
  <1> QED
    BY <1>1, AppendProperties

LEMMA Changed ==
  ASSUME NEW s \in Seq(Row), NEW i \in DOMAIN s, NEW r \in Row
  PROVE  /\ [s EXCEPT ![i] = r] \in Seq(Row)
         /\ DOMAIN [s EXCEPT ![i] = r] = DOMAIN s
         /\ \A j \in DOMAIN s : [s EXCEPT ![i] = r][j] = IF j = i THEN r ELSE s[j]
  <1>1. DOMAIN s = 1..Len(s) /\ s \in [1..Len(s) -> Row]
    BY LenProperties, ElementOfSeq
  <1> QED
    BY <1>1, ExceptSeq

LEMMA RowFacts ==
  ASSUME TypeOK, NEW i \in Ids
  PROVE  /\ rows[i] \in Row /\ i \in Nat \ {0}
         /\ rows[i].cols \in Columns /\ rows[i].mark \in Periods
  <1>1. rows[i] \in Row /\ i \in Nat \ {0}
    BY LenProperties, ElementOfSeq DEF TypeOK, Ids
  <1> QED
    BY <1>1 DEF Row

LEMMA ProcFacts ==
  ASSUME TypeOK, NEW c \in Confs
  PROVE  /\ proc[c].pc = "find" => proc[c] \in Searches
         /\ proc[c].pc \in {"adopt", "got", "rate"} => proc[c] \in Answers
         /\ proc[c] \in States /\ Fits(proc[c])
         /\ proc[c] = Idle <=> proc[c].pc = "idle"
  BY DEF TypeOK, States, Searches, Answers, Idle

LEMMA FoundType ==
  ASSUME TypeOK, NEW use \in Uses, NEW x \in Columns, NEW t \in Periods,
         NEW i \in Ids \cup {0}
  PROVE  Found(use, x, t, i) \in Answers
  <1>1. CASE i = 0
    BY <1>1 DEF Found, Answers
  <1>2. CASE i \in Ids
    BY <1>2, RowFacts DEF Found, Answers, Row, Periods
  <1> QED
    BY <1>1, <1>2

(* The process of c has gone to a state of its own.                        *)
LEMMA GoneTo ==
  ASSUME TypeOK, NEW c \in Confs, NEW state, Goto(c, state)
  PROVE  /\ proc'[c] = state
         /\ \A d \in Confs \ {c} : proc'[d] = proc[d]
         /\ state \in States => proc' \in [Confs -> States]
  BY DEF TypeOK, Goto

LEMMA TypeGone ==
  ASSUME TypeOK, NEW c \in Confs, NEW state \in States, Goto(c, state), Fits(state),
         rows' \in Seq(Row), Ids \subseteq Ids', Fits(state)
  PROVE  /\ proc' \in [Confs -> States]
         /\ \A d \in Confs : Fits(proc[d])'
  <1>1. /\ proc'[c] = state
        /\ \A d \in Confs \ {c} : proc'[d] = proc[d]
        /\ proc' \in [Confs -> States]
    BY GoneTo
  <1>2. \A d \in Confs : Fits(proc'[d])
    BY <1>1 DEF TypeOK
  <1> QED
    BY <1>1, <1>2 DEF Fits

(***************************************************************************)
(* How a step may change the table.                                        *)
(***************************************************************************)
LEMMA OneChanged ==
  ASSUME TypeOK, NEW i \in Ids, NEW r \in Row, rows' = [rows EXCEPT ![i] = r]
  PROVE  /\ rows' \in Seq(Row) /\ Ids' = Ids
         /\ \A j \in Ids : rows'[j] = IF j = i THEN r ELSE rows[j]
  BY Changed DEF TypeOK, Ids

LEMMA Marked ==
  ASSUME TypeOK, NEW i \in Ids, NEW t \in Periods,
         rows' = [rows EXCEPT ![i].mark = t]
  PROVE  /\ rows' \in Seq(Row) /\ Ids' = Ids
         /\ \A j \in Ids : /\ rows'[j].by = rows[j].by
                           /\ rows'[j].cols = rows[j].cols
                           /\ rows'[j].mark = IF j = i THEN t ELSE rows[j].mark
  <1> DEFINE r == [rows[i] EXCEPT !.mark = t]
  <1>1. r \in Row /\ r.by = rows[i].by /\ r.cols = rows[i].cols /\ r.mark = t
    BY RowFacts DEF Row
  <1>2. rows' = [rows EXCEPT ![i] = r]
    OBVIOUS
  <1> HIDE DEF r
  <1>3. /\ rows' \in Seq(Row) /\ Ids' = Ids
        /\ \A j \in Ids : rows'[j] = IF j = i THEN r ELSE rows[j]
    BY <1>1, <1>2, OneChanged, Zenon
  <1> QED
    BY <1>1, <1>3

LEMMA Recolumned ==
  ASSUME TypeOK, NEW i \in Ids, NEW x \in Columns, NEW b \in BOOLEAN,
         \/ rows' = [rows EXCEPT ![i].cols = x]
         \/ rows' = [rows EXCEPT ![i].cols = x, ![i].active = b]
  PROVE  /\ rows' \in Seq(Row) /\ Ids' = Ids
         /\ \A j \in Ids : /\ rows'[j].by = rows[j].by
                           /\ rows'[j].cols = IF j = i THEN x ELSE rows[j].cols
                           /\ rows'[j].mark = rows[j].mark
  <1>1. PICK r : /\ r \in Row /\ r.by = rows[i].by
                 /\ r.cols = x /\ r.mark = rows[i].mark
                 /\ rows' = [rows EXCEPT ![i] = r]
    <2>1. CASE rows' = [rows EXCEPT ![i].cols = x]
      <3> DEFINE r == [rows[i] EXCEPT !.cols = x]
      <3>1. r \in Row /\ r.by = rows[i].by /\ r.cols = x /\ r.mark = rows[i].mark
        BY RowFacts DEF Row
      <3>2. rows' = [rows EXCEPT ![i] = r]
        BY <2>1
      <3> QED
        BY <3>1, <3>2
    <2>2. CASE rows' = [rows EXCEPT ![i].cols = x, ![i].active = b]
      <3> DEFINE r == [rows[i] EXCEPT !.cols = x, !.active = b]
      <3>1. r \in Row /\ r.by = rows[i].by /\ r.cols = x /\ r.mark = rows[i].mark
        BY RowFacts DEF Row
      <3>2. rows' = [rows EXCEPT ![i] = r]
        BY <2>2
      <3> QED
        BY <3>1, <3>2
    <2> QED
      BY <2>1, <2>2
  <1>2. /\ rows' \in Seq(Row) /\ Ids' = Ids
        /\ \A j \in Ids : rows'[j] = IF j = i THEN r ELSE rows[j]
    BY <1>1, OneChanged, Zenon
  <1> QED
    BY <1>1, <1>2

LEMMA OneAdded ==
  ASSUME TypeOK, NEW r \in Row, rows' = Append(rows, r)
  PROVE  /\ rows' \in Seq(Row)
         /\ Ids' = Ids \cup {Len(rows) + 1} /\ Len(rows) + 1 \notin Ids
         /\ \A j \in Ids : rows'[j] = rows[j]
         /\ rows'[Len(rows) + 1] = r
  BY Added DEF TypeOK, Ids

LEMMA TypeInit == Init => TypeOK
  <1> SUFFICES ASSUME Init PROVE TypeOK
    OBVIOUS
  <1>1. rows \in Seq(Row)
    BY EmptySeq DEF Init
  <1> QED
    BY <1>1 DEF Init, TypeOK, None, Idle, States, Fits

LEMMA TypeStays ==
  ASSUME TypeOK, NEW c \in Confs, NEW state \in States, Goto(c, state), Stay,
         Fits(state)
  PROVE  TypeOK'
  <1>1. rows' \in Seq(Row) /\ Ids' = Ids
    BY DEF TypeOK, Stay, Ids
  <1> QED
    BY <1>1, TypeGone DEF TypeOK, Stay

LEMMA Fitting ==
  ASSUME NEW p
  PROVE  /\ Idle \in States /\ Fits(Idle)
         /\ \A use \in Uses, x \in Columns, t \in Periods :
              Looks(use, x, t) \in States /\ Fits(Looks(use, x, t))
         /\ p \in Answers =>
              /\ p.use \in {"known", "active"} =>
                   /\ [p EXCEPT !.pc = "rate"] \in States
                   /\ Fits([p EXCEPT !.pc = "rate"])
              /\ p.row \in Ids \cup {0} =>
                   /\ [p EXCEPT !.pc = "got"] \in States
                   /\ Fits([p EXCEPT !.pc = "got"])
              /\ p.row \in Ids /\ 0 \notin Ids =>
                   /\ [p EXCEPT !.pc = "adopt"] \in States
                   /\ Fits([p EXCEPT !.pc = "adopt"])
  <1>1. Idle \in States /\ Fits(Idle)
    BY DEF Idle, States, Fits
  <1>2. ASSUME NEW use \in Uses, NEW x \in Columns, NEW t \in Periods
        PROVE  Looks(use, x, t) \in States /\ Fits(Looks(use, x, t))
    BY DEF Looks, Searches, States, Fits
  <1>3. ASSUME p \in Answers, NEW v \in {"adopt", "got", "rate"}
        PROVE  /\ [p EXCEPT !.pc = v] \in States
               /\ [p EXCEPT !.pc = v].pc = v
               /\ [p EXCEPT !.pc = v].use = p.use
               /\ [p EXCEPT !.pc = v].row = p.row
    BY <1>3 DEF Answers, States
  <1> QED
    BY <1>1, <1>2, <1>3 DEF Fits

LEMMA TypeProcess ==
  ASSUME TypeOK, NEW c \in Confs, Process(c)
  PROVE  TypeOK'
  <1> USE ColumnFacts, ProcFacts, Fitting, ScopeRowsAssumption
  <1> DEFINE p == proc[c]
  <1>a. 0 \in Periods /\ 0 \notin Ids
    BY RowFacts DEF Periods
  <1>1. CASE Begin(c)
    BY <1>a, <1>1, TypeStays DEF Begin, Uses
  <1>2. CASE Find(c)
    <2>1. p \in Searches
      BY <1>2 DEF Find
    <2>2. \E i \in Ids \cup {0} :
            LET found == Found(p.use, p.cols, p.period, i)
            IN  Goto(c, found) \/ (i # 0 /\ Goto(c, [found EXCEPT !.pc = "adopt"]))
      BY <1>2, <1>a DEF Find, Having
    <2>3. PICK i \in Ids \cup {0} :
            LET found == Found(p.use, p.cols, p.period, i)
            IN  Goto(c, found) \/ (i # 0 /\ Goto(c, [found EXCEPT !.pc = "adopt"]))
      BY <2>2
    <2> DEFINE found == Found(p.use, p.cols, p.period, i)
    <2>4. found \in Answers /\ found.pc = "got" /\ found.row = i
      BY <2>1, FoundType DEF Searches, Found
    <2>5. Goto(c, found) \/ (i # 0 /\ Goto(c, [found EXCEPT !.pc = "adopt"]))
      BY <2>3
    <2> HIDE DEF found
    <2>6. found \in States /\ Fits(found)
      BY <2>4 DEF States, Fits
    <2> QED
      BY <1>2, <1>a, <2>4, <2>5, <2>6, TypeStays DEF Find
  <1>3. CASE Adopt(c)
    <2>1. p \in Answers /\ p.row \in Ids /\ Sought(p.cols, c) \in Columns
      BY <1>3 DEF Adopt, Answers, Fits
    <2>2. rows' = rows \/ rows' = [rows EXCEPT ![p.row].cols = Sought(p.cols, c)]
      BY <1>3 DEF Adopt
    <2>3. rows' \in Seq(Row) /\ Ids \subseteq Ids'
      BY <2>1, <2>2, Recolumned DEF TypeOK, Ids
    <2>4. \E state \in States : Goto(c, state) /\ Fits(state)
      BY <1>3, <2>1 DEF Adopt
    <2> QED
      BY <1>3, <2>3, <2>4, TypeGone DEF Adopt, TypeOK
  <1>4. CASE NextTimestamp(c)
    <2>1. p \in Answers
      BY <1>4 DEF NextTimestamp, Got
    <2>2. p.mark # Max => p.mark + 1 \in Periods
      <3>1. p.mark \in Periods \cup {-1} /\ Max \in Nat
        BY <2>1 DEF Answers
      <3> HIDE DEF p
      <3> QED
        BY <3>1 DEF Periods
    <2> QED
      BY <1>4, <2>2, TypeStays DEF NextTimestamp, Uses
  <1>5. CASE CheckKnown(c)
    <2>1. p \in Answers /\ p.use = "known" /\ p.period \in Periods
      BY <1>5 DEF CheckKnown, Got, Answers
    <2> QED
      BY <1>5, <2>1, TypeStays DEF CheckKnown, Uses
  <1>6. CASE CheckActive(c)
    <2>1. p \in Answers /\ p.use = "active"
      BY <1>6 DEF CheckActive, Got
    <2> QED
      BY <1>6, <2>1, TypeStays DEF CheckActive
  <1>7. CASE Rate(c)
    <2>1. p \in Answers /\ p.period \in Periods
      BY <1>7 DEF Rate, Answers
    <2>2. data' \in [Confs -> [Periods -> Nat]]
      BY <1>7, <2>1 DEF Rate, TypeOK
    <2>3. rows' \in Seq(Row) /\ Ids \subseteq Ids'
      BY <1>7 DEF Rate, TypeOK, Ids
    <2> QED
      BY <1>7, <2>1, <2>2, <2>3, TypeGone DEF Rate, TypeOK, Uses
  <1>8. CASE SetMark(c)
    <2>1. p \in Answers /\ p.row \in Ids \cup {0}
      BY <1>8 DEF SetMark, Fits
    <2>2. \/ rows' = rows
          \/ p.row \in Ids /\ \E t \in Periods : rows' = [rows EXCEPT ![p.row].mark = t]
          \/ \E r \in Row : rows' = Append(rows, r)
      <3>1. p.row \in Ids => rows[p.row].mark \in Periods
        BY RowFacts
      <3>2. NewRow(p.cols, p.period, TRUE, c) \in Row
        BY <2>1 DEF NewRow, Row, Answers
      <3> QED
        BY <1>8, <2>1, <3>1, <3>2 DEF SetMark, Make, Answers
    <2>3. rows' \in Seq(Row) /\ Ids \subseteq Ids'
      BY <2>2, Marked, OneAdded DEF TypeOK, Ids
    <2>4. \E state \in States : Goto(c, state) /\ Fits(state)
      BY <1>8, <1>a DEF SetMark, Written, Uses
    <2> QED
      BY <1>8, <2>3, <2>4, TypeGone DEF SetMark, TypeOK
  <1>9. CASE \E m \in resets : Reset(c, m)
    <2>1. PICK m \in resets : Reset(c, m)
      BY <1>9
    <2>2. m.cols \in Columns /\ m.mark \in Periods
      BY DEF TypeOK
    <2>3. data' \in [Confs -> [Periods -> Nat]]
      BY <2>1 DEF Reset, TypeOK
    <2>4. rows' \in Seq(Row) /\ Ids \subseteq Ids'
      BY <2>1 DEF Reset, TypeOK, Ids
    <2>5. Goto(c, Looks("reset", m.cols, m.mark))
          /\ UNCHANGED api /\ resets' \subseteq resets
      BY <2>1 DEF Reset
    <2> QED
      BY <2>2, <2>3, <2>4, <2>5, TypeGone DEF TypeOK, Uses
  <1> QED
    BY <1>1, <1>2, <1>3, <1>4, <1>5, <1>6, <1>7, <1>8, <1>9 DEF Process

LEMMA TypeServe ==
  ASSUME TypeOK, Serve
  PROVE  TypeOK'
  <1> USE ColumnFacts, ScopeRowsAssumption
  <1>0. ASSUME UNCHANGED proc, rows' \in Seq(Row), Ids \subseteq Ids'
        PROVE  /\ proc' \in [Confs -> States]
               /\ \A c \in Confs : Fits(proc[c])'
    BY <1>0 DEF TypeOK, Fits
  <1>1. CASE \E mark \in Periods : \E fetchers : PutReset(fetchers, mark)
    <2>1. PICK mark \in Periods : \E fetchers : PutReset(fetchers, mark)
      BY <1>1
    <2>2. resets' \subseteq [cols : Columns, mark : Periods]
      BY <2>1, RowFacts DEF PutReset, TypeOK, Actives
    <2>3. rows' \in Seq(Row) /\ Ids \subseteq Ids'
      BY <2>1 DEF PutReset, TypeOK, Ids
    <2> QED
      BY <1>0, <2>1, <2>2, <2>3 DEF PutReset, TypeOK
  <1>2. CASE \E mark \in Periods, cols \in Posted, active \in BOOLEAN :
               CheckPost(cols, mark, active)
    <2>1. PICK mark \in Periods, cols \in Posted, active \in BOOLEAN :
            CheckPost(cols, mark, active)
      BY <1>2
    <2>2. cols \in Columns
      OBVIOUS
    <2>3. /\ api'.op = "post" /\ api'.cols \in Columns /\ api'.mark \in Periods
          /\ api'.active \in BOOLEAN
      BY <2>1, <2>2 DEF CheckPost
    <2>4. rows' \in Seq(Row) /\ Ids \subseteq Ids'
      BY <2>1 DEF CheckPost, TypeOK, Ids
    <2> QED
      BY <1>0, <2>1, <2>3, <2>4 DEF CheckPost, TypeOK
  <1>3. CASE \E cols \in Confs \cup {NullRow}, active \in BOOLEAN :
               CheckPatch(cols, active)
    <2>1. PICK cols \in Confs \cup {NullRow}, active \in BOOLEAN :
            CheckPatch(cols, active)
      BY <1>3
    <2>2. cols \in Columns /\ rows[1].cols \in Columns
      <3>1. 1 \in Ids
        BY <2>1, LenProperties DEF CheckPatch, TypeOK, Ids
      <3> QED
        BY <3>1, RowFacts
    <2>3. /\ api'.op = "patch" /\ api'.row \in Columns /\ api'.cols \in Columns
          /\ api'.active \in BOOLEAN
      BY <2>1, <2>2 DEF CheckPatch
    <2>4. rows' \in Seq(Row) /\ Ids \subseteq Ids'
      BY <2>1 DEF CheckPatch, TypeOK, Ids
    <2> QED
      BY <1>0, <2>1, <2>3, <2>4 DEF CheckPatch, TypeOK
  <1>4. CASE CreateScope
    <2>1. /\ api.op = "post" /\ api.cols \in Columns /\ api.mark \in Periods
          /\ api.active \in BOOLEAN
      BY <1>4 DEF CreateScope, TypeOK, None
    <2>2. NewRow(api.cols, api.mark, api.active, Null) \in Row
      BY <2>1 DEF NewRow, Row
    <2>3. rows' \in Seq(Row) /\ Ids \subseteq Ids'
      BY <1>4, <2>2, OneAdded DEF CreateScope, TypeOK, Ids
    <2> QED
      BY <1>0, <1>4, <2>3 DEF CreateScope, TypeOK
  <1>5. CASE UpdateScope
    <2>1. /\ api.op = "patch" /\ api.row \in Columns /\ api.cols \in Columns
          /\ api.active \in BOOLEAN
      BY <1>5 DEF UpdateScope, TypeOK, None
    <2> DEFINE sought == Sought(api.row, ApiConf)
               cols == Sought(api.cols, sought)
    <2>2. cols \in Columns
      BY <2>1 DEF Sought, Or, Columns
    <2>3. \/ rows' = rows
          \/ \E i \in Ids : rows' = [rows EXCEPT ![i].cols = cols,
                                                 ![i].active = api.active]
      BY <1>5 DEF UpdateScope, Having
    <2> HIDE DEF cols
    <2>4. rows' \in Seq(Row) /\ Ids \subseteq Ids'
      BY <2>1, <2>2, <2>3, Recolumned DEF TypeOK, Ids
    <2>5. UNCHANGED <<data, proc, resets>> /\ api' = None
      BY <1>5 DEF UpdateScope
    <2> QED
      BY <1>0, <2>4, <2>5 DEF TypeOK
  <1>6. \/ \E mark \in Periods : \E fetchers : PutReset(fetchers, mark)
        \/ \E mark \in Periods, cols \in Posted, active \in BOOLEAN :
             CheckPost(cols, mark, active)
        \/ \E cols \in Confs \cup {NullRow}, active \in BOOLEAN :
             CheckPatch(cols, active)
        \/ CreateScope \/ UpdateScope
    BY Zenon DEF Serve
  <1> QED
    BY <1>1, <1>2, <1>3, <1>4, <1>5, <1>6

LEMMA TypeNext ==
  ASSUME TypeOK, [Next]_vars
  PROVE  TypeOK'
  <1>1. CASE UNCHANGED vars
    BY <1>1 DEF vars, TypeOK, Fits, Ids
  <1> QED
    BY <1>1, TypeProcess, TypeServe DEF Next

(* Every process is in a state of its own kind and has in hand a row of    *)
(* the table, which only grows.                                            *)
THEOREM TypeCorrect == Spec => []TypeOK
  BY TypeInit, TypeNext, PTL DEF Spec
-----------------------------------------------------------------------------
(***************************************************************************)
(* What others do to a configuration: delete its data, and add a row.      *)
(***************************************************************************)
KeepsRows(c) ==
  /\ Ids \subseteq Ids'
  /\ \A i \in Ids :
       /\ rows'[i].by = rows[i].by
       /\ rows[i].cols = c => rows'[i].cols = c
       /\ rows[i].cols = NullRow /\ rows[i].by = c => rows'[i].cols = NullRow
       /\ rows'[i].cols \in {c, NullRow} =>
            rows'[i].cols = rows[i].cols /\ rows'[i].mark = rows[i].mark
  /\ \A i \in Ids' \ Ids : /\ rows'[i].by # c
                           /\ rows'[i].cols = c => Ids = {}
                           /\ i = Len(rows) + 1

Apart(c) ==
  /\ proc'[c] = proc[c]
  /\ \A q \in Periods : data'[c][q] \in {0, data[c][q]}
  /\ KeepsRows(c)

LEMMA ApartKeeps ==
  ASSUME TypeOK, TypeOK', NEW c \in Confs, OwnInv(c), Apart(c)
  PROVE  OwnInv(c)'
  <1> USE DEF Apart, KeepsRows
  <1>1. /\ Having(c) \subseteq Having(c)'
        /\ \A i \in Having(c)' : i \in Having(c) \/ (Ids = {} /\ i = Len(rows) + 1)
        /\ \A i \in Having(c) : rows'[i].mark = rows[i].mark
    BY DEF Having
  <1>2. \A i, j \in Having(c)' : i = j
    <2>1. Ids = {} => Having(c) = {}
      BY DEF Having
    <2> QED
      BY <1>1, <2>1 DEF OwnInv
  <1>3. Rated(c)' \subseteq Rated(c) /\ \A q \in Periods : data'[c][q] <= 1
    <2>1. \A q \in Periods : data[c][q] \in Nat /\ data[c][q] <= 1
      BY DEF TypeOK, OwnInv
    <2> QED
      BY <2>1 DEF Rated
  <1>4. /\ \A uses : At(c, uses)' <=> At(c, uses)
        /\ RowLess(c)' => RowLess(c)
    BY <1>1 DEF At, RowLess
  <1>5. LooksForOwn(c)'
    BY DEF LooksForOwn, OwnInv
  <1>6. InHand(c)'
    <2>1. proc[c].pc = "adopt" /\ proc[c].row \in Ids /\ Having(c) = {}
            => Having(c)' = {}
      BY <1>1
    <2> QED
      BY <1>1, <2>1 DEF InHand, OwnInv
  <1>7. FirstOnly(c)'
    <2>1. ASSUME Having(c)' = {} PROVE Having(c) = {}
      BY <1>1, <2>1
    <2>2. \A i \in Having(NullRow) : rows[i].by = c =>
             i \in Having(NullRow)' /\ rows'[i].by = c
      BY DEF Having
    <2> QED
      BY <1>3, <1>4, <2>1, <2>2 DEF FirstOnly, OwnInv
  <1>8. Bounded(c)'
    <2>1. ASSUME ~At(c, {"set"})', NEW i \in Having(c)', NEW q \in Rated(c)'
          PROVE  q <= rows'[i].mark
      <3>1. q \in Rated(c) /\ ~At(c, {"set"})
        BY <1>3, <1>4, <2>1
      <3>2. CASE i \in Having(c)
        BY <1>1, <3>1, <3>2 DEF Bounded, OwnInv
      <3>3. CASE Ids = {}
        BY <3>1, <3>3 DEF FirstOnly, OwnInv, Having
      <3> QED
        BY <1>1, <3>2, <3>3
    <2> QED
      BY <1>3, <1>4, <2>1 DEF Bounded, OwnInv
  <1> QED
    BY <1>2, <1>3, <1>5, <1>6, <1>7, <1>8 DEF OwnInv

LEMMA ApartMade ==
  ASSUME NEW c \in Confs, OwnRow(c), Apart(c)
  PROVE  OwnRow(c)'
  BY DEF OwnRow, Apart, KeepsRows, At
LEMMA RowsStand ==
  ASSUME UNCHANGED rows, NEW c
  PROVE  KeepsRows(c)
  BY DEF KeepsRows, Ids

LEMMA ProcessApart ==
  ASSUME TypeOK, Clean', NEW c \in Confs, NEW d \in Confs \ {c}, OwnInv(d),
         Process(d)
  PROVE  Apart(c)
  <1> USE ColumnFacts, ProcFacts, ScopeRowsAssumption
  <1> DEFINE p == proc[d]
  <1>1. proc'[c] = proc[c]
    BY DEF Process, Begin, Find, Adopt, NextTimestamp, CheckKnown, CheckActive,
       Rate, SetMark, Reset, Goto, TypeOK
  <1>2. \A q \in Periods : data'[c][q] \in {0, data[c][q]}
    <2>1. data'[c] = data[c] \/ \E m \in resets : Reset(d, m)
      BY DEF Process, Begin, Find, Adopt, NextTimestamp, CheckKnown,
         CheckActive, Rate, SetMark, Stay, TypeOK
    <2> QED
      BY <2>1 DEF Reset
  <1>3. CASE Adopt(d)
    <2>1. /\ p \in Answers /\ p.row \in Ids /\ Having(d) = {}
          /\ Sought(p.cols, d) = d
      BY <1>3 DEF Adopt, OwnInv, InHand, LooksForOwn
    <2>2. /\ rows' = [rows EXCEPT ![p.row].cols = d]
          /\ rows[p.row].by \in {d, Null} /\ rows[p.row].cols \in {NullRow, d}
      BY <1>3, <2>1 DEF Adopt, Clean
    <2>3. /\ Ids' = Ids
          /\ \A j \in Ids : /\ rows'[j].by = rows[j].by
                            /\ rows'[j].cols = IF j = p.row THEN d ELSE rows[j].cols
                            /\ rows'[j].mark = rows[j].mark
      BY <2>1, <2>2, Recolumned, Zenon
    <2>4. KeepsRows(c)
      BY <2>2, <2>3 DEF KeepsRows
    <2> QED
      BY <1>1, <1>2, <2>4 DEF Apart
  <1>4. CASE SetMark(d)
    <2>1. /\ p \in Answers
          /\ p.row # 0 => p.row \in Ids /\ rows[p.row].cols = d
          /\ Sought(p.cols, d) = d
      BY <1>4 DEF SetMark, OwnInv, InHand, LooksForOwn, Having
    <2>2. CASE p.row # 0
      <3>1. PICK t \in Periods : rows' = [rows EXCEPT ![p.row].mark = t]
        BY <1>4, <2>1, <2>2, RowFacts DEF SetMark, Answers
      <3>2. /\ Ids' = Ids
            /\ \A j \in Ids : /\ rows'[j].by = rows[j].by
                              /\ rows'[j].cols = rows[j].cols
                              /\ rows'[j].mark = IF j = p.row THEN t ELSE rows[j].mark
        BY <2>1, <2>2, <3>1, Marked, Zenon
      <3>3. KeepsRows(c)
        BY <2>1, <2>2, <3>2 DEF KeepsRows
      <3> QED
        BY <1>1, <1>2, <3>3 DEF Apart
    <2>3. CASE rows' = rows
      BY <1>1, <1>2, <2>3, RowsStand DEF Apart
    <2>4. CASE rows' = Append(rows, NewRow(p.cols, p.period, TRUE, d))
      <3> DEFINE r == NewRow(p.cols, p.period, TRUE, d)
      <3>1. r \in Row /\ r.by = d /\ r.cols = p.cols
        BY <2>1 DEF NewRow, Row, Answers
      <3>2. p.cols # c
        BY <2>1
      <3> HIDE DEF r
      <3>3. /\ Ids' = Ids \cup {Len(rows) + 1}
            /\ \A j \in Ids : rows'[j] = rows[j]
            /\ rows'[Len(rows) + 1] = r
        BY <2>4, <3>1, OneAdded, Zenon DEF r
      <3>4. KeepsRows(c)
        BY <3>1, <3>2, <3>3 DEF KeepsRows
      <3> QED
        BY <1>1, <1>2, <3>4 DEF Apart
    <2> QED
      BY <1>4, <2>2, <2>3, <2>4 DEF SetMark, Make
  <1>5. CASE UNCHANGED rows
    BY <1>1, <1>2, <1>5, RowsStand DEF Apart
  <1>6. UNCHANGED rows \/ Adopt(d) \/ SetMark(d)
    BY DEF Process, Begin, Find, NextTimestamp, CheckKnown, CheckActive, Rate,
       Reset, Stay
  <1> QED
    BY <1>3, <1>4, <1>5, <1>6

LEMMA ServeApart ==
  ASSUME TypeOK, Clean', NEW c \in Confs, Serve
  PROVE  Apart(c)
  <1> USE ColumnFacts, ScopeRowsAssumption
  <1>1. proc' = proc /\ data' = data
    BY DEF Serve, PutReset, CheckPost, CheckPatch, CreateScope, UpdateScope
  <1>2. CASE UNCHANGED rows
    BY <1>1, <1>2, RowsStand DEF Apart
  <1>3. CASE CreateScope /\ ~UNCHANGED rows
    <2> DEFINE r == NewRow(api.cols, api.mark, api.active, Null)
    <2>1. rows' = Append(rows, r) /\ rows = <<>>
      BY <1>3 DEF CreateScope, Clean
    <2>2. r \in Row /\ r.by = Null
      BY <1>3 DEF CreateScope, TypeOK, None, NewRow, Row
    <2>3. Ids = {}
      BY <2>1 DEF Ids
    <2> HIDE DEF r
    <2>4. KeepsRows(c)
      BY <2>1, <2>2, <2>3, OneAdded DEF KeepsRows
    <2> QED
      BY <1>1, <2>4 DEF Apart
  <1>4. CASE UpdateScope /\ ~UNCHANGED rows
    <2> DEFINE cols == Sought(api.cols, Sought(api.row, ApiConf))
    <2>1. /\ api.row \in Columns /\ api.cols \in Columns /\ api.active \in BOOLEAN
      BY <1>4 DEF UpdateScope, TypeOK, None
    <2>2. cols \in Columns
      BY <2>1 DEF Sought, Or, Columns
    <2>3. PICK i \in Ids :
            /\ rows' = [rows EXCEPT ![i].cols = cols, ![i].active = api.active]
            /\ rows[i].cols = cols
      BY <1>4 DEF UpdateScope, Having, Clean
    <2> HIDE DEF cols
    <2> DEFINE b == api.active
    <2>a. b \in BOOLEAN /\ rows' = [rows EXCEPT ![i].cols = cols, ![i].active = b]
      BY <2>1, <2>3
    <2> HIDE DEF b
    <2>4. /\ Ids' = Ids
          /\ \A j \in Ids : /\ rows'[j].by = rows[j].by
                            /\ rows'[j].cols = IF j = i THEN cols ELSE rows[j].cols
                            /\ rows'[j].mark = rows[j].mark
      BY <2>a, <2>2, Recolumned, Zenon
    <2>5. KeepsRows(c)
      BY <2>3, <2>4 DEF KeepsRows
    <2> QED
      BY <1>1, <2>5 DEF Apart
  <1>5. UNCHANGED rows \/ CreateScope \/ UpdateScope
    BY DEF Serve, PutReset, CheckPost, CheckPatch
  <1> QED
    BY <1>2, <1>3, <1>4, <1>5
-----------------------------------------------------------------------------
(***************************************************************************)
(* What a process does with its own row.                                   *)
(***************************************************************************)

(* The steps that only move the process.                                   *)
LEMMA StayFacts ==
  ASSUME TypeOK, NEW c \in Confs, Stay
  PROVE  /\ Ids' = Ids /\ Having(c)' = Having(c)
         /\ Having(NullRow)' = Having(NullRow)
         /\ Rated(c)' = Rated(c) /\ data'[c] = data[c] /\ rows' = rows
  BY DEF Stay, Ids, Having, Rated

LEMMA OwnMoves ==
  ASSUME TypeOK, NEW c \in Confs, OwnInv(c),
         Begin(c) \/ NextTimestamp(c) \/ CheckKnown(c) \/ CheckActive(c)
  PROVE  OwnInv(c)'
  <1> USE ColumnFacts, ProcFacts
  <1> DEFINE p == proc[c]
  <1>0. Stay
    BY DEF Begin, NextTimestamp, CheckKnown, CheckActive
  <1> USE <1>0, StayFacts
  <1>1. \A i, j \in Having(c)' : i = j
    BY DEF OwnInv
  <1>2. \A q \in Periods : data'[c][q] <= 1
    BY DEF OwnInv
  <1>3. CASE Begin(c)
    <2>1. /\ proc'[c] = Looks("mark", NullRow, 0)
          /\ p.pc = "idle"
      BY <1>3, GoneTo DEF Begin
    <2>2. LooksForOwn(c)' /\ InHand(c)'
      BY <2>1 DEF LooksForOwn, InHand, Looks
    <2>3. Bounded(c)' /\ FirstOnly(c)'
      BY <2>1 DEF Bounded, FirstOnly, At, RowLess, Looks, OwnInv
    <2> QED
      BY <1>1, <1>2, <2>2, <2>3 DEF OwnInv
  <1>4. CASE NextTimestamp(c)
    <2>1. p.pc = "got" /\ p.use = "mark" /\ p \in Answers
      BY <1>4 DEF NextTimestamp, Got
    <2>2. CASE p.mark = Max
      <3>1. proc'[c] = Idle
        BY <1>4, <2>2, GoneTo DEF NextTimestamp
      <3>2. LooksForOwn(c)' /\ InHand(c)'
        BY <3>1 DEF LooksForOwn, InHand, Idle
      <3>3. Bounded(c)' /\ FirstOnly(c)'
        BY <2>1, <3>1 DEF Bounded, FirstOnly, At, RowLess, Idle, OwnInv
      <3> QED
        BY <1>1, <1>2, <3>2, <3>3 DEF OwnInv
    <2>3. CASE p.mark # Max
      <3>1. proc'[c] = Looks("known", NullRow, p.mark + 1)
        BY <1>4, <2>3, GoneTo DEF NextTimestamp
      <3>2. LooksForOwn(c)' /\ InHand(c)'
        BY <3>1 DEF LooksForOwn, InHand, Looks
      <3>3. /\ p.mark \in Int
            /\ \A q \in Rated(c) : q <= p.mark /\ q \in Int
            /\ Having(c) = {} => p.mark = -1
        BY <2>1 DEF OwnInv, Bounded, At, InHand, Rated, Periods, Answers
      <3>4. Bounded(c)' /\ FirstOnly(c)'
        BY <2>1, <3>1, <3>3 DEF Bounded, FirstOnly, At, RowLess, Looks, OwnInv
      <3> QED
        BY <1>1, <1>2, <3>2, <3>4 DEF OwnInv
    <2> QED
      BY <2>2, <2>3
  <1>5. CASE CheckKnown(c)
    <2>1. p.pc = "got" /\ p.use = "known" /\ p \in Answers
      BY <1>5 DEF CheckKnown, Got
    <2>2. CASE p.row = 0
      <3>1. proc'[c] = [p EXCEPT !.pc = "rate"]
        BY <1>5, <2>2, GoneTo DEF CheckKnown
      <3>2. /\ proc'[c].pc = "rate" /\ proc'[c].use = p.use
            /\ proc'[c].cols = p.cols /\ proc'[c].period = p.period
        BY <2>1, <3>1 DEF Answers
      <3>3. LooksForOwn(c)' /\ InHand(c)'
        BY <2>1, <3>2 DEF LooksForOwn, InHand, OwnInv
      <3>4. Bounded(c)' /\ FirstOnly(c)'
        BY <2>1, <2>2, <3>2 DEF Bounded, FirstOnly, At, RowLess, OwnInv
      <3> QED
        BY <1>1, <1>2, <3>3, <3>4 DEF OwnInv
    <2>3. CASE p.row # 0
      <3>1. proc'[c] = Looks("active", NullRow, p.period)
        BY <1>5, <2>3, GoneTo DEF CheckKnown
      <3>2. LooksForOwn(c)' /\ InHand(c)'
        BY <3>1 DEF LooksForOwn, InHand, Looks
      <3>3. Bounded(c)' /\ FirstOnly(c)'
        BY <2>1, <3>1 DEF Bounded, FirstOnly, At, RowLess, Looks, OwnInv
      <3> QED
        BY <1>1, <1>2, <3>2, <3>3 DEF OwnInv
    <2> QED
      BY <2>2, <2>3
  <1>6. CASE CheckActive(c)
    <2>1. p.pc = "got" /\ p.use = "active" /\ p \in Answers
      BY <1>6 DEF CheckActive, Got
    <2>2. CASE p.row # 0 /\ p.active
      <3>1. proc'[c] = [p EXCEPT !.pc = "rate"]
        BY <1>6, <2>2, GoneTo DEF CheckActive
      <3>2. /\ proc'[c].pc = "rate" /\ proc'[c].use = p.use
            /\ proc'[c].cols = p.cols /\ proc'[c].period = p.period
        BY <2>1, <3>1 DEF Answers
      <3>3. LooksForOwn(c)' /\ InHand(c)'
        BY <2>1, <3>2 DEF LooksForOwn, InHand, OwnInv
      <3>4. Bounded(c)' /\ FirstOnly(c)'
        BY <2>1, <2>2, <3>2 DEF Bounded, FirstOnly, At, RowLess, OwnInv
      <3> QED
        BY <1>1, <1>2, <3>3, <3>4 DEF OwnInv
    <2>3. CASE ~(p.row # 0 /\ p.active)
      <3>1. proc'[c] = Idle
        BY <1>6, <2>3, GoneTo DEF CheckActive
      <3>2. LooksForOwn(c)' /\ InHand(c)'
        BY <3>1 DEF LooksForOwn, InHand, Idle
      <3>3. Bounded(c)' /\ FirstOnly(c)'
        BY <2>1, <3>1 DEF Bounded, FirstOnly, At, RowLess, Idle, OwnInv
      <3> QED
        BY <1>1, <1>2, <3>2, <3>3 DEF OwnInv
    <2> QED
      BY <2>2, <2>3
  <1> QED
    BY <1>3, <1>4, <1>5, <1>6
LEMMA OwnFind ==
  ASSUME TypeOK, NEW c \in Confs, OwnInv(c), Find(c)
  PROVE  OwnInv(c)'
  <1> USE ColumnFacts, ProcFacts
  <1> DEFINE p == proc[c]
             found(i) == Found(p.use, p.cols, p.period, i)
  <1>0. Stay /\ p.pc = "find" /\ p \in Searches /\ Sought(p.cols, c) = c
    BY DEF Find, OwnInv, LooksForOwn
  <1> USE <1>0, StayFacts
  <1>1. \A i, j \in Having(c)' : i = j
    BY DEF OwnInv
  <1>2. \A q \in Periods : data'[c][q] <= 1
    BY DEF OwnInv
  <1>3. ASSUME NEW i \in Having(c), Goto(c, found(i))
        PROVE  OwnInv(c)'
    <2>1. /\ proc'[c].pc = "got" /\ proc'[c].use = p.use /\ proc'[c].cols = p.cols
          /\ proc'[c].period = p.period /\ proc'[c].row = i /\ i # 0
          /\ proc'[c].mark = rows[i].mark
      BY <1>3, GoneTo, RowFacts DEF Found, Having
    <2>2. LooksForOwn(c)' /\ InHand(c)'
      BY <2>1 DEF LooksForOwn, InHand, OwnInv
    <2>3. Bounded(c)' /\ FirstOnly(c)'
      BY <2>1 DEF Bounded, FirstOnly, At, RowLess, OwnInv
    <2> QED
      BY <1>1, <1>2, <2>2, <2>3 DEF OwnInv
  <1>4. ASSUME Having(c) = {}, NEW i \in Having(NullRow),
               Goto(c, [found(i) EXCEPT !.pc = "adopt"])
        PROVE  OwnInv(c)'
    <2>1. /\ proc'[c].pc = "adopt" /\ proc'[c].use = p.use /\ proc'[c].cols = p.cols
          /\ proc'[c].period = p.period /\ proc'[c].row = i /\ i \in Ids
          /\ proc'[c].mark = rows[i].mark
      BY <1>4, GoneTo, RowFacts DEF Found, Having
    <2>2. LooksForOwn(c)' /\ InHand(c)'
      BY <1>4, <2>1 DEF LooksForOwn, InHand, OwnInv
    <2>3. Bounded(c)' /\ FirstOnly(c)'
      BY <1>4, <2>1 DEF Bounded, FirstOnly, At, RowLess, OwnInv
    <2> QED
      BY <1>1, <1>2, <2>2, <2>3 DEF OwnInv
  <1>5. ASSUME Having(c) = {}, Having(NullRow) = {}, Goto(c, found(0))
        PROVE  OwnInv(c)'
    <2>1. /\ proc'[c].pc = "got" /\ proc'[c].use = p.use /\ proc'[c].cols = p.cols
          /\ proc'[c].period = p.period /\ proc'[c].row = 0
          /\ proc'[c].mark = -1
      BY <1>5, GoneTo DEF Found
    <2>2. LooksForOwn(c)' /\ InHand(c)'
      BY <2>1 DEF LooksForOwn, InHand, OwnInv
    <2>3. ~At(c, {"set"}) => Rated(c) = {}
      BY <1>5 DEF FirstOnly, OwnInv
    <2>4. Bounded(c)' /\ FirstOnly(c)'
      BY <1>5, <2>1, <2>3 DEF Bounded, FirstOnly, At, RowLess, OwnInv
    <2> QED
      BY <1>1, <1>2, <2>2, <2>4 DEF OwnInv
  <1> QED
    BY <1>3, <1>4, <1>5 DEF Find
LEMMA OwnAdopt ==
  ASSUME TypeOK, Clean', NEW c \in Confs, OwnInv(c), Adopt(c)
  PROVE  OwnInv(c)'
  <1> USE ColumnFacts, ProcFacts
  <1> DEFINE p == proc[c]
  <1>1. /\ p \in Answers /\ p.row \in Ids /\ p.row # 0 /\ Having(c) = {}
        /\ Sought(p.cols, c) = c
    BY RowFacts DEF Adopt, OwnInv, InHand, LooksForOwn
  <1>2. /\ rows' = [rows EXCEPT ![p.row].cols = c]
        /\ rows[p.row].cols \in {NullRow, c}
        /\ Goto(c, [p EXCEPT !.pc = "got"]) /\ data' = data
    BY <1>1 DEF Adopt, Clean
  <1>3. p.mark = rows[p.row].mark /\ p.mark \in Nat
    BY <1>1, <1>2, RowFacts DEF Adopt, OwnInv, InHand, Having, Periods
  <1>4. /\ Ids' = Ids
        /\ \A j \in Ids : /\ rows'[j].by = rows[j].by
                          /\ rows'[j].cols = IF j = p.row THEN c ELSE rows[j].cols
                          /\ rows'[j].mark = rows[j].mark
    BY <1>1, <1>2, Recolumned, Zenon
  <1>5. Having(c)' = {p.row}
    BY <1>1, <1>4 DEF Having
  <1>6. /\ proc'[c].pc = "got" /\ proc'[c].use = p.use /\ proc'[c].cols = p.cols
        /\ proc'[c].period = p.period /\ proc'[c].row = p.row
        /\ proc'[c].mark = p.mark
    BY <1>1, <1>2, GoneTo DEF Answers
  <1>7. Rated(c)' = Rated(c) /\ \A q \in Rated(c) : q = 0
    BY <1>1, <1>2 DEF Rated, FirstOnly, OwnInv
  <1>8. LooksForOwn(c)' /\ InHand(c)'
    BY <1>1, <1>3, <1>4, <1>5, <1>6 DEF LooksForOwn, InHand, OwnInv, Adopt
  <1>9. Bounded(c)'
    <2>1. \A i \in Having(c)' : rows'[i].mark = p.mark
      BY <1>1, <1>3, <1>4, <1>5
    <2> QED
      BY <1>1, <1>3, <1>6, <1>7, <2>1 DEF Bounded, At, OwnInv, Adopt
  <1>10. FirstOnly(c)'
    BY <1>1, <1>5, <1>6 DEF FirstOnly, RowLess
  <1> QED
    BY <1>2, <1>5, <1>8, <1>9, <1>10 DEF OwnInv

LEMMA OwnRate ==
  ASSUME TypeOK, NEW c \in Confs, OwnInv(c), Rate(c)
  PROVE  OwnInv(c)'
  <1> USE ColumnFacts, ProcFacts
  <1> DEFINE p == proc[c]
  <1>1. /\ p \in Answers /\ p.period \in Periods /\ p.pc = "rate"
        /\ p.use \in {"known", "active"}
    BY DEF Rate, Fits, Answers
  <1>2. proc'[c] = Looks("set", NullRow, p.period) /\ rows' = rows
    BY GoneTo DEF Rate
  <1>3. Ids' = Ids /\ Having(c)' = Having(c)
    BY <1>2 DEF Ids, Having
  <1>4. \A q \in Rated(c) : q < p.period
    BY <1>1 DEF OwnInv, Bounded, At
  <1>5. data[c][p.period] = 0
    <2>3. data[c][p.period] \in Nat
      BY <1>1 DEF TypeOK
    <2>1. p.period \in Nat
      BY <1>1 DEF Periods
    <2>2. p.period \notin Rated(c)
      BY <1>4, <2>1
    <2> QED
      BY <1>1, <2>2, <2>3 DEF Rated
  <1>6. data'[c] = [data[c] EXCEPT ![p.period] = 1]
    BY <1>1, <1>5 DEF Rate, TypeOK
  <1>7. Rated(c)' \subseteq Rated(c) \cup {p.period}
    BY <1>6 DEF Rated, TypeOK
  <1>8. \A q \in Periods : data'[c][q] <= 1
    BY <1>1, <1>6 DEF TypeOK, OwnInv
  <1>9. LooksForOwn(c)' /\ InHand(c)'
    BY <1>2 DEF LooksForOwn, InHand, Looks
  <1>10. Bounded(c)'
    <2>1. p.period \in Nat /\ \A q \in Rated(c) : q \in Nat
      BY <1>1 DEF Periods, Rated
    <2>2. \A q \in Rated(c)' : q <= p.period
      BY <1>4, <1>7, <2>1
    <2>3. At(c, {"set"})' /\ proc'[c].period = p.period /\ proc'[c].use = "set"
      BY <1>2 DEF At, Looks
    <2> QED
      BY <2>2, <2>3 DEF Bounded, At
  <1>11. FirstOnly(c)'
    <2>1. Having(c) = {} => p.period = 0 /\ Rated(c) \subseteq {0}
      BY <1>1 DEF FirstOnly, OwnInv, At, RowLess
    <2> QED
      BY <1>2, <1>3, <1>7, <2>1 DEF FirstOnly, At, RowLess, Looks
  <1> QED
    BY <1>3, <1>8, <1>9, <1>10, <1>11 DEF OwnInv

LEMMA OwnReset ==
  ASSUME TypeOK, Clean', NEW c \in Confs, OwnInv(c), NEW m \in resets, Reset(c, m)
  PROVE  OwnInv(c)'
  <1> USE ColumnFacts, ProcFacts
  <1>1. /\ proc'[c] = Looks("reset", m.cols, m.mark) /\ rows' = rows
        /\ m.mark \in Periods /\ proc[c].pc = "idle"
    BY GoneTo DEF Reset, TypeOK
  <1>2. m.cols.key # Null /\ Sought(m.cols, c) = c
    <2>1. /\ m.cols.key = Null => "keyless" \in why'
          /\ Sought(m.cols, c) # c => "foreign" \in why'
      BY DEF Reset
    <2> QED
      BY <2>1 DEF Clean
  <1>3. c.key = m.cols.key
    BY <1>2 DEF Sought, Or
  <1>4. \A q \in Periods : data'[c][q] = IF q >= m.mark THEN 0 ELSE data[c][q]
    BY <1>3 DEF Reset
  <1>5. /\ Rated(c)' \subseteq Rated(c) /\ \A q \in Rated(c)' : q < m.mark
        /\ \A q \in Periods : data'[c][q] <= 1
    <2>1. m.mark \in Nat /\ \A q \in Periods : q \in Nat
      BY <1>1 DEF Periods
    <2>2. \A q \in Periods : data[c][q] \in Nat /\ data[c][q] <= 1
      BY DEF TypeOK, OwnInv
    <2> QED
      BY <1>4, <2>1, <2>2 DEF Rated
  <1>6. /\ Ids' = Ids /\ Having(c)' = Having(c) /\ Having(NullRow)' = Having(NullRow)
    BY <1>1 DEF Ids, Having
  <1>7. LooksForOwn(c)' /\ InHand(c)'
    BY <1>1, <1>2 DEF LooksForOwn, InHand, Looks
  <1>8. Bounded(c)' /\ FirstOnly(c)'
    BY <1>1, <1>5, <1>6 DEF Bounded, FirstOnly, At, RowLess, Looks, OwnInv
  <1> QED
    BY <1>5, <1>6, <1>7, <1>8 DEF OwnInv

LEMMA OwnSetMark ==
  ASSUME TypeOK, NEW c \in Confs, OwnInv(c), SetMark(c)
  PROVE  OwnInv(c)'
  <1> USE ColumnFacts, ProcFacts
  <1> DEFINE p == proc[c]
  <1>1. /\ p \in Answers /\ p.period \in Periods /\ p.cols \in Columns
        /\ p.pc = "got" /\ p.use \in {"set", "reset"} /\ Sought(p.cols, c) = c
        /\ IF p.use = "reset" THEN p.cols.key # Null ELSE p.cols = NullRow
        /\ IF p.row = 0 THEN p.mark = -1
                        ELSE p.row \in Having(c) /\ p.mark = rows[p.row].mark
    BY DEF SetMark, OwnInv, LooksForOwn, InHand, Answers
  <1>2. data' = data /\ Rated(c)' = Rated(c) /\ \A q \in Rated(c) : q \in Nat
    BY DEF SetMark, Rated, Periods
  <1>3. p.period \in Nat
    BY <1>1 DEF Periods
  <1>4. /\ p.use = "set" => \A q \in Rated(c) : q <= p.period
        /\ p.use = "reset" => \A q \in Rated(c) : q < p.period
    BY <1>1 DEF OwnInv, Bounded, At
  <1>5. proc'[c] \in {Looks("mark", NullRow, 0), Idle}
    BY GoneTo DEF SetMark, Written
  <1>6. /\ LooksForOwn(c)' /\ InHand(c)'
        /\ \A use \in {"known", "active", "set", "reset"} : ~At(c, {use})'
        /\ proc'[c].pc # "got"
    BY <1>5 DEF LooksForOwn, InHand, Looks, Idle, At
  <1>7. SUFFICES /\ \A i, j \in Having(c)' : i = j
                 /\ \A i \in Having(c)', q \in Rated(c) : q <= rows'[i].mark
                 /\ Having(c)' = {} => Rated(c) \subseteq {0}
                 /\ Having(c)' = {} /\ Rated(c) # {} =>
                      \E i \in Having(NullRow)' : rows'[i].by = c
    <2>1. ~At(c, {"known", "active", "reset"})' /\ ~At(c, {"known", "active", "set"})'
          /\ ~At(c, {"set"})'
      BY <1>6 DEF At
    <2>2. Bounded(c)' /\ FirstOnly(c)'
      BY <1>2, <1>6, <1>7, <2>1 DEF Bounded, FirstOnly
    <2> QED
      BY <1>2, <1>6, <1>7, <2>2 DEF OwnInv
  <1>8. CASE p.row # 0
    <2>1. /\ p.row \in Ids /\ rows[p.row].cols = c
          /\ Having(c) = {p.row}
      BY <1>1, <1>8 DEF Having, OwnInv
    <2>2. rows' = [rows EXCEPT ![p.row].mark = p.period]
      BY <1>1, <1>8 DEF SetMark
    <2>3. /\ Ids' = Ids
          /\ \A j \in Ids : /\ rows'[j].by = rows[j].by
                            /\ rows'[j].cols = rows[j].cols
                            /\ rows'[j].mark = IF j = p.row THEN p.period ELSE rows[j].mark
      BY <1>1, <2>1, <2>2, Marked, Zenon
    <2>4. Having(c)' = {p.row} /\ rows'[p.row].mark = p.period
      BY <2>1, <2>3 DEF Having
    <2>5. \A q \in Rated(c) : q <= p.period
      BY <1>1, <1>2, <1>3, <1>4
    <2>6. /\ Having(c)' # {}
          /\ \A i \in Having(c)' : i = p.row /\ rows'[i].mark = p.period
      BY <2>4
    <2> QED
      BY <2>5, <2>6
  <1>9. CASE p.row = 0 /\ ~Unique(p.cols)
    <2>1. p.use = "reset" /\ rows' = rows
      BY <1>1, <1>9 DEF SetMark, Unique, NullRow
    <2>2. ~At(c, {"set"}) /\ Having(c)' = Having(c) /\ Having(NullRow)' = Having(NullRow)
      BY <2>1 DEF At, Having, Ids
    <2> QED
      BY <2>1, <2>2 DEF OwnInv, Bounded, FirstOnly
  <1>10. CASE p.row = 0 /\ Unique(p.cols)
    <2> DEFINE r == NewRow(p.cols, p.period, TRUE, c)
               n == Len(rows) + 1
    <2>1. r \in Row /\ r.by = c /\ r.cols = p.cols /\ r.mark = p.period
      BY <1>1 DEF NewRow, Row
    <2>2. rows' = Append(rows, r)
      BY <1>10 DEF SetMark, Make
    <2> HIDE DEF r
    <2>3. /\ Ids' = Ids \cup {n} /\ n \notin Ids
          /\ \A j \in Ids : rows'[j] = rows[j]
          /\ rows'[n] = r
      BY <2>1, <2>2, OneAdded, Zenon
    <2> HIDE DEF n
    <2>4. /\ Having(c)' = IF p.cols = c THEN Having(c) \cup {n} ELSE Having(c)
          /\ Having(NullRow) \subseteq Having(NullRow)'
          /\ \A i \in Having(c) : rows'[i] = rows[i]
          /\ \A i \in Having(NullRow) : rows'[i] = rows[i]
      BY <2>1, <2>3 DEF Having
    <2>5. CASE p.use = "set"
      <3>1. p.period = 0
        BY <1>1, <1>10, <2>5 DEF FirstOnly, OwnInv, At, RowLess
      <3>2. Having(c)' = Having(c) /\ n \in Having(NullRow)' /\ rows'[n].by = c
        BY <1>1, <2>1, <2>3, <2>4, <2>5 DEF Having
      <3>3. \A i \in Having(c) : rows[i].mark \in Nat
        BY RowFacts DEF Having, Periods
      <3> QED
        BY <1>2, <1>4, <2>4, <2>5, <3>1, <3>2, <3>3 DEF OwnInv
    <2>6. CASE p.use = "reset" /\ p.cols = c
      <3>1. Having(c) = {} /\ Having(c)' = {n} /\ rows'[n].mark = p.period
        BY <1>10, <2>1, <2>3, <2>4, <2>6 DEF Unique
      <3> QED
        BY <1>2, <1>3, <1>4, <2>6, <3>1
    <2>7. CASE p.use = "reset" /\ p.cols # c
      <3>1. ~At(c, {"set"}) /\ Having(c)' = Having(c)
        BY <2>4, <2>7 DEF At
      <3> QED
        BY <2>4, <3>1 DEF OwnInv, Bounded, FirstOnly
    <2> QED
      BY <1>1, <2>5, <2>6, <2>7
  <1> QED
    BY <1>8, <1>9, <1>10
LEMMA OwnNext ==
  ASSUME TypeOK, Clean', NEW c \in Confs, OwnInv(c), Process(c)
  PROVE  OwnInv(c)'
  BY OwnMoves, OwnFind, OwnAdopt, OwnRate, OwnSetMark, OwnReset DEF Process

(* What has happened has happened.                                         *)
LEMMA WhyGrows ==
  ASSUME [Next]_vars
  PROVE  why \subseteq why'
  <1>1. ASSUME NEW c \in Confs, Process(c) PROVE why \subseteq why'
    BY <1>1 DEF Process, Begin, Find, Adopt, NextTimestamp, CheckKnown,
       CheckActive, Rate, SetMark, Make, Reset, Stay
  <1>2. ASSUME Serve PROVE why \subseteq why'
    BY <1>2 DEF Serve, PutReset, CheckPost, CheckPatch, CreateScope, UpdateScope
  <1> QED
    BY <1>1, <1>2 DEF Next, vars

LEMMA RowsInit == Init => RowsInv
  <1> SUFFICES ASSUME Init, NEW c \in Confs PROVE OwnInv(c)
    BY DEF RowsInv
  <1>1. Ids = {} /\ Having(c) = {} /\ Rated(c) = {}
    BY DEF Init, Ids, Having, Rated
  <1>2. proc[c].pc = "idle"
    BY DEF Init, Idle
  <1> QED
    BY <1>1, <1>2 DEF Init, OwnInv, LooksForOwn, InHand, Bounded, FirstOnly, At

LEMMA RowsNext ==
  ASSUME TypeOK, RowsInv, [Next]_vars
  PROVE  RowsInv'
  <1> SUFFICES ASSUME Clean', NEW c \in Confs PROVE OwnInv(c)'
    BY DEF RowsInv
  <1>1. \A d \in Confs : OwnInv(d)
    BY WhyGrows DEF RowsInv, Clean
  <1>2. TypeOK'
    BY TypeNext
  <1>3. CASE Process(c)
    BY <1>1, <1>3, OwnNext
  <1>4. ASSUME Apart(c) PROVE OwnInv(c)'
    BY <1>1, <1>2, <1>4, ApartKeeps
  <1>5. ASSUME NEW d \in Confs \ {c}, Process(d) PROVE Apart(c)
    BY <1>1, <1>5, ProcessApart
  <1>6. CASE Serve
    BY <1>4, <1>6, ServeApart
  <1>7. CASE UNCHANGED vars
    <2>1. KeepsRows(c)
      BY <1>7, RowsStand DEF vars
    <2> QED
      BY <1>4, <1>7, <2>1 DEF vars, Apart
  <1> QED
    BY <1>3, <1>4, <1>5, <1>6, <1>7 DEF Next

(* Whatever configurations, periods and requests there are: a period is    *)
(* stored twice for a configuration only after another took a row it did   *)
(* not make (_get_db_item of StateManager), a reset without a scope key or *)
(* under the lock of another configuration, a POST that made a second row, *)
(* or a PATCH that moved one.                                              *)
THEOREM RatedOnce == Spec => []NothingTwice
  <1>1. Init => TypeOK /\ RowsInv
    BY TypeInit, RowsInit
  <1>2. TypeOK /\ RowsInv /\ [Next]_vars => (TypeOK /\ RowsInv)'
    BY TypeNext, RowsNext
  <1>3. TypeOK /\ RowsInv => NothingTwice
    <2> SUFFICES ASSUME TypeOK, RowsInv, NEW c \in Confs, NEW p \in Periods,
                        data[c][p] > 1
                 PROVE  ~Clean
      BY DEF NothingTwice, Clean
    <2> QED
      BY DEF RowsInv, OwnInv, TypeOK
  <1> QED
    BY <1>1, <1>2, <1>3, PTL DEF Spec

-----------------------------------------------------------------------------
(***************************************************************************)
(* The rows that a process makes.                                          *)
(***************************************************************************)
LEMMA MadeOwn ==
  ASSUME TypeOK, why' = {}, NEW c \in Confs, OwnInv(c), OwnRow(c), Process(c)
  PROVE  OwnRow(c)'
  <1> USE ColumnFacts, ProcFacts
  <1> DEFINE p == proc[c]
             made == {i \in Ids : rows[i].by = c}
             about == /\ At(c, {"set", "reset"})
                      /\ p.pc = "got" /\ p.row = 0
  <1>1. /\ \A i \in made : rows[i].cols \in {NullRow, c}
        /\ \A i, j \in made : i = j
        /\ about => made = {}
    BY DEF OwnRow
  <1>2. CASE UNCHANGED rows /\ (about' => Having(c) \cup Having(NullRow) = {})
    <2>1. Ids' = Ids
      BY <1>2 DEF Ids
    <2>2. about' => made = {}
      BY <1>1, <1>2 DEF Having
    <2> QED
      BY <1>1, <1>2, <2>1, <2>2 DEF OwnRow
  <1>3. CASE Find(c)
    <2>1. UNCHANGED rows /\ Sought(p.cols, c) = c
      BY <1>3 DEF Find, Stay, OwnInv, LooksForOwn
    <2>2. ASSUME Having(c) \cup Having(NullRow) # {} PROVE ~about'
      <3>1. PICK i \in Ids :
              \/ Goto(c, Found(p.use, p.cols, p.period, i))
              \/ Goto(c, [Found(p.use, p.cols, p.period, i) EXCEPT !.pc = "adopt"])
        BY <1>3, <2>1, <2>2 DEF Find, Having
      <3>2. proc'[c].row = i
        BY <3>1, GoneTo DEF Found
      <3> QED
        BY <3>2, RowFacts
    <2> QED
      BY <1>2, <2>1, <2>2
  <1>4. CASE Begin(c) \/ NextTimestamp(c) \/ CheckKnown(c) \/ CheckActive(c)
             \/ Rate(c) \/ \E m \in resets : Reset(c, m)
    <2>1. UNCHANGED rows
      BY <1>4 DEF Begin, NextTimestamp, CheckKnown, CheckActive, Rate, Reset, Stay
    <2>2. proc'[c].pc \in {"find", "idle", "rate"}
      <3>1. p.pc = "got" => [p EXCEPT !.pc = "rate"].pc = "rate"
        BY DEF Answers
      <3>2. PICK state : Goto(c, state) /\ state.pc \in {"find", "idle", "rate"}
        <4>1. ASSUME NEW use, NEW x, NEW t PROVE Looks(use, x, t).pc = "find"
          BY DEF Looks
        <4>2. Idle.pc = "idle"
          BY DEF Idle
        <4>3. CASE Begin(c) \/ Rate(c) \/ \E m \in resets : Reset(c, m)
          BY <4>1, <4>3 DEF Begin, Rate, Reset
        <4>4. CASE NextTimestamp(c)
          BY <4>1, <4>2, <4>4 DEF NextTimestamp
        <4>5. CASE CheckKnown(c) \/ CheckActive(c)
          <5> DEFINE rate == [p EXCEPT !.pc = "rate"]
          <5>1. p.pc = "got" /\ rate.pc = "rate"
            BY <3>1, <4>5 DEF CheckKnown, CheckActive, Got
          <5>2. \/ Goto(c, rate) \/ Goto(c, Idle)
                \/ Goto(c, Looks("active", NullRow, p.period))
            BY <4>5 DEF CheckKnown, CheckActive
          <5> HIDE DEF rate
          <5> QED
            BY <4>1, <4>2, <5>1, <5>2
        <4> QED
          BY <1>4, <4>3, <4>4, <4>5
      <3> QED
        BY <3>2, GoneTo
    <2> QED
      BY <1>2, <2>1, <2>2
  <1>5. CASE Adopt(c)
    <2>1. /\ p \in Answers /\ p.row \in Ids /\ p.row # 0 /\ Having(c) = {}
          /\ Sought(p.cols, c) = c
      BY <1>5, RowFacts DEF Adopt, OwnInv, InHand, LooksForOwn
    <2>2. rows' = [rows EXCEPT ![p.row].cols = c] /\ Goto(c, [p EXCEPT !.pc = "got"])
      BY <1>5, <2>1 DEF Adopt
    <2>3. /\ Ids' = Ids
          /\ \A j \in Ids : /\ rows'[j].by = rows[j].by
                            /\ rows'[j].cols = IF j = p.row THEN c ELSE rows[j].cols
                            /\ rows'[j].mark = rows[j].mark
      BY <2>1, <2>2, Recolumned, Zenon
    <2>4. proc'[c].row = p.row
      BY <2>1, <2>2, GoneTo DEF Answers
    <2> QED
      BY <1>1, <2>1, <2>3, <2>4 DEF OwnRow
  <1>6. CASE SetMark(c)
    <2>1. /\ p \in Answers /\ p.period \in Periods /\ p.cols \in Columns
          /\ p.pc = "got" /\ p.use \in {"set", "reset"} /\ Sought(p.cols, c) = c
          /\ IF p.use = "reset" THEN p.cols.key # Null ELSE p.cols = NullRow
          /\ p.row # 0 => p.row \in Ids /\ p.mark = rows[p.row].mark
      BY <1>6 DEF SetMark, OwnInv, LooksForOwn, InHand, Having, Answers
    <2>2. ~about'
      BY <1>6, GoneTo DEF SetMark, Written, Looks, Idle
    <2>3. CASE UNCHANGED rows
      BY <1>2, <2>2, <2>3
    <2>4. CASE p.row # 0
      <3>1. rows' = [rows EXCEPT ![p.row].mark = p.period]
        BY <1>6, <2>1, <2>4 DEF SetMark
      <3>2. /\ Ids' = Ids
            /\ \A j \in Ids : /\ rows'[j].by = rows[j].by
                              /\ rows'[j].cols = rows[j].cols
                              /\ rows'[j].mark = IF j = p.row THEN p.period ELSE rows[j].mark
        BY <2>1, <2>4, <3>1, Marked, Zenon
      <3> QED
        BY <1>1, <2>2, <3>2 DEF OwnRow
    <2>5. CASE p.row = 0 /\ Make(c)
      <3> DEFINE r == NewRow(p.cols, p.period, TRUE, c)
                 n == Len(rows) + 1
      <3>1. r \in Row /\ r.by = c /\ r.cols = p.cols
        BY <2>1 DEF NewRow, Row
      <3>2. rows' = Append(rows, r) /\ p.cols \in Confs \cup {NullRow}
        BY <2>5 DEF Make
      <3> HIDE DEF r
      <3>3. /\ Ids' = Ids \cup {n} /\ n \notin Ids
            /\ \A j \in Ids : rows'[j] = rows[j]
            /\ rows'[n] = r
        BY <3>1, <3>2, OneAdded, Zenon
      <3> HIDE DEF n
      <3>4. made = {} /\ p.cols \in {NullRow, c}
        BY <1>1, <2>1, <2>5, <3>2 DEF At
      <3> QED
        BY <2>2, <3>1, <3>3, <3>4 DEF OwnRow
    <2> QED
      BY <1>6, <2>3, <2>4, <2>5 DEF SetMark
  <1> QED
    BY <1>3, <1>4, <1>5, <1>6 DEF Process

LEMMA MadeNext ==
  ASSUME TypeOK, RowsInv, MadeInv, [Next]_vars
  PROVE  MadeInv'
  <1> SUFFICES ASSUME why' = {}, NEW c \in Confs PROVE OwnRow(c)'
    BY DEF MadeInv
  <1>1. why = {} /\ Clean /\ Clean'
    BY WhyGrows DEF Clean
  <1>2. OwnRow(c) /\ \A d \in Confs : OwnInv(d)
    BY <1>1 DEF RowsInv, MadeInv
  <1>3. CASE Process(c)
    BY <1>2, <1>3, MadeOwn
  <1>4. ASSUME Apart(c) PROVE OwnRow(c)'
    BY <1>2, <1>4, ApartMade
  <1>5. ASSUME NEW d \in Confs \ {c}, Process(d) PROVE Apart(c)
    BY <1>1, <1>2, <1>5, ProcessApart
  <1>6. CASE Serve
    BY <1>1, <1>4, <1>6, ServeApart
  <1>7. CASE UNCHANGED vars
    <2>1. KeepsRows(c)
      BY <1>7, RowsStand DEF vars
    <2> QED
      BY <1>4, <1>7, <2>1 DEF vars, Apart
  <1> QED
    BY <1>3, <1>4, <1>5, <1>6, <1>7 DEF Next

(* A process of any configuration makes at most one row of the scope, but  *)
(* for the same reasons, or after the reset of a row that has only some of *)
(* its columns (set_last_processed_timestamp and create_scope).            *)
THEOREM RowMadeOnce == Spec => []OneRowEach
  <1>1. Init => TypeOK /\ RowsInv /\ MadeInv
    <2> SUFFICES ASSUME Init PROVE MadeInv
      BY TypeInit, RowsInit
    <2>1. Ids = {} /\ \A c \in Confs : proc[c].pc = "idle"
      BY DEF Init, Ids, Idle
    <2> QED
      BY <2>1 DEF MadeInv, OwnRow, At
  <1>2. TypeOK /\ RowsInv /\ MadeInv /\ [Next]_vars
          => (TypeOK /\ RowsInv /\ MadeInv)'
    BY TypeNext, RowsNext, MadeNext
  <1>3. TypeOK /\ RowsInv /\ MadeInv => OneRowEach
    <2> SUFFICES ASSUME TypeOK, MadeInv, why = {}, NEW i \in Ids, NEW j \in Ids,
                        rows[i].by = rows[j].by, rows[i].by # Null
                 PROVE  i = j
      BY DEF OneRowEach
    <2>1. rows[i].by \in Confs
      BY RowFacts DEF Row
    <2> QED
      BY <2>1 DEF MadeInv, OwnRow
  <1> QED
    BY <1>1, <1>2, <1>3, PTL DEF Spec
=============================================================================
