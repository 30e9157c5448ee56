---------------------------- MODULE SessionProofs ----------------------------
(***************************************************************************)
(* Proofs about Session: the type invariant, the names and counts of       *)
(* cells, and what the engine keeps of them, for any number of names,      *)
(* cells and restarts.                                                     *)
(***************************************************************************)
EXTENDS Session, TLAPS

-----------------------------------------------------------------------------
(* Type correctness. *)

LEMMA CounterMoves ==
    ASSUME NEW c \in CellNames
    PROVE  /\ AfterName(c) \in CellNames
           /\ AfterName(c).execution = c.execution
           /\ AfterName(c).retry = c.retry + 1
           /\ Success(c) \in CellNames
           /\ Success(c).execution = c.execution + 1
BY DEF CellNames, AfterName, Success

LEMMA TypeInit == Init => TypeOK
<1> SUFFICES ASSUME Init PROVE TypeOK
    OBVIOUS
<1>1. CellTypeOK
    BY DEF Init, CellTypeOK, CellNames
<1>2. EngineTypeOK
    BY DEF Init, EngineTypeOK, NoValues
<1>3. FlagTypeOK
    BY Zenon DEF Init, FlagTypeOK
<1>4. StaticTypeOK
    BY DEF Init, StaticTypeOK
<1>5. ReplyTypeOK
    BY DEF Init, ReplyTypeOK
<1> QED
    BY <1>1, <1>2, <1>3, <1>4, <1>5 DEF TypeOK

(* The names given out so far, and the filter and switch that refer to     *)
(* them, keep their types when another cell is named.                      *)
LEMMA TypeCell ==
    ASSUME TypeOK, [Next]_vars
    PROVE  CellTypeOK' /\ Len(names') >= Len(names)
<1> USE DEF TypeOK, CellTypeOK, CellNames, stackVars, historyVars
<1>1. CASE Restart
    BY <1>1 DEF Restart
<1>2. ASSUME NEW d \in Names \cup {NoName}, TakeCell(d)
      PROVE  CellTypeOK' /\ Len(names') >= Len(names)
    <2>1. counter' \in CellNames
        BY <1>2, CounterMoves DEF TakeCell
    <2>2. names' \in Seq(CellNames) /\ Len(names') = Len(names) + 1
        BY <1>2 DEF TakeCell
    <2>3. konst' \in Seq(CellNames)
        BY <1>2 DEF TakeCell
    <2> QED
        BY <2>1, <2>2, <2>3
<1>3. ASSUME NEW isNothing \in BOOLEAN, Succeeds(isNothing)
      PROVE  CellTypeOK' /\ Len(names') >= Len(names)
    BY <1>3 DEF Succeeds, Success
<1>4. CASE UNCHANGED <<counter, names, konst>>
    BY <1>4
<1> QED
    BY <1>1, <1>2, <1>3, <1>4
    DEF Next, Step, Rest, ParseFails, Merge, Assign, Display, RunExternal,
        EvaluationFails, vars

LEMMA TypeEngine == ASSUME TypeOK, [Next]_vars PROVE EngineTypeOK'
<1> USE DEF TypeOK, EngineTypeOK, ReplyTypeOK, engineVars, stackVars
<1>1. CASE Restart
    BY <1>1 DEF Restart, StackAfterRestart, NoValues
<1>2. CASE Merge
    <2>1. Current \in Nat \ {0}
        BY <1>2 DEF Merge, Current
    <2>2. CASE declares # NoName
        <3>0. decls' = Append(decls, Current)
            BY <1>2, <2>2 DEF Merge
        <3>1. decls' \in Seq(Nat \ {0}) /\ Len(decls') = Len(decls) + 1
            BY <2>1, <3>0
        <3>2. scope' \in [Names -> 0..Len(decls')]
            BY <1>2, <2>2, <3>1 DEF Merge
        <3> QED
            BY <1>2, <3>1, <3>2 DEF Merge
    <2> QED
        BY <1>2, <2>2 DEF Merge
<1>3. CASE Assign
    <2>1. scope[declares] \in 1..Len(decls)
        BY <1>3 DEF Assign, Assigned
    <2> QED
        BY <1>3, <2>1 DEF Assign
<1>4. CASE ParseFails
    BY <1>4 DEF ParseFails, DeclsAfterParseError, Answer
<1>5. CASE UNCHANGED <<decls, scope, stack>> /\ (phase' # "running" \/ UNCHANGED <<phase, declares>>)
    BY <1>5
<1> QED
    BY <1>1, <1>2, <1>3, <1>4, <1>5
    DEF Next, Step, Rest, TakeCell, Display, RunExternal, EvaluationFails,
        Succeeds, Answer, vars

LEMMA TypeFlag == ASSUME TypeOK, [Next]_vars PROVE FlagTypeOK'
<1> USE DEF TypeOK
<1>1. CASE UNCHANGED runExternal
    BY <1>1, Zenon DEF FlagTypeOK
<1>2. CASE runExternal' = FALSE
    BY <1>2, Zenon DEF FlagTypeOK
<1>3. CASE runExternal' = (runExternal \/ external = "justEnabled")
    BY <1>3, Zenon DEF FlagTypeOK
<1> QED
    BY <1>1, <1>2, <1>3
    DEF Next, Step, Rest, Restart, TakeCell, ParseFails, Merge, Assign, Display,
        RunExternal, EvaluationFails, Succeeds, engineVars, vars

LEMMA TypeStatics == ASSUME TypeOK, [Next]_vars PROVE StaticTypeOK'
<1> USE DEF TypeOK, StaticTypeOK
<1>1. Len(names) \in Nat /\ Len(names') \in Nat /\ Len(names') >= Len(names)
    BY TypeCell DEF CellTypeOK
<1>2. CASE Restart
    BY <1>1, <1>2 DEF Restart
<1>3. ASSUME NEW d \in Names \cup {NoName}, TakeCell(d) PROVE StaticTypeOK'
    BY <1>1, <1>3 DEF TakeCell, Raised
<1>4. CASE Display
    <2>1. Current \in 0..Len(names)
        BY <1>1 DEF Current
    <2> QED
        BY <1>4, <2>1 DEF Display, historyVars
<1>5. CASE RunExternal
    <2>1. Current \in 0..Len(names)
        BY <1>1 DEF Current
    <2> QED
        BY <1>5, <2>1 DEF RunExternal, RaisedByCommand
<1>6. ASSUME NEW isNothing \in BOOLEAN, Succeeds(isNothing) PROVE StaticTypeOK'
    <2>1. Current \in 1..Len(names)
        BY <1>1, <1>6 DEF Succeeds, Current, ReplyTypeOK
    <2> QED
        BY <1>6, <2>1 DEF Succeeds, FilterTaken
<1>7. CASE UNCHANGED <<external, filter, enabled, shown, restarts, names>>
    BY <1>7
<1> QED
    BY <1>2, <1>3, <1>4, <1>5, <1>6, <1>7
    DEF Next, Step, Rest, ParseFails, Merge, Assign, EvaluationFails, historyVars, vars

LEMMA TypeReplies == ASSUME TypeOK, [Next]_vars PROVE ReplyTypeOK'
<1> USE DEF TypeOK, CellTypeOK, CellNames, ReplyTypeOK, Replies
<1>1. ASSUME NEW d \in Names \cup {NoName}, TakeCell(d) PROVE ReplyTypeOK'
    BY <1>1 DEF TakeCell
<1>2. ASSUME NEW kind \in {"ok", "parse", "failed"}, phase # "idle",
             Answer(kind), UNCHANGED names
      PROVE  ReplyTypeOK'
    BY <1>2 DEF Answer
<1>3. CASE Merge
    BY <1>3 DEF Merge, historyVars
<1>4. CASE UNCHANGED <<phase, declares, replies, names>>
    BY <1>4
<1> QED
    BY <1>1, <1>2, <1>3, <1>4
    DEF Next, Step, Rest, Restart, ParseFails, Assign, Display, RunExternal,
        EvaluationFails, Succeeds, historyVars, vars

LEMMA TypeStep == TypeOK /\ [Next]_vars => TypeOK'
BY TypeCell, TypeEngine, TypeFlag, TypeStatics, TypeReplies DEF TypeOK

(* The state of a session always has its type; in particular only          *)
(* variables of the engine are on the stack, and every cell but the one in *)
(* hand has been answered (shell.rs:168-212).                              *)
THEOREM SessionType == Spec => []TypeOK
BY TypeInit, TypeStep, PTL DEF Spec

-----------------------------------------------------------------------------
(* Names.  Every name given out comes before the counter, in the order of  *)
(* executions and then of retries, and no step takes the counter back.     *)
Before(n, c) == \/ n.execution < c.execution
                \/ n.execution = c.execution /\ n.retry < c.retry

NamesInv == /\ UniqueNames
            /\ \A i \in 1..Len(names) : Before(names[i], counter)

LEMMA NamesStep == TypeOK /\ NamesInv /\ [Next]_vars => NamesInv'
<1> SUFFICES ASSUME TypeOK, NamesInv, [Next]_vars PROVE NamesInv'
    OBVIOUS
<1> USE DEF TypeOK, CellTypeOK, NamesInv, stackVars, historyVars
<1>0. /\ Len(names) \in Nat
      /\ \A i \in 1..Len(names) : names[i].execution \in Nat /\ names[i].retry \in Nat
      /\ counter.execution \in Nat /\ counter.retry \in Nat
    <2>1. \A n \in CellNames : n.execution \in Nat /\ n.retry \in Nat
        BY DEF CellNames
    <2>2. Len(names) \in Nat /\ \A i \in 1..Len(names) : names[i] \in CellNames
        OBVIOUS
    <2> QED
        BY <2>1, <2>2
<1>1. ASSUME NEW d \in Names \cup {NoName}, TakeCell(d) PROVE NamesInv'
    <2>1. /\ Len(names') = Len(names) + 1
          /\ names'[Len(names')] = counter
          /\ \A i \in 1..Len(names) : names'[i] = names[i]
          /\ konst' = <<counter>>
        BY <1>1 DEF TakeCell
    <2>2. /\ counter'.execution = counter.execution
          /\ counter'.retry = counter.retry + 1
        BY <1>1, CounterMoves DEF TakeCell
    <2>3. \A i \in 1..Len(names') : Before(names'[i], counter')
        BY <1>0, <2>1, <2>2 DEF Before
    <2>4. \A i \in 1..Len(names) : names[i] # counter
        BY <1>0, SMTT(60) DEF Before
    <2>5. \A i, j \in 1..Len(names') : i # j => names'[i] # names'[j]
        <3> SUFFICES ASSUME NEW i \in 1..Len(names'), NEW j \in 1..Len(names'), i # j
                     PROVE  names'[i] # names'[j]
            OBVIOUS
        <3>1. CASE i \in 1..Len(names) /\ j \in 1..Len(names)
            BY <3>1, <2>1 DEF UniqueNames
        <3>2. CASE i = Len(names') /\ j \in 1..Len(names)
            BY <3>2, <2>1, <2>4
        <3>3. CASE j = Len(names') /\ i \in 1..Len(names)
            BY <3>3, <2>1, <2>4
        <3> QED
            BY <1>0, <2>1, <3>1, <3>2, <3>3
    <2> QED
        BY <2>1, <2>3, <2>5 DEF UniqueNames
<1>2. ASSUME NEW isNothing \in BOOLEAN, Succeeds(isNothing) PROVE NamesInv'
    <2>1. counter'.execution = counter.execution + 1
        BY <1>2, CounterMoves DEF Succeeds
    <2>2. names' = names /\ phase' = "idle"
        BY <1>2 DEF Succeeds, Answer
    <2> QED
        BY <1>0, <2>1, <2>2 DEF Before, UniqueNames
<1>3. CASE UNCHANGED <<counter, names>> /\ (phase' = "idle" \/ (phase # "idle" /\ konst' = konst))
    BY <1>3 DEF UniqueNames
<1> QED
    BY <1>1, <1>2, <1>3
    DEF Next, Step, Rest, Restart, ParseFails, Merge, Assign, Display, RunExternal,
        EvaluationFails, Answer, vars

(* No cell ever gets the name of another one, whatever fails, is retried   *)
(* or is restarted, and the nuju constant names the cell in hand           *)
(* (shell.rs:122-139, shell.rs:184-186).                                   *)
THEOREM NamesAreUnique == Spec => []UniqueNames
<1>1. Init => TypeOK /\ NamesInv
    BY TypeInit DEF Init, NamesInv, UniqueNames
<1>2. TypeOK /\ NamesInv /\ [Next]_vars => (TypeOK /\ NamesInv)'
    BY TypeStep, NamesStep
<1>3. NamesInv => UniqueNames
    BY DEF NamesInv
<1> QED
    BY <1>1, <1>2, <1>3, PTL DEF Spec

-----------------------------------------------------------------------------
(* Counts.  The counter is what follows the last reply. *)
CountsInv ==
    /\ CountsInOrder
    /\ counter.execution = IF Len(replies) = 0 THEN 1
                           ELSE IF replies[Len(replies)].kind = "ok"
                                THEN replies[Len(replies)].count + 1
                           ELSE replies[Len(replies)].count

LEMMA CountsStep == TypeOK /\ CountsInv /\ [Next]_vars => CountsInv'
<1> SUFFICES ASSUME TypeOK, CountsInv, [Next]_vars PROVE CountsInv'
    OBVIOUS
<1> USE DEF TypeOK, CellTypeOK, ReplyTypeOK, CountsInv
<1>1. ASSUME NEW kind \in {"ok", "parse", "failed"}, Answer(kind),
             counter'.execution = IF kind = "ok" THEN counter.execution + 1
                                  ELSE counter.execution
      PROVE  CountsInv'
    <2>1. /\ Len(replies) \in Nat
          /\ Len(replies') = Len(replies) + 1
          /\ replies'[Len(replies')].kind = kind
          /\ replies'[Len(replies')].count = counter.execution
          /\ \A i \in 1..Len(replies) : replies'[i] = replies[i]
        BY <1>1 DEF Answer
    <2>2. CountsInOrder'
        <3> DEFINE Follows(r, i) ==
                r[i].count = IF i = 1 THEN 1
                             ELSE IF r[i - 1].kind = "ok" THEN r[i - 1].count + 1
                             ELSE r[i - 1].count
        <3>1. ASSUME NEW i \in 1..Len(replies) PROVE Follows(replies', i)
            <4>1. Follows(replies, i)
                BY DEF CountsInOrder
            <4>2. replies'[i] = replies[i] /\ (i # 1 => replies'[i - 1] = replies[i - 1])
                BY <2>1
            <4> QED
                BY <4>1, <4>2
        <3>2. Follows(replies', Len(replies'))
            <4>1. CASE Len(replies) = 0
                BY <2>1, <4>1
            <4>2. CASE Len(replies) # 0
                <5>1. replies'[Len(replies') - 1] = replies[Len(replies)]
                    BY <2>1, <4>2
                <5> QED
                    BY <2>1, <4>2, <5>1
            <4> QED
                BY <4>1, <4>2
        <3>3. \A i \in 1..Len(replies') : i \in 1..Len(replies) \/ i = Len(replies')
            BY <2>1
        <3> HIDE DEF Follows
        <3>4. \A i \in 1..Len(replies') : Follows(replies', i)
            BY <3>1, <3>2, <3>3
        <3> QED
            BY <3>4 DEF CountsInOrder, Follows
    <2> QED
        BY <1>1, <2>1, <2>2
<1>2. CASE ParseFails \/ EvaluationFails
    BY <1>1, <1>2 DEF ParseFails, EvaluationFails
<1>3. ASSUME NEW isNothing \in BOOLEAN, Succeeds(isNothing) PROVE CountsInv'
    BY <1>1, <1>3, CounterMoves DEF Succeeds
<1>4. CASE UNCHANGED <<replies>> /\ counter'.execution = counter.execution
    BY <1>4 DEF CountsInOrder
<1> QED
    BY <1>2, <1>3, <1>4, CounterMoves
    DEF Next, Step, Rest, Restart, TakeCell, Merge, Assign, Display, RunExternal, vars

(* The execution counts of the replies start at one and move with every    *)
(* success and with nothing else: "Jupyter demands that the execution      *)
(* counter only increases after a successful execution" (shell.rs:128-139). *)
THEOREM CountsFollowSuccess == Spec => []CountsInOrder
<1>1. Init => TypeOK /\ CountsInv
    BY TypeInit DEF Init, CountsInv, CountsInOrder
<1>2. TypeOK /\ CountsInv /\ [Next]_vars => (TypeOK /\ CountsInv)'
    BY TypeStep, CountsStep
<1>3. CountsInv => CountsInOrder
    BY DEF CountsInv
<1> QED
    BY <1>1, <1>2, <1>3, PTL DEF Spec

-----------------------------------------------------------------------------
(* What the engine keeps.  Only the cell in hand has declared without      *)
(* having been answered, and only once it runs; what it declared is the    *)
(* last variable of the engine.                                            *)
EngineInv ==
    /\ ValuesAreCurrent
    /\ StateSharing
    /\ phase = "running" /\ declares # NoName =>
           /\ Len(decls) > 0 /\ scope[declares] = Len(decls)
           /\ decls[Len(decls)] = Current
    /\ \A v \in 1..Len(decls) :
           decls[v] <= Len(replies) \/ ( /\ phase = "running" /\ declares # NoName
                                        /\ v = Len(decls) )

LEMMA EngineFrame ==
    ASSUME EngineInv,
           UNCHANGED <<decls, scope, stack, replies, phase, declares, names>>
    PROVE  EngineInv'
BY DEF EngineInv, ValuesAreCurrent, StateSharing, Current

(* An answer closes the cell in hand.                                      *)
LEMMA EngineAnswer ==
    ASSUME TypeOK, EngineInv, NEW kind \in {"ok", "parse", "failed"},
           phase # "idle", Answer(kind), UNCHANGED <<decls, scope, stack, names>>,
           kind = "parse" => phase = "parsing",
           kind = "ok" => phase = "running" /\ Assigned
    PROVE  EngineInv'
<1> USE DEF TypeOK, EngineTypeOK, ReplyTypeOK
<1>1. /\ Len(replies) \in Nat /\ Len(replies') = Len(replies) + 1
      /\ Len(decls) \in Nat /\ \A v \in 1..Len(decls) : decls[v] \in Nat \ {0}
      /\ \A i \in 1..Len(replies) : replies'[i] = replies[i]
      /\ replies'[Len(replies')].kind = kind
      /\ Current = Len(replies')
    BY DEF Answer, Current
<1>2. ValuesAreCurrent'
    BY DEF EngineInv, ValuesAreCurrent
<1>3. \A v \in 1..Len(decls) : decls[v] <= Len(replies')
    BY <1>1 DEF EngineInv
<1>4. ASSUME NEW v \in 1..Len(decls)
      PROVE  /\ replies'[decls[v]].kind # "parse"
             /\ replies'[decls[v]].kind = "ok" => v \in DOMAIN stack
    <2>1. CASE decls[v] <= Len(replies)
        <3>1. replies'[decls[v]] = replies[decls[v]]
            BY <1>1, <2>1
        <3> QED
            BY <2>1, <3>1 DEF EngineInv, StateSharing
    <2>2. CASE /\ phase = "running" /\ declares # NoName /\ v = Len(decls)
        BY <1>1, <2>2 DEF EngineInv, Assigned
    <2> QED
        BY <2>1, <2>2 DEF EngineInv
<1>5. StateSharing'
    BY <1>4 DEF StateSharing
<1> QED
    BY <1>2, <1>3, <1>5 DEF EngineInv, Answer

LEMMA EngineStep == TypeOK /\ EngineInv /\ [Next]_vars => EngineInv'
<1> SUFFICES ASSUME TypeOK, EngineInv, [Next]_vars PROVE EngineInv'
    OBVIOUS
<1> USE DEF engineVars, stackVars, historyVars
<1>0. /\ Len(decls) \in Nat /\ \A v \in 1..Len(decls) : decls[v] \in Nat \ {0}
      /\ Len(replies) \in Nat /\ Len(names) \in Nat
      /\ DOMAIN stack \subseteq 1..Len(decls)
    BY DEF TypeOK, EngineTypeOK, ReplyTypeOK, CellTypeOK
<1>1. CASE Restart
    BY <1>1 DEF Restart, StackAfterRestart, NoValues, EngineInv, ValuesAreCurrent,
                StateSharing
<1>2. ASSUME NEW d \in Names \cup {NoName}, TakeCell(d) PROVE EngineInv'
    BY <1>2 DEF TakeCell, EngineInv, ValuesAreCurrent, StateSharing
<1>3. CASE ParseFails
    BY <1>3, EngineAnswer DEF ParseFails, DeclsAfterParseError
<1>4. CASE EvaluationFails
    BY <1>4, EngineAnswer DEF EvaluationFails
<1>5. ASSUME NEW isNothing \in BOOLEAN, Succeeds(isNothing) PROVE EngineInv'
    BY <1>5, EngineAnswer DEF Succeeds
<1>6. CASE Merge
    <2>1. CASE declares = NoName
        BY <1>6, <2>1 DEF Merge, EngineInv, ValuesAreCurrent, StateSharing
    <2>2. CASE declares # NoName
        <3>1. /\ decls' = Append(decls, Current) /\ Len(decls') = Len(decls) + 1
              /\ decls'[Len(decls')] = Current /\ Current = Len(replies) + 1
              /\ \A v \in 1..Len(decls) : decls'[v] = decls[v]
            BY <1>0, <1>6, <2>2 DEF Merge, Current, TypeOK, ReplyTypeOK, EngineTypeOK
        <3>2. scope'[declares] = Len(decls')
            BY <1>6, <2>2 DEF Merge, TypeOK, EngineTypeOK, ReplyTypeOK
        <3>3. UNCHANGED <<stack, replies, names, declares>> /\ phase' = "running"
            BY <1>6 DEF Merge
        <3>4. \A v \in 1..Len(decls) : decls[v] <= Len(replies)
            BY <1>6 DEF Merge, EngineInv
        <3>5. ValuesAreCurrent'
            BY <1>0, <3>1, <3>3 DEF EngineInv, ValuesAreCurrent
        <3>6. StateSharing'
            BY <1>0, <3>1, <3>3 DEF EngineInv, StateSharing
        <3>7. \A v \in 1..Len(decls') : v \in 1..Len(decls) \/ v = Len(decls')
            BY <1>0, <3>1
        <3>8. \A v \in 1..Len(decls') :
                  decls'[v] <= Len(replies') \/ v = Len(decls')
            BY <3>1, <3>3, <3>4, <3>7
        <3>9. Len(decls') > 0 /\ decls'[Len(decls')] = Current'
            BY <1>0, <3>1, <3>3 DEF Current
        <3> QED
            BY <2>2, <3>2, <3>3, <3>5, <3>6, <3>8, <3>9 DEF EngineInv
    <2> QED
        BY <2>1, <2>2
<1>7. CASE Assign
    <2>1. /\ scope[declares] = Len(decls) /\ decls[Len(decls)] = Current
          /\ Len(decls) > 0
        BY <1>7 DEF Assign, Assigned, EngineInv
    <2>2. /\ DOMAIN stack' = DOMAIN stack \cup {Len(decls)}
          /\ stack'[Len(decls)] = Current
          /\ \A v \in DOMAIN stack : v # Len(decls) => stack'[v] = stack[v]
        BY <1>7, <2>1 DEF Assign
    <2>3. ValuesAreCurrent'
        BY <1>0, <1>7, <2>1, <2>2 DEF Assign, EngineInv, ValuesAreCurrent
    <2>4. StateSharing'
        BY <1>0, <1>7, <2>2 DEF Assign, EngineInv, StateSharing
    <2> QED
        BY <1>7, <2>3, <2>4 DEF Assign, EngineInv, Current
<1>8. CASE Display \/ RunExternal \/ UNCHANGED vars
    BY <1>8, EngineFrame DEF Display, RunExternal, vars
<1> QED
    BY <1>1, <1>2, <1>3, <1>4, <1>5, <1>6, <1>7, <1>8 DEF Next, Step, Rest

LEMMA EngineInit == Init => EngineInv
BY DEF Init, NoValues, EngineInv, ValuesAreCurrent, StateSharing

(* A restart leaves no value of the session before it (shell.rs:57-62):    *)
(* what is read was assigned by the cell that declared it.                 *)
THEOREM NothingSurvivesRestart == Spec => []ValuesAreCurrent
<1>1. TypeOK /\ EngineInv /\ [Next]_vars => (TypeOK /\ EngineInv)'
    BY TypeStep, EngineStep
<1>2. EngineInv => ValuesAreCurrent
    BY DEF EngineInv
<1> QED
    BY TypeInit, EngineInit, <1>1, <1>2, PTL DEF Spec

(* A successful cell leaves its variable with a value, and one that fails  *)
(* to parse leaves none (nu/mod.rs:123-157).                               *)
THEOREM StateIsShared == Spec => []StateSharing
<1>1. TypeOK /\ EngineInv /\ [Next]_vars => (TypeOK /\ EngineInv)'
    BY TypeStep, EngineStep
<1>2. EngineInv => StateSharing
    BY DEF EngineInv
<1> QED
    BY TypeInit, EngineInit, <1>1, <1>2, PTL DEF Spec
-----------------------------------------------------------------------------
(* The two statics.  The filter in place has rendered nothing yet, and a   *)
(* cell that is not answered has rendered nothing.                         *)
FilterInv ==
    /\ FilterOnce
    /\ filter # 0 => \A r \in shown : r.by # filter
    /\ phase # "idle" => \A r \in shown : r.by < Current

LEMMA FilterStep == TypeOK /\ FilterInv /\ [Next]_vars => FilterInv'
<1> SUFFICES ASSUME TypeOK, FilterInv, [Next]_vars PROVE FilterInv'
    OBVIOUS
<1> USE DEF historyVars, Current
<1>0. /\ Len(names) \in Nat /\ filter \in Nat
      /\ \A r \in shown : r.by \in Nat /\ r.by <= Len(names)
    BY DEF TypeOK, CellTypeOK, StaticTypeOK
<1>1. ASSUME NEW d \in Names \cup {NoName}, TakeCell(d) PROVE FilterInv'
    <2>1. Len(names') = Len(names) + 1 /\ UNCHANGED <<shown, filter>>
        BY <1>1 DEF TakeCell, TypeOK, CellTypeOK
    <2> QED
        BY <1>0, <2>1 DEF FilterInv, FilterOnce
<1>2. CASE Display
    <2>1. phase = "running" /\ filter' = Len(names) /\ UNCHANGED <<shown, phase, names>>
        BY <1>2 DEF Display
    <2>2. \A r \in shown : r.by # Len(names)
        BY <1>0, <2>1 DEF FilterInv
    <2> QED
        BY <2>1, <2>2 DEF FilterInv, FilterOnce
<1>3. ASSUME NEW isNothing \in BOOLEAN, Succeeds(isNothing) PROVE FilterInv'
    <2>1. CASE isNothing
        BY <1>3, <2>1 DEF Succeeds, Answer, FilterInv, FilterOnce
    <2>2. CASE ~isNothing
        <3> DEFINE new == [cell |-> Len(names), by |-> filter]
        <3>1. shown' = shown \cup {new} /\ filter' = 0 /\ phase' = "idle"
            BY <1>3, <2>2 DEF Succeeds, FilterTaken, Answer
        <3>2. new.by = filter
            OBVIOUS
        <3>3. ASSUME NEW r \in shown', NEW s \in shown', r.by = s.by, r.by # 0 PROVE r = s
            BY <3>1, <3>2, <3>3 DEF FilterInv, FilterOnce
        <3> QED
            BY <3>1, <3>3 DEF FilterInv, FilterOnce
    <2> QED
        BY <2>1, <2>2
<1>4. CASE UNCHANGED <<filter, shown, names>> /\ (phase' = "idle" \/ phase # "idle")
    BY <1>4 DEF FilterInv, FilterOnce
<1>5. CASE UNCHANGED <<filter, shown, names, phase>>
    BY <1>5 DEF FilterInv, FilterOnce
<1> QED
    BY <1>1, <1>2, <1>3, <1>4, <1>5
    DEF Next, Step, Rest, Restart, ParseFails, Merge, Assign, RunExternal,
        EvaluationFails, Answer, vars

(* A filter set by nuju display renders one result at most, however many   *)
(* cells fail or return nothing before there is one (shell.rs:287-297).    *)
THEOREM FilterActsOnce == Spec => []FilterOnce
<1>1. Init => TypeOK /\ FilterInv
    BY TypeInit DEF Init, FilterInv, FilterOnce
<1>2. TypeOK /\ FilterInv /\ [Next]_vars => (TypeOK /\ FilterInv)'
    BY TypeStep, FilterStep
<1>3. FilterInv => FilterOnce
    BY DEF FilterInv
<1> QED
    BY <1>1, <1>2, <1>3, PTL DEF Spec

(* Before any restart the static tells when nuju external ran: never, in   *)
(* the last cell taken, or in one before that, and only then does the      *)
(* engine have the command.  A restart takes the command and not the       *)
(* static, so this does not hold after one.                                *)
ExternalInv ==
    restarts = 0 =>
        /\ runExternal <=> external = "alreadyEnabled"
        /\ \/ enabled = 0 /\ external = "disabled"
           \/ enabled # 0 /\ enabled = Current /\ external = "justEnabled"
           \/ enabled \in 1..(Current - 1) /\ external = "alreadyEnabled"

LEMMA ExternalStep == TypeOK /\ ExternalInv /\ [Next]_vars => ExternalInv'
<1> SUFFICES ASSUME TypeOK, ExternalInv, [Next]_vars, restarts' = 0 PROVE ExternalInv'
    BY DEF ExternalInv
<1> USE DEF historyVars, engineVars, Current
<1>0. Len(names) \in Nat /\ enabled \in Nat /\ restarts \in Nat /\ runExternal \in BOOLEAN
    BY DEF TypeOK, CellTypeOK, StaticTypeOK, FlagTypeOK
<1>1. ASSUME NEW d \in Names \cup {NoName}, TakeCell(d) PROVE ExternalInv'
    <2>1. Len(names') = Len(names) + 1 /\ UNCHANGED <<enabled, restarts>>
        BY <1>1 DEF TakeCell, TypeOK, CellTypeOK
    <2>2. /\ external' = IF external = "justEnabled" THEN "alreadyEnabled" ELSE external
          /\ runExternal' = (runExternal \/ external = "justEnabled")
        BY <1>1, Zenon DEF TakeCell, Raised
    <2>3. CASE external = "justEnabled"
        <3>1. runExternal' = TRUE
            BY <2>2, <2>3, Zenon
        <3>2. enabled' \in 1..(Len(names') - 1) /\ external' = "alreadyEnabled"
            BY <1>0, <2>1, <2>2, <2>3 DEF ExternalInv
        <3> QED
            BY <3>1, <3>2 DEF ExternalInv
    <2>4. CASE external # "justEnabled"
        <3>1. runExternal' = runExternal /\ external' = external
            BY <1>0, <2>2, <2>4, Zenon
        <3> QED
            BY <1>0, <2>1, <2>4, <3>1 DEF ExternalInv
    <2> QED
        BY <2>3, <2>4
<1>2. CASE RunExternal
    <2>1. /\ external' = IF external = "disabled" THEN "justEnabled" ELSE external
          /\ enabled' = IF enabled = 0 THEN Len(names) ELSE enabled
          /\ UNCHANGED <<runExternal, names, restarts>>
        BY <1>2 DEF RunExternal, RaisedByCommand
    <2>2. Len(names) # 0
        BY <1>2 DEF RunExternal, TypeOK, ReplyTypeOK
    <2> QED
        BY <1>0, <2>1, <2>2 DEF ExternalInv
<1>3. CASE Restart
    BY <1>0, <1>3 DEF Restart
<1>4. CASE UNCHANGED <<external, runExternal, enabled, names, restarts>>
    BY <1>4 DEF ExternalInv
<1> QED
    BY <1>1, <1>2, <1>3, <1>4
    DEF Next, Step, Rest, ParseFails, Merge, Assign, Display, EvaluationFails,
        Succeeds, vars

(* Until a restart, run-external is there for exactly the cells after the  *)
(* first that ran nuju external (external.rs:12-90, shell.rs:182).         *)
THEOREM ExternalFollows == Spec => []ExternalSubsequent
<1>1. Init => TypeOK /\ ExternalInv
    BY TypeInit DEF Init, ExternalInv
<1>2. TypeOK /\ ExternalInv /\ [Next]_vars => (TypeOK /\ ExternalInv)'
    BY TypeStep, ExternalStep
<1>3. TypeOK /\ ExternalInv => ExternalSubsequent
    <2> SUFFICES ASSUME TypeOK, ExternalInv PROVE ExternalSubsequent
        OBVIOUS
    <2>1. Len(names) \in Nat
        BY DEF TypeOK, CellTypeOK
    <2> QED
        BY <2>1 DEF ExternalInv, ExternalSubsequent, Current
<1> QED
    BY <1>1, <1>2, <1>3, PTL DEF Spec
=============================================================================
