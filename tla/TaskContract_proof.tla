------------------------- MODULE TaskContract_proof -------------------------
(***************************************************************************)
(* The contract of the task service keeps its promises, for every set of     *)
(* calls, provided that no answer but "nil" is free of a claim.              *)
(***************************************************************************)
EXTENDS TaskContract, TLAPS

\* The shape of the state is kept.
THEOREM ContractTypeCorrect ==
    ASSUME Void \subseteq {"nil"} PROVE CSpec => []CTypeOK
<1>1. CInit => CTypeOK
  BY DEF CInit, CTypeOK, Commands, NoCommand
<1>2. CTypeOK /\ [CNext]_cvars => CTypeOK'
  <2> SUFFICES ASSUME CTypeOK, [CNext]_cvars PROVE CTypeOK'
    OBVIOUS
  <2> USE DEF CTypeOK
  <2>1. CASE CommandsMove /\ UNCHANGED <<called, late, answer>>
    BY <2>1 DEF CommandsMove
  <2>2. ASSUME NEW t \in Task, MakeCall(t) \/ GiveUp(t) PROVE CTypeOK'
    BY <2>2 DEF MakeCall, GiveUp
  <2>3. ASSUME NEW t \in Task, NEW a \in Answers, Reply(t, a) PROVE CTypeOK'
    BY <2>3 DEF Reply, CommandsMove
  <2>4. CASE UNCHANGED cvars
    BY <2>4 DEF cvars
  <2> QED BY <2>1, <2>2, <2>3, <2>4 DEF CNext
<1> QED BY <1>1, <1>2, PTL DEF CSpec

\* What may happen to a command leaves the claim of a given answer true.
LEMMA ClaimStable ==
    ASSUME Void \subseteq {"nil"}, CTypeOK, CommandsMove, NEW t \in Task, Claim(answer[t], cmd[t])
    PROVE  Claim(answer[t], cmd'[t])
<1> USE DEF CTypeOK, Commands, Claim, Answers, Statuses
<1>1. CASE cmd'[t] = cmd[t]
  BY <1>1
<1>2. CASE Starts(t)
  BY <1>2 DEF Starts, Startable
<1>3. CASE Ends(t)
  BY <1>3 DEF Ends
<1>4. CASE Closes(t)
  BY <1>4 DEF Closes
<1> QED BY <1>1, <1>2, <1>3, <1>4 DEF CommandsMove

\* What a caller was told of its command stays true.
THEOREM ContractTruthful ==
    ASSUME Void \subseteq {"nil"} PROVE CSpec => []AnswersStayTrue
<1>1. CInit => AnswersStayTrue
  BY DEF CInit, AnswersStayTrue, Claim, Statuses
<1>2. CTypeOK /\ AnswersStayTrue /\ [CNext]_cvars => AnswersStayTrue'
  <2> SUFFICES ASSUME CTypeOK, AnswersStayTrue, [CNext]_cvars, NEW t \in Task
               PROVE  Claim(answer'[t], cmd'[t])
    BY DEF AnswersStayTrue
  <2>1. Claim(answer[t], cmd[t])
    BY DEF AnswersStayTrue
  <2>2. CASE CommandsMove /\ UNCHANGED <<called, late, answer>>
    BY <2>1, <2>2, ClaimStable
  <2>3. ASSUME NEW u \in Task, MakeCall(u) \/ GiveUp(u) PROVE Claim(answer'[t], cmd'[t])
    BY <2>1, <2>3 DEF MakeCall, GiveUp
  <2>4. ASSUME NEW u \in Task, NEW a \in Answers, Reply(u, a) PROVE Claim(answer'[t], cmd'[t])
    <3>1. CASE t = u
      BY <2>4, <3>1 DEF Reply, CTypeOK
    <3>2. CASE t # u
      BY <2>1, <2>4, <3>2, ClaimStable DEF Reply, CTypeOK
    <3> QED BY <3>1, <3>2
  <2>5. CASE UNCHANGED cvars
    BY <2>1, <2>5 DEF cvars
  <2> QED BY <2>2, <2>3, <2>4, <2>5 DEF CNext
<1> QED BY <1>1, <1>2, ContractTypeCorrect, PTL DEF CSpec
=============================================================================
