-------------------------- MODULE LibraryLinkProofs --------------------------
(***************************************************************************)
(* Proofs about LibraryLink, for every number of handles, every set of     *)
(* inputs and whatever the solvers end with.                               *)
(***************************************************************************)
EXTENDS LibraryLink, FiniteSetTheorems, WellFoundedInduction, TLAPS

\* Every Model_data has a spectrum of its inputs, or none.
OwnSpectrum ==
  \A h \in DOMAIN given :
    LET spectrum == handles[h].spectrum
    IN spectrum # None =>
         spectrum.inputs = given[h] /\ spectrum.observables \in {None, Zeros, given[h]}

OwnReply ==
  reply.call \in {"CalculateSpectrum", "ToSLHA"} /\ reply.value \notin {None, Failed} =>
    reply.value.inputs = given[reply.handle]

IsSpectrum(s) ==
  DOMAIN s = {"inputs", "solver", "problems", "flags", "observables"}

\* What the assignments to parts of Model_data rest on.
Shapes ==
  \A h \in DOMAIN handles :
    /\ DOMAIN handles[h] = {"inputs", "spectrum"} /\ handles[h].inputs \in Inputs
    /\ handles[h].spectrum # None => IsSpectrum(handles[h].spectrum)

Inv == HandleNamesPoint /\ OwnSpectrum /\ OwnReply /\ Shapes

\* A set of numbers that is not empty has a smallest one.
LEMMA Smallest ==
  ASSUME NEW S, S \subseteq Nat, S # {}
  PROVE  \E n \in S : \A m \in S : n <= m
  <1>1. PICK n \in S : \A m \in S : ~ (<<m, n>> \in OpToRel(<, Nat))
    BY NatLessThanWellFounded, WFMin
  <1>2. \A m \in S : m < n => <<m, n>> \in OpToRel(<, Nat)
    BY Zenon DEF OpToRel
  <1>3. \A m \in S : ~(m < n)
    BY <1>1, <1>2, Zenon
  <1>. QED
    BY <1>3, SMT

\* Of the numbers from 0 to the number of open handles, one is free.
LEMMA OneIsFree ==
  ASSUME NEW D, D \subseteq Nat, IsFiniteSet(D)
  PROVE  \E n \in 0..Cardinality(D) : n \notin D
  <1>1. Cardinality(D) \in Nat
    BY FS_CardinalityType
  <1>2. Cardinality(0..Cardinality(D)) = Cardinality(D) + 1
    BY <1>1, FS_Interval, SMT
  <1>3. 0..Cardinality(D) \in SUBSET D => Cardinality(0..Cardinality(D)) <= Cardinality(D)
    BY FS_Subset
  <1>. QED
    BY <1>1, <1>2, <1>3, SMT

\* get_new_handle() finds a handle that is not open, and that the type of a
\* handle can hold when not all are open.
LEMMA NewHandleIsFree ==
  ASSUME DOMAIN handles \subseteq Handles,
         Cardinality(DOMAIN handles) < MaxHandles
  PROVE  get_new_handle \in Handles /\ get_new_handle \notin DOMAIN handles
  <1>. DEFINE D == DOMAIN handles
              free == {n \in 0..NumberOfHandles : n \notin D}
  <1>0. D \subseteq Nat /\ MaxHandles \in Nat
    BY LibraryLinkAssumption, SMT DEF Handles
  <1>1. IsFiniteSet(D) /\ Cardinality(D) \in Nat
    <2>1. IsFiniteSet(Handles)
      BY LibraryLinkAssumption, FS_Interval, SMT DEF Handles
    <2>. QED
      BY <2>1, FS_Subset, FS_CardinalityType
  <1>2. free # {} /\ free \subseteq Nat
    BY <1>0, <1>1, OneIsFree, SMT DEF NumberOfHandles
  <1>3. PICK n \in free : \A m \in free : n <= m
    BY <1>2, Smallest
  <1>4. 0..(n - 1) \subseteq D
    BY <1>1, <1>2, <1>3, SMT DEF NumberOfHandles
  <1>5. get_new_handle \in 0..NumberOfHandles /\ get_new_handle \notin D
    BY <1>3, <1>4 DEF get_new_handle
  <1>. QED
    BY <1>0, <1>1, <1>5, SMT DEF NumberOfHandles, Handles

LEMMA InitInv == Init => Inv
  <1>. SUFFICES ASSUME Init PROVE Inv
    OBVIOUS
  <1>1. DOMAIN handles = {} /\ DOMAIN given = {}
    BY DEF Init
  <1>2. reply.call = "none"
    BY DEF Init
  <1>. QED
    BY <1>1, <1>2 DEF Inv, HandleNamesPoint, OwnSpectrum, OwnReply, Shapes

\* A call that changes no Model_data and hands out no spectrum.
LEMMA OnlyReplies ==
  ASSUME Inv, UNCHANGED <<handles, given>>,
         reply'.call \notin {"CalculateSpectrum", "ToSLHA"} \/ reply'.value \in {None, Failed}
  PROVE  Inv'
  BY DEF Inv, HandleNamesPoint, OwnSpectrum, OwnReply, Shapes

LEMMA OpenKeepsInv ==
  ASSUME Inv, NEW i \in Inputs \cup {WrongNumber}, OpenHandle(i)
  PROVE  Inv'
  <1>1. CASE i = WrongNumber \/ Cardinality(DOMAIN handles) >= MaxHandles
    BY <1>1, OnlyReplies DEF OpenHandle, Reply, Answer
  <1>2. CASE ~(i = WrongNumber \/ Cardinality(DOMAIN handles) >= MaxHandles)
    <2>1. Cardinality(DOMAIN handles) < MaxHandles
      <3>1. IsFiniteSet(DOMAIN handles)
        <4>1. IsFiniteSet(Handles)
          BY LibraryLinkAssumption, FS_Interval, SMT DEF Handles
        <4>. QED
          BY <4>1, FS_Subset DEF Inv, HandleNamesPoint
      <3>2. Cardinality(DOMAIN handles) \in Nat
        BY <3>1, FS_CardinalityType
      <3>. QED
        BY <1>2, <3>2, LibraryLinkAssumption, SMT
    <2>. DEFINE hid == get_new_handle
    <2>2. hid \in Handles /\ hid \notin DOMAIN handles
      BY <2>1, NewHandleIsFree DEF Inv, HandleNamesPoint
    <2>3. /\ handles' = With(handles, hid, make_data(i)) /\ given' = With(given, hid, i)
          /\ reply'.call = "OpenHandle"
      BY <1>2, <2>2 DEF OpenHandle, Insert, Reply, Answer
    <2>4. HandleNamesPoint'
      BY <2>2, <2>3 DEF Inv, HandleNamesPoint, With, make_data
    <2>5. OwnSpectrum'
      BY <2>2, <2>3 DEF Inv, HandleNamesPoint, OwnSpectrum, With, make_data
    <2>6. Shapes'
      <3>1. i \in Inputs
        BY <1>2
      <3>2. DOMAIN handles' = DOMAIN handles \cup {hid} /\ handles'[hid] = make_data(i)
        BY <2>3 DEF With
      <3>3. \A k \in DOMAIN handles : handles'[k] = handles[k]
        BY <2>2, <2>3 DEF With
      <3>. QED
        BY <3>1, <3>2, <3>3 DEF Inv, Shapes, make_data
    <2>7. OwnReply'
      BY <2>3 DEF OwnReply
    <2>. QED
      BY <2>4, <2>5, <2>6, <2>7 DEF Inv
  <1>. QED
    BY <1>1, <1>2

LEMMA CloseKeepsInv ==
  ASSUME Inv, NEW h \in Handles, CloseHandle(h)
  PROVE  Inv'
  BY DEF Inv, HandleNamesPoint, OwnSpectrum, OwnReply, Shapes, CloseHandle, Without, Reply, Answer

LEMMA SetKeepsInv ==
  ASSUME Inv, NEW h \in Handles, NEW i \in Inputs \cup {WrongNumber}, Set(h, i)
  PROVE  Inv'
  <1>1. CASE h \notin DOMAIN handles \/ i = WrongNumber
    BY <1>1, OnlyReplies DEF Set, Reply, Answer
  <1>2. CASE h \in DOMAIN handles /\ i # WrongNumber
    <2>1. /\ handles' = [handles EXCEPT ![h] = make_data(i)]
          /\ given' = [given EXCEPT ![h] = i]
          /\ reply'.call = "Set"
      BY <1>2 DEF Set, Assigned, Reply, Answer
    <2>. QED
      BY <1>2, <2>1 DEF Inv, HandleNamesPoint, OwnSpectrum, OwnReply, Shapes, make_data
  <1>. QED
    BY <1>1, <1>2

\* A new spectrum of the inputs of a handle.
LEMMA SpectrumKeepsInv ==
  ASSUME Inv, NEW h \in DOMAIN handles, NEW s, IsSpectrum(s),
         s.inputs = given[h], s.observables \in {None, Zeros, given[h]},
         handles' = [handles EXCEPT ![h].spectrum = s], UNCHANGED given
  PROVE  HandleNamesPoint' /\ OwnSpectrum' /\ Shapes'
  <1>1. /\ DOMAIN handles' = DOMAIN handles
        /\ \A k \in DOMAIN handles : k # h => handles'[k] = handles[k]
        /\ handles'[h] = [handles[h] EXCEPT !.spectrum = s]
    OBVIOUS
  <1>2. /\ handles'[h].inputs = handles[h].inputs /\ handles'[h].spectrum = s
        /\ DOMAIN handles'[h] = {"inputs", "spectrum"}
    BY <1>1 DEF Inv, Shapes
  <1>3. HandleNamesPoint'
    BY <1>1, <1>2 DEF Inv, HandleNamesPoint
  <1>4. OwnSpectrum'
    BY <1>1, <1>2 DEF Inv, HandleNamesPoint, OwnSpectrum
  <1>5. Shapes'
    BY <1>1, <1>2 DEF Inv, Shapes
  <1>. QED
    BY <1>3, <1>4, <1>5

LEMMA CalculateSpectrumKeepsInv ==
  ASSUME Inv, NEW h \in Handles, CalculateSpectrum(h)
  PROVE  Inv'
  <1>1. CASE \/ h \notin DOMAIN handles
             \/ handles[h].inputs.solver \notin {0} \cup {Solvers[n] : n \in 1..Len(Solvers)}
    BY <1>1, OnlyReplies DEF CalculateSpectrum, Reply, Answer
  <1>2. CASE ~ \/ h \notin DOMAIN handles
               \/ handles[h].inputs.solver \notin {0} \cup {Solvers[n] : n \in 1..Len(Solvers)}
    <2>. DEFINE inputs == handles[h].inputs
    <2>1. PICK n, problems :
            /\ handles' = [handles EXCEPT ![h].spectrum = Spectrum(inputs, n, problems)]
            /\ reply'.value \in {Spectrum(inputs, n, problems), Failed}
            /\ reply'.handle = h /\ UNCHANGED given
      BY <1>2 DEF CalculateSpectrum, Answer
    <2>. DEFINE s == Spectrum(inputs, n, problems)
    <2>2. IsSpectrum(s) /\ s.inputs = given[h] /\ s.observables = None
      BY <1>2 DEF Spectrum, IsSpectrum, Inv, HandleNamesPoint
    <2>3. HandleNamesPoint' /\ OwnSpectrum' /\ Shapes'
      BY <1>2, <2>1, <2>2, SpectrumKeepsInv
    <2>4. OwnReply'
      BY <2>1, <2>2 DEF OwnReply
    <2>. QED
      BY <2>3, <2>4 DEF Inv
  <1>. QED
    BY <1>1, <1>2

LEMMA CalculateObservablesKeepsInv ==
  ASSUME Inv, NEW h \in Handles, CalculateObservables(h)
  PROVE  Inv'
  <1>1. CASE ~HasSpectrum(h)
    BY <1>1, OnlyReplies DEF CalculateObservables, Reply, Answer
  <1>2. CASE HasSpectrum(h)
    <2>1. PICK ok \in BOOLEAN, result \in {handles[h].inputs, Zeros} :
            /\ handles' = [handles EXCEPT
                 ![h].spectrum = WithObservables(handles[h].spectrum, ok, result)]
            /\ reply'.call = "CalculateObservables" /\ UNCHANGED given
      BY <1>2 DEF CalculateObservables, Reply, Answer
    <2>. DEFINE old == handles[h].spectrum
                s == WithObservables(old, ok, result)
    <2>2. IsSpectrum(old) /\ old.inputs = given[h] /\ handles[h].inputs = given[h]
      BY <1>2 DEF HasSpectrum, Inv, HandleNamesPoint, OwnSpectrum, Shapes
    <2>3. IsSpectrum(s) /\ s.inputs = given[h] /\ s.observables = result
      BY <2>2 DEF WithObservables, IsSpectrum
    <2>4. HandleNamesPoint' /\ OwnSpectrum' /\ Shapes'
      BY <1>2, <2>1, <2>2, <2>3, SpectrumKeepsInv DEF HasSpectrum
    <2>5. OwnReply'
      BY <2>1 DEF OwnReply
    <2>. QED
      BY <2>4, <2>5 DEF Inv
  <1>. QED
    BY <1>1, <1>2

LEMMA ToSLHAKeepsInv ==
  ASSUME Inv, NEW h \in Handles, ToSLHA(h)
  PROVE  Inv'
  <1>1. UNCHANGED <<handles, given>> /\ reply'.handle = h
    BY DEF ToSLHA, Reply, Answer
  <1>2. \/ reply'.value \in {None, Failed}
        \/ HasSpectrum(h) /\ reply'.value = handles[h].spectrum
    BY DEF ToSLHA, Reply, Answer
  <1>3. HasSpectrum(h) => handles[h].spectrum.inputs = given[h]
    BY DEF HasSpectrum, Inv, HandleNamesPoint, OwnSpectrum
  <1>. QED
    BY <1>1, <1>2, <1>3 DEF Inv, HandleNamesPoint, OwnSpectrum, OwnReply, Shapes

LEMMA NextKeepsInv == Inv /\ [Next]_vars => Inv'
  <1>. SUFFICES ASSUME Inv, [Next]_vars PROVE Inv'
    OBVIOUS
  <1>1. ASSUME NEW i \in Inputs \cup {WrongNumber}, OpenHandle(i) PROVE Inv'
    BY <1>1, OpenKeepsInv
  <1>2. ASSUME NEW h \in Handles, CloseHandle(h) PROVE Inv'
    BY <1>2, CloseKeepsInv
  <1>3. ASSUME NEW h \in Handles, NEW i \in Inputs \cup {WrongNumber}, Set(h, i) PROVE Inv'
    BY <1>3, SetKeepsInv
  <1>4. ASSUME NEW h \in Handles, CalculateSpectrum(h) PROVE Inv'
    BY <1>4, CalculateSpectrumKeepsInv
  <1>5. ASSUME NEW h \in Handles, CalculateObservables(h) PROVE Inv'
    BY <1>5, CalculateObservablesKeepsInv
  <1>6. ASSUME NEW h \in Handles, GetProblems(h) PROVE Inv'
    BY <1>6, OnlyReplies DEF GetProblems, Reply, Answer
  <1>7. ASSUME NEW h \in Handles, ToSLHA(h) PROVE Inv'
    BY <1>7, ToSLHAKeepsInv
  <1>8. CASE UNCHANGED vars
    BY <1>8 DEF vars, Inv, HandleNamesPoint, OwnSpectrum, OwnReply, Shapes
  <1>. QED
    BY <1>1, <1>2, <1>3, <1>4, <1>5, <1>6, <1>7, <1>8 DEF Next

\* The library link, however often its handles are used again: an open handle
\* names the inputs its owner gave last.
THEOREM HandlesNamePoints == Spec => []HandleNamesPoint
  <1>1. Inv => HandleNamesPoint
    BY DEF Inv
  <1>. QED
    BY <1>1, InitInv, NextKeepsInv, PTL DEF Spec

\* The library link hands out and keeps spectra and observables of the present
\* inputs of their handle only.
THEOREM SpectraAreOfInputs == Spec => []SpectrumOfInputs
  <1>1. Inv => SpectrumOfInputs
    BY DEF Inv, OwnSpectrum, OwnReply, SpectrumOfInputs
  <1>. QED
    BY <1>1, InitInv, NextKeepsInv, PTL DEF Spec
-----------------------------------------------------------------------------
(* The solvers tried.                                                      *)

\* With solver type 0 the cases fall through to the first without a problem,
\* or to the last.
LEMMA FallThrough ==
  ASSUME NEW outcome \in [1..Len(Solvers) -> Outcomes]
  PROVE  /\ LastCase(0, outcome) \in 1..Len(Solvers)
         /\ \A k \in 1..(LastCase(0, outcome) - 1) : outcome[k] # {}
         /\ outcome[LastCase(0, outcome)] = {} \/ LastCase(0, outcome) = Len(Solvers)
  <1>. DEFINE breaks == {n \in 1..Len(Solvers) : Break(0, outcome, n)}
  <1>1. Len(Solvers) \in Nat \ {0}
    BY LibraryLinkAssumption, SMT
  <1>2. breaks \subseteq Nat /\ breaks # {}
    BY <1>1, SMT DEF Break
  <1>3. PICK n \in breaks : \A m \in breaks : n <= m
    BY <1>2, Smallest
  <1>4. \A k \in 1..(n - 1) : ~Break(0, outcome, k)
    BY <1>1, <1>2, <1>3, SMT
  <1>5. /\ LastCase(0, outcome) \in 1..Len(Solvers)
        /\ Break(0, outcome, LastCase(0, outcome))
        /\ \A k \in 1..(LastCase(0, outcome) - 1) : ~Break(0, outcome, k)
    BY <1>3, <1>4 DEF LastCase, FirstCase
  <1>. QED
    BY <1>5 DEF Break

LEMMA CalculateSpectrumTriesAll ==
  ASSUME Inv, NEW h \in Handles, CalculateSpectrum(h)
  PROVE  FailedMeansAllFailed'
  <1>. SUFFICES ASSUME h \in DOMAIN given, given[h].solver = 0
                PROVE  FailedMeansAllFailed'
    <2>1. reply'.handle = h /\ given' = given
      BY DEF CalculateSpectrum, Reply, Answer
    <2>. QED
      BY <2>1 DEF FailedMeansAllFailed
  <1>0. h \in DOMAIN handles /\ handles[h].inputs.solver = 0
    BY DEF Inv, HandleNamesPoint
  <1>1. PICK outcome \in [1..Len(Solvers) -> Outcomes] :
          LET last == LastCase(0, outcome)
              s == Spectrum(handles[h].inputs, last, outcome[last])
          IN /\ reply'.tried = SubSeq(outcome, 1, last)
             /\ outcome[last] = {} => reply'.value = s
    BY <1>0 DEF CalculateSpectrum, Answer, FirstCase
  <1>. DEFINE last == LastCase(0, outcome)
              s == Spectrum(handles[h].inputs, last, outcome[last])
  <1>2. /\ last \in 1..Len(Solvers) /\ \A k \in 1..(last - 1) : outcome[k] # {}
        /\ outcome[last] = {} \/ last = Len(Solvers)
    BY FallThrough
  <1>3. CASE outcome[last] = {}
    <2>1. reply'.value = s /\ s.problems = {}
      BY <1>1, <1>3 DEF Spectrum
    <2>2. reply'.value # Failed
      BY <1>0, <1>2, <2>1, FailedAssumption DEF Inv, Shapes
    <2>. QED
      BY <2>1, <2>2 DEF FailedMeansAllFailed
  <1>4. CASE outcome[last] # {}
    <2>1. last = Len(Solvers) /\ Len(Solvers) \in Nat
      BY <1>2, <1>4, LibraryLinkAssumption, SMT
    <2>2. outcome \in Seq(Outcomes) /\ Len(outcome) = last
      BY <2>1, SMT
    <2>3. /\ Len(SubSeq(outcome, 1, last)) = last
          /\ \A k \in 1..last : SubSeq(outcome, 1, last)[k] = outcome[k]
      BY <2>1, <2>2, SMT
    <2>4. \A k \in 1..last : outcome[k] # {}
      BY <1>2, <1>4, <2>1, SMT
    <2>. QED
      BY <1>1, <2>1, <2>3, <2>4 DEF FailedMeansAllFailed
  <1>. QED
    BY <1>3, <1>4

\* CalculateSpectrum with solver type 0 fails only after every enabled solver
\* was tried and had problems, for every list of solvers.
THEOREM FailureIsOfAllSolvers == Spec => []FailedMeansAllFailed
  <1>1. Init => FailedMeansAllFailed
    BY DEF Init, FailedMeansAllFailed
  <1>2. Inv /\ [Next]_vars /\ FailedMeansAllFailed => FailedMeansAllFailed'
    <2>. SUFFICES ASSUME Inv, [Next]_vars, FailedMeansAllFailed PROVE FailedMeansAllFailed'
      OBVIOUS
    <2>1. ASSUME NEW h \in Handles, CalculateSpectrum(h) PROVE FailedMeansAllFailed'
      BY <2>1, CalculateSpectrumTriesAll
    <2>2. CASE UNCHANGED vars
      BY <2>2 DEF vars, FailedMeansAllFailed
    <2>3. CASE reply'.call # "CalculateSpectrum"
      BY <2>3 DEF FailedMeansAllFailed
    <2>. QED
      BY <2>1, <2>2, <2>3 DEF Next, OpenHandle, CloseHandle, Set, CalculateObservables,
                              GetProblems, ToSLHA, Reply, Answer
  <1>. QED
    BY <1>1, <1>2, InitInv, NextKeepsInv, PTL DEF Spec
=============================================================================
