---------------------------- MODULE LibraryLink ----------------------------
(***************************************************************************)
(* The library that Mathematica loads, templates/librarylink.cpp.in.  A    *)
(* parameter point is opened and is then named by an integer handle; the   *)
(* spectrum and the observables are calculated and asked for by handle.    *)
(* Handles are given out again after they were closed.  Mathematica makes  *)
(* one call at a time, so that each extern "C" function is one action.     *)
(*                                                                         *)
(* The spectrum generator is represented by the problems it may end with   *)
(* (SpectrumGenerator has its inside).                                     *)
(***************************************************************************)
EXTENDS Integers, Sequences, FiniteSets

CONSTANTS
  MaxHandles,   \* the number of values of a handle
  Inputs,       \* what make_data() is given: [point, solver, force]
  WrongNumber,  \* ... a list of another length
  Solvers,      \* keys of the enabled solvers, in the order they are tried
  Outcomes,     \* sets of problems a generator may end with
  None, Failed, Zeros  \* no value, $Failed, observables that are all 0

ASSUME LibraryLinkAssumption ==
  /\ MaxHandles \in Nat \ {0}
  /\ WrongNumber \notin Inputs
  /\ Solvers \in Seq(Nat \ {0}) /\ Solvers # <<>>
  /\ \A i \in Inputs : i.solver \in Nat /\ i.force \in BOOLEAN

VARIABLES
  handles,  \* open handle |-> Model_data: the inputs and the spectrum
  reply,    \* the last call, its handle, what it handed out, and the
            \* outcomes of the solvers it tried
  given     \* ghost: open handle |-> the inputs its owner gave last

vars == <<handles, reply, given>>

Handles == 0..(MaxHandles - 1)

Init ==
  /\ handles = << >> /\ given = << >>
  /\ reply = [call |-> "none", handle |-> None, value |-> None, tried |-> << >>]

Answer(call, h, value, tried) ==
  reply' = [call |-> call, handle |-> h, value |-> value, tried |-> tried]

Reply(call, h, value) == Answer(call, h, value, << >>)

Without(f, h) == [k \in DOMAIN f \ {h} |-> f[k]]
With(f, h, v) == [k \in DOMAIN f \cup {h} |-> IF k = h THEN v ELSE f[k]]

\* std::map::insert() keeps what is there.
Insert(f, h, v) == IF h \in DOMAIN f THEN f ELSE With(f, h, v)

\* A bug: counts the handles instead of looking for one that is free.
NumberOfHandles == Cardinality(DOMAIN handles)

get_new_handle ==
  CHOOSE h \in 0..NumberOfHandles :
    h \notin DOMAIN handles /\ 0..(h - 1) \subseteq DOMAIN handles

make_data(inputs) == [inputs |-> inputs, spectrum |-> None]

OpenHandle(inputs) ==
  IF inputs = WrongNumber \/ Cardinality(DOMAIN handles) >= MaxHandles
  THEN Reply("OpenHandle", None, Failed) /\ UNCHANGED <<handles, given>>
  ELSE LET hid == get_new_handle
       IN /\ handles' = Insert(handles, hid, make_data(inputs))
          /\ given' = With(given, hid, inputs)
          /\ Reply("OpenHandle", hid, None)

CloseHandle(h) ==
  /\ handles' = Without(handles, h)
  /\ given' = Without(given, h)
  /\ Reply("CloseHandle", h, None)

\* A bug: only the inputs are replaced.
SetInputs(h, inputs) == [handles[h] EXCEPT !.inputs = inputs]

\* The assignment of a new Model_data drops the spectrum.
Assigned(h, inputs) == make_data(inputs)

Set(h, inputs) ==
  IF h \notin DOMAIN handles \/ inputs = WrongNumber
  THEN Reply("Set", h, Failed) /\ UNCHANGED <<handles, given>>
  ELSE /\ handles' = [handles EXCEPT ![h] = Assigned(h, inputs)]
       /\ given' = [given EXCEPT ![h] = inputs]
       /\ Reply("Set", h, None)

HasSpectrum(h) == h \in DOMAIN handles /\ handles[h].spectrum # None
-----------------------------------------------------------------------------
(* CalculateSpectrum.                                                      *)

\* A bug: the switch is left after the first solver.
OnlyFirst(setting, outcome, n) == TRUE

\* if (!have_problem() || solver_type != 0) break;
Break(setting, outcome, n) ==
  setting # 0 \/ outcome[n] = {} \/ n = Len(Solvers)

\* The case of the switch that is entered.
FirstCase(setting) ==
  IF setting = 0 THEN 1 ELSE CHOOSE n \in 1..Len(Solvers) : Solvers[n] = setting

\* A case without a break falls through to the next.
LastCase(setting, outcome) ==
  CHOOSE n \in FirstCase(setting)..Len(Solvers) :
    /\ Break(setting, outcome, n)
    /\ \A k \in FirstCase(setting)..(n - 1) : ~Break(setting, outcome, k)

\* impl::calculate_spectrum(): "flags" are those of the model, which the
\* observables may add to; "problems" is the generator's report.
Spectrum(inputs, n, problems) ==
  [inputs |-> inputs, solver |-> Solvers[n], problems |-> problems,
   flags |-> problems \ {"noConvergence"}, observables |-> None]

\* $Failed and no value are no spectrum.
ASSUME FailedAssumption ==
  \A i \in Inputs, n \in 1..Len(Solvers), problems \in Outcomes :
    Spectrum(i, n, problems) \notin {None, Failed}

CalculateSpectrum(h) ==
  IF \/ h \notin DOMAIN handles
     \/ handles[h].inputs.solver \notin {0} \cup {Solvers[n] : n \in 1..Len(Solvers)}
  THEN /\ Reply("CalculateSpectrum", h, Failed)
       /\ UNCHANGED <<handles, given>>
  ELSE \E outcome \in [1..Len(Solvers) -> Outcomes] :
         LET inputs == handles[h].inputs
             last == LastCase(inputs.solver, outcome)
             spectrum == Spectrum(inputs, last, outcome[last])
         IN /\ handles' = [handles EXCEPT ![h].spectrum = spectrum]
            /\ Answer("CalculateSpectrum", h,
                      IF outcome[last] = {} \/ inputs.force THEN spectrum ELSE Failed,
                      SubSeq(outcome, FirstCase(inputs.solver), last))
            /\ UNCHANGED given
-----------------------------------------------------------------------------
(* The other functions of a handle.                                        *)

WithObservables(spectrum, ok, result) ==
  [spectrum EXCEPT !.observables = result,
                   !.flags = @ \cup IF ok THEN {} ELSE {"exception"}]

\* The running to the scale of the pole masses may throw: then the model of
\* the spectrum is flagged.  What the calculation throws is flagged on a copy.
CalculateObservables(h) ==
  IF ~HasSpectrum(h)
  THEN Reply("CalculateObservables", h, Failed) /\ UNCHANGED <<handles, given>>
  ELSE \E ok \in BOOLEAN :
         LET result == IF ok THEN handles[h].inputs ELSE Zeros
             spectrum == WithObservables(handles[h].spectrum, ok, result)
         IN /\ handles' = [handles EXCEPT ![h].spectrum = spectrum]
            /\ Reply("CalculateObservables", h, result)
            /\ UNCHANGED given

\* put_problems(): model problems and solver problems, each by its own name.
Listed(problems) == problems \ {"noEwsbTreeLevel"}

GetProblems(h) ==
  /\ Reply("GetProblems", h,
           IF HasSpectrum(h) THEN Listed(handles[h].spectrum.problems) ELSE Failed)
  /\ UNCHANGED <<handles, given>>

\* fill_slha_io() asks the model alone.
ToSLHA(h) ==
  /\ Reply("ToSLHA", h,
           IF ~HasSpectrum(h) THEN Failed
           ELSE IF handles[h].spectrum.flags = {} \/ handles[h].inputs.force
                THEN handles[h].spectrum ELSE None)
  /\ UNCHANGED <<handles, given>>

Next ==
  \/ \E i \in Inputs \cup {WrongNumber} : OpenHandle(i)
  \/ \E h \in Handles :
       \/ CloseHandle(h)
       \/ \E i \in Inputs \cup {WrongNumber} : Set(h, i)
       \/ CalculateSpectrum(h) \/ CalculateObservables(h)
       \/ GetProblems(h) \/ ToSLHA(h)

Spec == Init /\ [][Next]_vars
-----------------------------------------------------------------------------
(* Properties.                                                             *)

\* A handle that was given out and not closed since is open, is a handle, and
\* names the inputs its owner gave last, though handles are used again: no
\* open, close or set of another handle changes them.
HandleNamesPoint ==
  /\ DOMAIN handles = DOMAIN given /\ DOMAIN given \subseteq Handles
  /\ \A h \in DOMAIN given : handles[h].inputs = given[h]

\* The spectrum and the observables of a handle are of its present inputs, and
\* so is every spectrum handed out, also in an SLHA file.
SpectrumOfInputs ==
  /\ \A h \in DOMAIN given :
       LET spectrum == handles[h].spectrum
       IN spectrum # None =>
            /\ spectrum.inputs = given[h]
            /\ spectrum.observables \in {None, Zeros, given[h]}
  /\ reply.call \in {"CalculateSpectrum", "ToSLHA"} /\ reply.value \notin {None, Failed} =>
       reply.value.inputs = given[reply.handle]

\* With solver type 0, CalculateSpectrum fails only when every enabled solver
\* was tried and had problems, and a spectrum handed out with problems (forced
\* output) is of the last one.
FailedMeansAllFailed ==
  (/\ reply.call = "CalculateSpectrum" /\ reply.handle \in DOMAIN given
   /\ given[reply.handle].solver = 0)
  =>
      \/ /\ Len(reply.tried) = Len(Solvers)
         /\ \A n \in 1..Len(reply.tried) : reply.tried[n] # {}
      \/ reply.value # Failed /\ reply.value.problems = {}

\* "Returns a list of problems that occurred when calculating the spectrum":
\* the list is not empty when a problem occurred.
ProblemsListed ==
  reply.call = "GetProblems" /\ HasSpectrum(reply.handle) =>
    (reply.value = {}) = (handles[reply.handle].spectrum.problems = {})
=============================================================================
