-------------------------------- MODULE Render --------------------------------
(***************************************************************************)
(* renderObject: a template is rendered, and the text it yields is rendered   *)
(* again as a template, until a pass changes nothing.  Values that users put  *)
(* into apps end up in the text and may refer to fields of the data, whose    *)
(* values may refer to further ones.                                        *)
(*                                                                         *)
(* A text is a sequence of tokens: a piece without actions, a reference to a  *)
(* field, or an action that cannot be rendered.  Template texts in which one  *)
(* value completes the action another begins are left out.                    *)
(***************************************************************************)
EXTENDS Naturals, FiniteSets, SequencesExt

CONSTANTS
  Fields,    \* fields of the data whose values are given by users
  Literals,  \* pieces of text without actions
  Bad,       \* an action that does not parse or cannot be evaluated
  Contents,  \* the values a field may have
  Templates, \* what the first rendering, of the named template, may yield if it succeeds
  MaxLength  \* bound on the length of a text

Tokens == Fields \cup Literals \cup {Bad}
IsText(t) == t \in Seq(Tokens)

ASSUME TokensAssumption ==
  Fields \cap Literals = {} /\ Bad \notin Fields \cup Literals /\ IsFiniteSet(Fields)
ASSUME TextsAssumption == \A t \in Contents \cup Templates : IsText(t)
ASSUME LengthAssumption == MaxLength \in Nat /\ \A t \in Templates : Len(t) <= MaxLength

VARIABLES
  value,    \* field -> its value, in the variable "vars" of the code
  pc,       \* "start", "loop" or how it returned: "done", "failed" in a pass, or
            \* "rejected" by the named template
  first,    \* what the named template yielded
  previous  \* the text rendered last

vars == <<value, pc, first, previous>>

-----------------------------------------------------------------------------
(* ReRender *)

Renderable(text) == Bad \notin ToSet(text)

\* A mutant of ValueOf: the value goes into the text as one piece.
ValueInOnePiece(token) == IF token \in Fields THEN <<value[token]>> ELSE <<token>>

ValueOf(token) == IF token \in Fields THEN value[token] ELSE <<token>>

\* A mutant of Expand: a pass replaces the first reference only.
ExpandFirst(text) ==
  FlattenSeq([n \in DOMAIN text |->
    IF \E m \in 1..(n - 1) : text[m] \in Fields THEN <<text[n]>> ELSE ValueOf(text[n])])

\* One pass: what a reference yields is not looked at again.
Expand(text) == FlattenSeq([n \in DOMAIN text |-> ValueOf(text[n])])

-----------------------------------------------------------------------------
(* renderObject *)

RenderGoTemplate(text) ==
  /\ pc = "start"
  /\ first' = text
  /\ previous' = text
  /\ pc' = "loop"
  /\ UNCHANGED value

\* The named template itself cannot be executed on the data, as that of a claim with
\* a storage class: there is no text, and no pass.
RenderGoTemplateFails ==
  /\ pc = "start"
  /\ pc' = "rejected"
  /\ UNCHANGED <<value, first, previous>>

\* ReRender fails, and with it the generation of all artifacts.
ReRenderFails ==
  /\ pc = "loop"
  /\ ~Renderable(previous)
  /\ pc' = "failed"
  /\ UNCHANGED <<value, first, previous>>

\* Mutants of ReRender: it is done after the second rendering, or when the first text
\* comes back.
ReRenderOnce ==
  /\ pc = "loop"
  /\ Renderable(previous)
  /\ previous' = Expand(previous)
  /\ pc' = "done"
  /\ UNCHANGED <<value, first>>

ReRenderUntilFirst ==
  /\ pc = "loop"
  /\ Renderable(previous)
  /\ Len(Expand(previous)) <= MaxLength
  /\ previous' = Expand(previous)
  /\ pc' = IF previous' = first THEN "done" ELSE "loop"
  /\ UNCHANGED <<value, first>>

ReRender ==
  /\ pc = "loop"
  /\ Renderable(previous)
  /\ Len(Expand(previous)) <= MaxLength
  /\ previous' = Expand(previous)
  /\ pc' = IF previous' = previous THEN "done" ELSE "loop"
  /\ UNCHANGED <<value, first>>

-----------------------------------------------------------------------------
Init ==
  /\ value \in [Fields -> Contents]
  /\ pc = "start"
  /\ first = <<>>
  /\ previous = <<>>

Next ==
  \/ \E text \in Templates : RenderGoTemplate(text)
  \/ RenderGoTemplateFails
  \/ ReRenderFails
  \/ ReRender

Spec == Init /\ [][Next]_vars /\ WF_vars(Next)

-----------------------------------------------------------------------------
(* Properties *)

\* Types.
TypeOK ==
  /\ value \in [Fields -> Contents]
  /\ pc \in {"start", "loop", "done", "failed", "rejected"}
  /\ IsText(first) /\ IsText(previous)
  /\ Len(previous) <= MaxLength

\* The fields that a value refers to, those that references lead to, and whether one of
\* those a text reaches reaches itself.
References(f) == ToSet(value[f]) \cap Fields

ReachedFrom(fs) ==
  {f \in Fields : \A s \in SUBSET Fields :
                   (fs \subseteq s /\ \A g \in s : References(g) \subseteq s) => f \in s}

Below(f) == ReachedFrom(References(f))
Height(f) == Cardinality(Below(f))
Reached == ReachedFrom(ToSet(first) \cap Fields)
Acyclic == \A f \in Reached : f \notin Below(f)

\* The value of a field with all references replaced, from the inside out, as deep
\* as references nest when none is circular.
Replace(text, by) ==
  FlattenSeq([n \in DOMAIN text |-> IF text[n] \in Fields THEN by[text[n]] ELSE <<text[n]>>])

ValueInFull[n \in 0..Cardinality(Fields)] ==
  IF n = 0 THEN value ELSE [f \in Fields |-> Replace(value[f], ValueInFull[n - 1])]

InFull == Replace(first, ValueInFull[Cardinality(Fields)])

\* Where no reference is circular, pass after pass from the outside in ends with what
\* replacing from the inside out yields: no reference is left, however deep.
RenderedInFull == (pc = "done" /\ Acyclic) => previous = InFull

\* Once the named template has yielded a text, rendering fails only because of an action
\* that this text reaches, and one that it reaches, however deep, makes it fail: no text
\* with an action left is applied.
FailsIfBadReached ==
  LET badReached == Bad \in ToSet(first) \cup UNION {ToSet(value[f]) : f \in Reached}
  IN  /\ pc = "failed" => badReached
      /\ pc = "done" => ~badReached

\* Where no reference is circular, every field that is left after a pass has less below it
\* than one that was there before: the rank by which the passes come to an end.
PassesDescend ==
  [][pc = "loop" /\ Acyclic /\ previous' # previous =>
       \A f \in ToSet(previous') \cap Fields :
         \E g \in ToSet(previous) \cap Fields : Height(f) < Height(g)]_vars

\* Rendering ends when no reference is circular.  (Where one is, the loop may go on
\* for ever, and the worker with it.)
RenderingEnds == [](pc = "loop" /\ Acyclic => <>(pc \in {"done", "failed"}))
=============================================================================
