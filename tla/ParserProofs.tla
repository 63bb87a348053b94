---------------------------- MODULE ParserProofs ----------------------------
(***************************************************************************)
(* Proofs about the parsers that Messages executes.  What a parser does is   *)
(* written as data, so a property of all its executions is first a property  *)
(* of its steps: it is shown to hold of the combinators of JsonShapes and is  *)
(* then followed through the definition of every parser.                    *)
(***************************************************************************)
EXTENDS MessagesProofs, WellFoundedInduction

-----------------------------------------------------------------------------
(* Steps in one form. *)

FieldStep(names, mode, conv) ==
    [op |-> "field", names |-> names, mode |-> mode, conv |-> conv]

LoopStep(count, mode, on, own, steps) ==
    [op |-> "each", count |-> count, mode |-> mode, on |-> on, own |-> own, steps |-> steps]

\* The loop of an each step h, of which n entries were taken.
Entries(h, n) ==
    [op |-> "entries", taken |-> n, count |-> h.count, on |-> h.on, own |-> h.own,
     steps |-> h.steps]

Field(names, mode, conv) == <<FieldStep(names, mode, conv)>>
Loop(count, mode, on, own, steps) == <<LoopStep(count, mode, on, own, steps)>>

LEMMA LeafForms ==
  ASSUME NEW names
  PROVE  /\ Plain(names) = Field(names, "required", "none")
         /\ Number(names) = Field(names, "required", "stod")
         /\ Decimal(names) = Field(names, "required", "from_chars")
         /\ Expiry(names) = Field(names, "required", "stoi")
  BY DEF Plain, Number, Decimal, Expiry, Field, FieldStep

LEMMA FieldModes ==
  ASSUME NEW names, NEW mode, NEW conv
  PROVE  /\ Present(Field(names, mode, conv)) = Field(names, "present", conv)
         /\ Nullable(Field(names, mode, conv)) = Field(names, "nullable", conv)
         /\ Soft(Field(names, mode, conv)) = Field(names, "soft", conv)
         /\ Element(Field(names, mode, conv)) = Field(names, "element", conv)
  <1>1. Field(names, mode, conv)[1] = FieldStep(names, mode, conv)
    BY DEF Field
  <1>2. \A m : [FieldStep(names, mode, conv) EXCEPT !.mode = m] = FieldStep(names, m, conv)
    BY DEF FieldStep
  <1> QED BY <1>1, <1>2 DEF Present, Nullable, Soft, Element, Field

LEMMA LoopForms ==
  ASSUME NEW own, NEW steps
  PROVE  /\ Each(own, steps) = Loop("many", "required", "raise", own, steps)
         /\ EachCaught(own, steps) = Loop("many", "required", "drop", own, steps)
         /\ One(own, steps) = Loop("one", "required", "raise", own, steps)
         /\ OneCaught(own, steps) = Loop("one", "required", "keep", own, steps)
  <1> DEFINE each == LoopStep("many", "required", "raise", own, steps)
             one == LoopStep("one", "required", "raise", own, steps)
  <1>1. Each(own, steps) = <<each>> /\ Each(own, steps)[1] = each
    BY DEF Each, LoopStep
  <1>2. /\ [each EXCEPT !.on = "drop"] = LoopStep("many", "required", "drop", own, steps)
        /\ [each EXCEPT !.count = "one"] = one
        /\ [one EXCEPT !.on = "keep"] = LoopStep("one", "required", "keep", own, steps)
    BY DEF LoopStep
  <1> HIDE DEF each, one
  <1>3. One(own, steps) = <<one>> /\ One(own, steps)[1] = one
    BY <1>1, <1>2 DEF One
  <1> QED BY <1>1, <1>2, <1>3 DEF EachCaught, OneCaught, Loop, each, one

LEMMA LoopModes ==
  ASSUME NEW count, NEW mode, NEW on, NEW own, NEW steps
  PROVE  /\ Present(Loop(count, mode, on, own, steps)) = Loop(count, "present", on, own, steps)
         /\ Nullable(Loop(count, mode, on, own, steps)) = Loop(count, "nullable", on, own, steps)
         /\ Soft(Loop(count, mode, on, own, steps)) = Loop(count, "soft", on, own, steps)
         /\ Element(Loop(count, mode, on, own, steps)) = Loop(count, "element", on, own, steps)
  <1>1. Loop(count, mode, on, own, steps)[1] = LoopStep(count, mode, on, own, steps)
    BY DEF Loop
  <1>2. \A m : [LoopStep(count, mode, on, own, steps) EXCEPT !.mode = m]
                 = LoopStep(count, m, on, own, steps)
    BY DEF LoopStep
  <1> QED BY <1>1, <1>2 DEF Present, Nullable, Soft, Element, Loop

IsSeq(s) == \E S : s \in Seq(S)

\* In the parsers a look-up has up to ten names.
LEMMA NamesAreSeqs ==
  /\ \A a : IsSeq(<<a>>)
  /\ \A a, b : IsSeq(<<a, b>>)
  /\ \A a, b, c : IsSeq(<<a, b, c>>)
  /\ \A a, b, c, d : IsSeq(<<a, b, c, d>>)
  /\ \A a, b, c, d, e : IsSeq(<<a, b, c, d, e>>)
  /\ \A a, b, c, d, e, f : IsSeq(<<a, b, c, d, e, f>>)
  /\ \A a, b, c, d, e, f, g : IsSeq(<<a, b, c, d, e, f, g>>)
  /\ \A a, b, c, d, e, f, g, h : IsSeq(<<a, b, c, d, e, f, g, h>>)
  /\ \A a, b, c, d, e, f, g, h, i : IsSeq(<<a, b, c, d, e, f, g, h, i>>)
  /\ \A a, b, c, d, e, f, g, h, i, j : IsSeq(<<a, b, c, d, e, f, g, h, i, j>>)
  <1>1. ASSUME NEW a PROVE IsSeq(<<a>>)
    <2>1. <<a>> \in Seq({a}) OBVIOUS
    <2> QED BY <2>1 DEF IsSeq
  <1>2. ASSUME NEW a, NEW b PROVE IsSeq(<<a, b>>)
    <2>1. <<a, b>> \in Seq({a, b}) OBVIOUS
    <2> QED BY <2>1 DEF IsSeq
  <1>3. ASSUME NEW a, NEW b, NEW c PROVE IsSeq(<<a, b, c>>)
    <2>1. <<a, b, c>> \in Seq({a, b, c}) OBVIOUS
    <2> QED BY <2>1 DEF IsSeq
  <1>4. ASSUME NEW a, NEW b, NEW c, NEW d PROVE IsSeq(<<a, b, c, d>>)
    <2>1. <<a, b, c, d>> \in Seq({a, b, c, d}) OBVIOUS
    <2> QED BY <2>1 DEF IsSeq
  <1>5. ASSUME NEW a, NEW b, NEW c, NEW d, NEW e PROVE IsSeq(<<a, b, c, d, e>>)
    <2>1. <<a, b, c, d, e>> \in Seq({a, b, c, d, e}) OBVIOUS
    <2> QED BY <2>1 DEF IsSeq
  <1>6. ASSUME NEW a, NEW b, NEW c, NEW d, NEW e, NEW f PROVE IsSeq(<<a, b, c, d, e, f>>)
    <2>1. <<a, b, c, d, e, f>> \in Seq({a, b, c, d, e, f}) OBVIOUS
    <2> QED BY <2>1 DEF IsSeq
  <1>7. ASSUME NEW a, NEW b, NEW c, NEW d, NEW e, NEW f, NEW g PROVE IsSeq(<<a, b, c, d, e, f, g>>)
    <2>1. <<a, b, c, d, e, f, g>> \in Seq({a, b, c, d, e, f, g}) OBVIOUS
    <2> QED BY <2>1 DEF IsSeq
  <1>8. ASSUME NEW a, NEW b, NEW c, NEW d, NEW e, NEW f, NEW g, NEW h PROVE IsSeq(<<a, b, c, d, e, f, g, h>>)
    <2>1. <<a, b, c, d, e, f, g, h>> \in Seq({a, b, c, d, e, f, g, h}) OBVIOUS
    <2> QED BY <2>1 DEF IsSeq
  <1>9. ASSUME NEW a, NEW b, NEW c, NEW d, NEW e, NEW f, NEW g, NEW h, NEW i PROVE IsSeq(<<a, b, c, d, e, f, g, h, i>>)
    <2>1. <<a, b, c, d, e, f, g, h, i>> \in Seq({a, b, c, d, e, f, g, h, i}) OBVIOUS
    <2> QED BY <2>1 DEF IsSeq
  <1>10. ASSUME NEW a, NEW b, NEW c, NEW d, NEW e, NEW f, NEW g, NEW h, NEW i, NEW j PROVE IsSeq(<<a, b, c, d, e, f, g, h, i, j>>)
    <2>1. <<a, b, c, d, e, f, g, h, i, j>> \in Seq({a, b, c, d, e, f, g, h, i, j}) OBVIOUS
    <2> QED BY <2>1 DEF IsSeq
  <1> QED BY <1>1, <1>2, <1>3, <1>4, <1>5, <1>6, <1>7, <1>8, <1>9, <1>10, Zenon

-----------------------------------------------------------------------------
(* Disciplines: what the steps of a parser, and of the loops in it, keep to. *)

Catching == {"drop", "keep"}

\* The members that a step assigns whenever the reading goes on after it.
Assured(h) ==
    IF h.op = "field" /\ h.mode \in {"required", "element"}
    THEN {h.names[i] : i \in 1 .. Len(h.names)}
    ELSE IF h.op = "assign" THEN h.members ELSE {}

Pending(s) == UNION {Assured(s[i]) : i \in 1 .. Len(s)}

\* Of an object's indeterminate members, all but those in A are assigned by its
\* own steps; if a catch may cut these short, nothing outside A is left to them.
OwnSettled(h, A) ==
    /\ h.own \subseteq A \cup Pending(h.steps)
    /\ h.on = "keep" => h.own \subseteq A

\* What a discipline allows a step h of a set D of steps.  E is the set for the
\* steps one loop further in, where the discipline is another one there.
\*   quiet      no conversion throws;
\*   local      a loop of many entries catches the errors in each;
\*   unskipped  no look-up gives up the object it is made in;
\*   ordered    no entry of a list of many is left out;
\*   entry      members of an object outside A are assigned;
\*   body       so are those of the objects inside a document.
Allows(kind, A, h, D, E) ==
    /\ kind = "quiet" =>
         /\ h.op = "field" => h.conv \in {"none", "from_chars"}
         /\ h.op = "each" => h.steps \in Seq(D)
    /\ kind = "local" =>
         (h.op = "each" /\ h.on \notin Catching => h.count # "many" /\ h.steps \in Seq(D))
    /\ kind = "unskipped" => (h.op \in {"field", "each"} => h.mode # "element")
    /\ kind = "ordered" =>
         (h.op = "each" => h.on # "drop" /\ (h.count # "one" => h.steps \in Seq(E)))
    /\ kind = "entry" =>
         /\ h.op \notin {"declare", "return", "status"}
         /\ h.op = "each" => h.steps \in Seq(D) /\ OwnSettled(h, A)
    /\ kind = "body" =>
         /\ h.op = "declare" => h.members \subseteq A
         /\ h.op = "each" => h.steps \in Seq(E) /\ OwnSettled(h, A)

Below(kind) == IF kind = "ordered" THEN "unskipped" ELSE "entry"

IsLookUp(h) == IsSeq(h.names) /\ h = FieldStep(h.names, h.mode, h.conv)

\* Whatever is left of a step of D when it is taken is in D again.
Closed(D) ==
    \A h \in D :
        /\ h.op # "entries"
        /\ h.op = "field" => IsLookUp(h)
        /\ h.op = "field" /\ Len(h.names) > 1 => [h EXCEPT !.names = Tail(@)] \in D
        /\ h.op = "alt" => \A i \in DOMAIN h.alternatives : h.alternatives[i] \in Seq(D)
        /\ h.op = "status" => h.otherwise \in Seq(D)

Sound(kind, A, D, E) ==
    /\ Closed(D) /\ Closed(E)
    /\ \A h \in D : Allows(kind, A, h, D, E)
    /\ \A h \in E : Allows(Below(kind), A, h, E, {})

Obeys(kind, A, s) == \E D, E : Sound(kind, A, D, E) /\ s \in Seq(D)

-----------------------------------------------------------------------------
(* Rules for the combinators. *)

LEMMA AllowsMore ==
  ASSUME NEW kind, NEW A, NEW h, NEW D, NEW E, NEW D2, NEW E2,
         Allows(kind, A, h, D, E), D \subseteq D2, E \subseteq E2
  PROVE  Allows(kind, A, h, D2, E2)
  <1>1. h.steps \in Seq(D) => h.steps \in Seq(D2)
    BY SeqMonotonic
  <1>2. h.steps \in Seq(E) => h.steps \in Seq(E2)
    BY SeqMonotonic
  <1> QED BY <1>1, <1>2, Zenon DEF Allows

\* Sequences that obey a discipline do so together.
LEMMA Together ==
  ASSUME NEW kind, NEW A, NEW S, \A s \in S : Obeys(kind, A, s)
  PROVE  \E D, E : Sound(kind, A, D, E) /\ \A s \in S : s \in Seq(D)
  <1> DEFINE DD == [s \in S |-> CHOOSE D : \E E : Sound(kind, A, D, E) /\ s \in Seq(D)]
             EE == [s \in S |-> CHOOSE E : Sound(kind, A, DD[s], E) /\ s \in Seq(DD[s])]
             D == UNION {DD[s] : s \in S}
             E == UNION {EE[s] : s \in S}
  <1>1. ASSUME NEW s \in S PROVE \E X : Sound(kind, A, DD[s], X) /\ s \in Seq(DD[s])
    BY <1>1, Zenon DEF Obeys
  <1> HIDE DEF DD
  <1>2. ASSUME NEW s \in S PROVE Sound(kind, A, DD[s], EE[s]) /\ s \in Seq(DD[s])
    BY <1>1, Zenon
  <1>3. ASSUME NEW s \in S PROVE DD[s] \subseteq D /\ EE[s] \subseteq E
    OBVIOUS
  <1>4. /\ \A h \in D : \E s \in S : h \in DD[s]
        /\ \A h \in E : \E s \in S : h \in EE[s]
    OBVIOUS
  <1> HIDE DEF D, E, EE
  <1>5. Closed(D)
    <2> SUFFICES ASSUME NEW h \in D
                 PROVE  /\ h.op # "entries" /\ (h.op = "field" => IsLookUp(h))
                        /\ h.op = "field" /\ Len(h.names) > 1 =>
                              [h EXCEPT !.names = Tail(@)] \in D
                        /\ h.op = "alt" =>
                              \A i \in DOMAIN h.alternatives : h.alternatives[i] \in Seq(D)
                        /\ h.op = "status" => h.otherwise \in Seq(D)
      BY Zenon DEF Closed
    <2>1. PICK s \in S : h \in DD[s]
      BY <1>4, Zenon
    <2>2. Closed(DD[s])
      BY <1>2, Zenon DEF Sound
    <2>3. \A x : x \in Seq(DD[s]) => x \in Seq(D)
      BY <1>3, SeqMonotonic, Zenon
    <2> QED BY <1>3, <2>1, <2>2, <2>3, Zenon DEF Closed
  <1>6. Closed(E)
    <2> SUFFICES ASSUME NEW h \in E
                 PROVE  /\ h.op # "entries" /\ (h.op = "field" => IsLookUp(h))
                        /\ h.op = "field" /\ Len(h.names) > 1 =>
                              [h EXCEPT !.names = Tail(@)] \in E
                        /\ h.op = "alt" =>
                              \A i \in DOMAIN h.alternatives : h.alternatives[i] \in Seq(E)
                        /\ h.op = "status" => h.otherwise \in Seq(E)
      BY Zenon DEF Closed
    <2>1. PICK s \in S : h \in EE[s]
      BY <1>4, Zenon
    <2>2. Closed(EE[s])
      BY <1>2, Zenon DEF Sound
    <2>3. \A x : x \in Seq(EE[s]) => x \in Seq(E)
      BY <1>3, SeqMonotonic, Zenon
    <2> QED BY <1>3, <2>1, <2>2, <2>3, Zenon DEF Closed
  <1>7. ASSUME NEW h \in D PROVE Allows(kind, A, h, D, E)
    <2>1. PICK s \in S : h \in DD[s]
      BY <1>4, Zenon
    <2>2. Allows(kind, A, h, DD[s], EE[s])
      BY <1>2, <2>1, Zenon DEF Sound
    <2> QED BY <1>3, <2>2, AllowsMore, Zenon
  <1>8. ASSUME NEW h \in E PROVE Allows(Below(kind), A, h, E, {})
    <2>1. PICK s \in S : h \in EE[s]
      BY <1>4, Zenon
    <2>2. Allows(Below(kind), A, h, EE[s], {})
      BY <1>2, <2>1, Zenon DEF Sound
    <2>3. EE[s] \subseteq E
      BY <1>3, Zenon
    <2> QED BY <2>2, <2>3, AllowsMore
  <1>9. Sound(kind, A, D, E)
    BY <1>5, <1>6, <1>7, <1>8, Zenon DEF Sound
  <1>10. \A s \in S : s \in Seq(D)
    BY <1>2, <1>3, SeqMonotonic, Zenon
  <1> QED BY <1>9, <1>10, Zenon

LEMMA EmptyObeys == ASSUME NEW kind, NEW A PROVE Obeys(kind, A, <<>>)
  <1>1. Sound(kind, A, {}, {}) /\ <<>> \in Seq({})
    BY DEF Sound, Closed
  <1> QED BY <1>1, Zenon DEF Obeys

LEMMA JoinObeys ==
  ASSUME NEW kind, NEW A, NEW s, NEW t, Obeys(kind, A, s), Obeys(kind, A, t)
  PROVE  Obeys(kind, A, s \o t)
  <1> DEFINE S == {s, t}
  <1>1. (\A u \in S : Obeys(kind, A, u)) /\ s \in S /\ t \in S
    OBVIOUS
  <1> HIDE DEF S
  <1>2. PICK D, E : Sound(kind, A, D, E) /\ \A u \in S : u \in Seq(D)
    BY <1>1, Together, Zenon
  <1>3. s \o t \in Seq(D)
    BY <1>1, <1>2
  <1> QED BY <1>2, <1>3, Zenon DEF Obeys

\* A step that leaves nothing behind.
LEMMA StepObeys ==
  ASSUME NEW kind, NEW A, NEW h, h.op \in {"assign", "declare", "return"},
         Allows(kind, A, h, {h}, {})
  PROVE  Obeys(kind, A, <<h>>)
  <1>1. Sound(kind, A, {h}, {})
    BY DEF Sound, Closed
  <1>2. <<h>> \in Seq({h})
    OBVIOUS
  <1> QED BY <1>1, <1>2, Zenon DEF Obeys

\* Adding one step to a set of steps.
LEMMA OneMore ==
  ASSUME NEW kind, NEW A, NEW D, NEW E, Sound(kind, A, D, E), NEW h,
         h.op \notin {"field", "entries"},
         h.op = "alt" => \A i \in DOMAIN h.alternatives : h.alternatives[i] \in Seq(D),
         h.op = "status" => h.otherwise \in Seq(D),
         Allows(kind, A, h, D \cup {h}, E)
  PROVE  Obeys(kind, A, <<h>>)
  <1>1. D \subseteq D \cup {h} /\ E \subseteq E
    OBVIOUS
  <1>2. \A x : x \in Seq(D) => x \in Seq(D \cup {h})
    BY <1>1, SeqMonotonic
  <1>3. Closed(D \cup {h})
    BY <1>2 DEF Closed, Sound
  <1>4. \A x \in D : Allows(kind, A, x, D \cup {h}, E)
    BY <1>1, AllowsMore DEF Sound
  <1>5. Sound(kind, A, D \cup {h}, E)
    BY <1>3, <1>4 DEF Sound
  <1>6. <<h>> \in Seq(D \cup {h})
    OBVIOUS
  <1> QED BY <1>5, <1>6, Zenon DEF Obeys

LEMMA FieldObeys ==
  ASSUME NEW kind, NEW A, NEW names, IsSeq(names), NEW mode, NEW conv,
         \A n : Allows(kind, A, FieldStep(n, mode, conv), {}, {})
  PROVE  Obeys(kind, A, Field(names, mode, conv))
  <1>1. PICK S : names \in Seq(S)
    BY DEF IsSeq
  <1> DEFINE D == {FieldStep(n, mode, conv) : n \in Seq(S)}
  <1>2. \A n, m : [FieldStep(n, mode, conv) EXCEPT !.names = m] = FieldStep(m, mode, conv)
    BY DEF FieldStep
  <1>3. \A n : FieldStep(n, mode, conv).names = n /\ FieldStep(n, mode, conv).op = "field"
    BY DEF FieldStep
  <1>4. \A n \in Seq(S) : Len(n) > 1 => Tail(n) \in Seq(S)
    OBVIOUS
  <1>5. Closed(D)
    <2>1. ASSUME NEW h \in D
          PROVE  /\ h.op = "field" /\ IsLookUp(h)
                 /\ Len(h.names) > 1 => [h EXCEPT !.names = Tail(@)] \in D
      <3>1. PICK n \in Seq(S) : h = FieldStep(n, mode, conv)
        OBVIOUS
      <3>2. [h EXCEPT !.names = Tail(@)] = FieldStep(Tail(n), mode, conv)
        BY <1>2, <1>3, <3>1
      <3>3. h.op = "field" /\ h.names = n
        BY <1>3, <3>1
      <3>4. IsSeq(n)
        BY DEF IsSeq
      <3>5. h.mode = mode /\ h.conv = conv
        BY <3>1 DEF FieldStep
      <3>6. IsLookUp(h)
        BY <3>1, <3>3, <3>4, <3>5 DEF IsLookUp
      <3> QED BY <1>4, <3>2, <3>3, <3>6
    <2> HIDE DEF D
    <2> QED BY <2>1 DEF Closed
  <1>6. \A h \in D : Allows(kind, A, h, D, {})
    <2>1. \A h \in D : Allows(kind, A, h, {}, {})
      OBVIOUS
    <2>2. {} \subseteq D
      OBVIOUS
    <2> HIDE DEF D
    <2> QED BY <2>1, <2>2, AllowsMore
  <1>7. FieldStep(names, mode, conv) \in D
    BY <1>1
  <1> HIDE DEF D
  <1>8. Closed({})
    BY DEF Closed
  <1>9. Sound(kind, A, D, {})
    BY <1>5, <1>6, <1>8 DEF Sound
  <1>10. Field(names, mode, conv) \in Seq(D)
    BY <1>7 DEF Field
  <1> QED BY <1>9, <1>10, Zenon DEF Obeys

LEMMA AltObeys ==
  ASSUME NEW kind, NEW A, NEW S, \A s \in S : Obeys(kind, A, s), NEW alternatives \in Seq(S)
  PROVE  Obeys(kind, A, Alt(alternatives))
  <1>1. PICK D, E : Sound(kind, A, D, E) /\ \A s \in S : s \in Seq(D)
    BY Together, Zenon
  <1> DEFINE h == [op |-> "alt", alternatives |-> alternatives]
  <1>2. h.op = "alt" /\ h.alternatives = alternatives
    OBVIOUS
  <1>3. \A i \in DOMAIN alternatives : alternatives[i] \in Seq(D)
    BY <1>1
  <1> HIDE DEF h
  <1>4. Allows(kind, A, h, D \cup {h}, E)
    BY <1>2 DEF Allows
  <1>5. Obeys(kind, A, <<h>>)
    BY <1>1, <1>2, <1>3, <1>4, OneMore
  <1> QED BY <1>5 DEF Alt, h

LEMMA StatusObeys ==
  ASSUME NEW kind, kind # "entry", NEW A, NEW otherwise, Obeys(kind, A, otherwise)
  PROVE  Obeys(kind, A, Status(otherwise))
  <1>1. PICK D, E : Sound(kind, A, D, E) /\ otherwise \in Seq(D)
    BY DEF Obeys
  <1> DEFINE h == [op |-> "status", otherwise |-> otherwise]
  <1>2. h.op = "status" /\ h.otherwise = otherwise
    OBVIOUS
  <1> HIDE DEF h
  <1>3. Allows(kind, A, h, D \cup {h}, E)
    BY <1>2 DEF Allows
  <1>4. Obeys(kind, A, <<h>>)
    BY <1>1, <1>2, <1>3, OneMore
  <1> QED BY <1>4 DEF Status, h

LEMMA LoopMembers ==
  ASSUME NEW count, NEW mode, NEW on, NEW own, NEW steps, NEW h,
         h = LoopStep(count, mode, on, own, steps)
  PROVE  /\ h.op = "each" /\ h.count = count /\ h.mode = mode /\ h.on = on
         /\ h.own = own /\ h.steps = steps
         /\ Loop(count, mode, on, own, steps) = <<h>>
  BY DEF LoopStep, Loop

\* A loop whose body keeps to the discipline of what is around it.
LEMMA LoopObeys ==
  ASSUME NEW kind \in {"quiet", "local", "entry"}, NEW A,
         NEW count, NEW mode, NEW on, NEW own, NEW steps, Obeys(kind, A, steps),
         kind = "local" => count # "many",
         kind = "entry" => OwnSettled(LoopStep(count, mode, on, own, steps), A)
  PROVE  Obeys(kind, A, Loop(count, mode, on, own, steps))
  <1>1. PICK D, E : Sound(kind, A, D, E) /\ steps \in Seq(D)
    BY DEF Obeys
  <1>2. PICK h : h = LoopStep(count, mode, on, own, steps)
    OBVIOUS
  <1>3. /\ h.op = "each" /\ h.count = count /\ h.steps = steps
        /\ Loop(count, mode, on, own, steps) = <<h>>
    BY <1>2, LoopMembers
  <1>4. steps \in Seq(D \cup {h})
    BY <1>1, SeqMonotonic
  <1>5. Allows(kind, A, h, D \cup {h}, E)
    BY <1>2, <1>3, <1>4 DEF Allows
  <1>6. Obeys(kind, A, <<h>>)
    BY <1>1, <1>3, <1>5, OneMore
  <1> QED BY <1>3, <1>6

\* A loop whose body may be anything.
LEMMA AnyLoopObeys ==
  ASSUME NEW kind \in {"local", "unskipped", "ordered"}, NEW A,
         NEW count, NEW mode, NEW on, NEW own, NEW steps,
         kind = "local" => on \in Catching, kind = "unskipped" => mode # "element",
         kind = "ordered" => count = "one" /\ on # "drop"
  PROVE  Obeys(kind, A, Loop(count, mode, on, own, steps))
  <1>1. PICK h : h = LoopStep(count, mode, on, own, steps)
    OBVIOUS
  <1>2. /\ h.op = "each" /\ h.on = on /\ h.mode = mode /\ h.count = count
        /\ Loop(count, mode, on, own, steps) = <<h>>
    BY <1>1, LoopMembers
  <1>3. Allows(kind, A, h, {} \cup {h}, {})
    BY <1>2 DEF Allows
  <1>4. Sound(kind, A, {}, {})
    BY DEF Sound, Closed
  <1>5. Obeys(kind, A, <<h>>)
    BY <1>2, <1>3, <1>4, OneMore
  <1> QED BY <1>2, <1>5

\* A loop whose body keeps to the discipline below.
LEMMA LoopAbove ==
  ASSUME NEW kind \in {"ordered", "body"}, NEW A,
         NEW count, NEW mode, NEW on, NEW own, NEW steps, Obeys(Below(kind), A, steps),
         kind = "ordered" => on # "drop",
         kind = "body" => OwnSettled(LoopStep(count, mode, on, own, steps), A)
  PROVE  Obeys(kind, A, Loop(count, mode, on, own, steps))
  <1>1. PICK D, E : Sound(Below(kind), A, D, E) /\ steps \in Seq(D)
    BY DEF Obeys
  <1>2. \A h \in D : Allows(Below(kind), A, h, D, {})
    <2>1. \A h \in D : Allows(Below(kind), A, h, D, E)
      BY <1>1 DEF Sound
    <2> QED BY <2>1 DEF Allows, Below
  <1>3. Sound(kind, A, {}, D)
    BY <1>1, <1>2 DEF Sound, Closed
  <1>4. PICK h : h = LoopStep(count, mode, on, own, steps)
    OBVIOUS
  <1>5. /\ h.op = "each" /\ h.on = on /\ h.steps = steps
        /\ Loop(count, mode, on, own, steps) = <<h>>
    BY <1>4, LoopMembers
  <1>6. Allows(kind, A, h, {} \cup {h}, D)
    BY <1>1, <1>4, <1>5 DEF Allows
  <1>7. Obeys(kind, A, <<h>>)
    BY <1>3, <1>5, <1>6, OneMore
  <1> QED BY <1>5, <1>7

LEMMA StepRules ==
  ASSUME NEW kind, NEW A
  PROVE  /\ Obeys(kind, A, <<>>)
         /\ \A s, t : Obeys(kind, A, s) /\ Obeys(kind, A, t) => Obeys(kind, A, s \o t)
         /\ \A members : Obeys(kind, A, Assign(members))
         /\ kind # "entry" => Obeys(kind, A, Return)
         /\ \A members : kind # "entry" /\ (kind = "body" => members \subseteq A)
              => Obeys(kind, A, Declare(members))
         /\ kind # "entry" => \A s : Obeys(kind, A, s) => Obeys(kind, A, Status(s))
  <1>1. Obeys(kind, A, <<>>)
    BY EmptyObeys, Zenon
  <1>2. \A s, t : Obeys(kind, A, s) /\ Obeys(kind, A, t) => Obeys(kind, A, s \o t)
    BY JoinObeys, Zenon
  <1>3. ASSUME NEW members PROVE Obeys(kind, A, Assign(members))
    <2> DEFINE h == [op |-> "assign", members |-> members]
    <2>1. h.op = "assign"
      OBVIOUS
    <2> HIDE DEF h
    <2>2. Allows(kind, A, h, {h}, {})
      BY <2>1 DEF Allows
    <2>3. Obeys(kind, A, <<h>>)
      BY <2>1, <2>2, StepObeys
    <2> QED BY <2>3 DEF Assign, h
  <1>4. ASSUME kind # "entry" PROVE Obeys(kind, A, Return)
    <2> DEFINE h == [op |-> "return"]
    <2>1. h.op = "return"
      OBVIOUS
    <2> HIDE DEF h
    <2>2. Allows(kind, A, h, {h}, {})
      BY <1>4, <2>1 DEF Allows
    <2>3. Obeys(kind, A, <<h>>)
      BY <2>1, <2>2, StepObeys
    <2> QED BY <2>3 DEF Return, h
  <1>5. ASSUME NEW members, kind # "entry", kind = "body" => members \subseteq A
        PROVE  Obeys(kind, A, Declare(members))
    <2> DEFINE h == [op |-> "declare", members |-> members]
    <2>1. h.op = "declare" /\ h.members = members
      OBVIOUS
    <2> HIDE DEF h
    <2>2. Allows(kind, A, h, {h}, {})
      BY <1>5, <2>1 DEF Allows
    <2>3. Obeys(kind, A, <<h>>)
      BY <2>1, <2>2, StepObeys
    <2> QED BY <2>3 DEF Declare, h
  <1>6. kind # "entry" => \A s : Obeys(kind, A, s) => Obeys(kind, A, Status(s))
    BY StatusObeys
  <1> QED BY <1>1, <1>2, <1>3, <1>4, <1>5, <1>6, Zenon

-----------------------------------------------------------------------------
(* The same rules, in terms of the combinators. *)

LEMMA LoopTerms ==
  ASSUME NEW own, NEW steps
  PROVE  /\ Each(own, steps) = Loop("many", "required", "raise", own, steps)
         /\ Present(Each(own, steps)) = Loop("many", "present", "raise", own, steps)
         /\ Nullable(Each(own, steps)) = Loop("many", "nullable", "raise", own, steps)
         /\ Soft(Each(own, steps)) = Loop("many", "soft", "raise", own, steps)
         /\ Element(Each(own, steps)) = Loop("many", "element", "raise", own, steps)
         /\ EachCaught(own, steps) = Loop("many", "required", "drop", own, steps)
         /\ Present(EachCaught(own, steps)) = Loop("many", "present", "drop", own, steps)
         /\ Nullable(EachCaught(own, steps)) = Loop("many", "nullable", "drop", own, steps)
         /\ Soft(EachCaught(own, steps)) = Loop("many", "soft", "drop", own, steps)
         /\ Element(EachCaught(own, steps)) = Loop("many", "element", "drop", own, steps)
         /\ One(own, steps) = Loop("one", "required", "raise", own, steps)
         /\ Present(One(own, steps)) = Loop("one", "present", "raise", own, steps)
         /\ Nullable(One(own, steps)) = Loop("one", "nullable", "raise", own, steps)
         /\ Soft(One(own, steps)) = Loop("one", "soft", "raise", own, steps)
         /\ Element(One(own, steps)) = Loop("one", "element", "raise", own, steps)
         /\ OneCaught(own, steps) = Loop("one", "required", "keep", own, steps)
         /\ Present(OneCaught(own, steps)) = Loop("one", "present", "keep", own, steps)
         /\ Nullable(OneCaught(own, steps)) = Loop("one", "nullable", "keep", own, steps)
         /\ Soft(OneCaught(own, steps)) = Loop("one", "soft", "keep", own, steps)
         /\ Element(OneCaught(own, steps)) = Loop("one", "element", "keep", own, steps)
  BY LoopForms, LoopModes

LEMMA FieldTerms ==
  ASSUME NEW names
  PROVE  /\ Plain(names) = Field(names, "required", "none")
         /\ Present(Plain(names)) = Field(names, "present", "none")
         /\ Nullable(Plain(names)) = Field(names, "nullable", "none")
         /\ Soft(Plain(names)) = Field(names, "soft", "none")
         /\ Element(Plain(names)) = Field(names, "element", "none")
         /\ Number(names) = Field(names, "required", "stod")
         /\ Present(Number(names)) = Field(names, "present", "stod")
         /\ Nullable(Number(names)) = Field(names, "nullable", "stod")
         /\ Soft(Number(names)) = Field(names, "soft", "stod")
         /\ Element(Number(names)) = Field(names, "element", "stod")
         /\ Decimal(names) = Field(names, "required", "from_chars")
         /\ Present(Decimal(names)) = Field(names, "present", "from_chars")
         /\ Nullable(Decimal(names)) = Field(names, "nullable", "from_chars")
         /\ Soft(Decimal(names)) = Field(names, "soft", "from_chars")
         /\ Element(Decimal(names)) = Field(names, "element", "from_chars")
         /\ Expiry(names) = Field(names, "required", "stoi")
         /\ Present(Expiry(names)) = Field(names, "present", "stoi")
         /\ Nullable(Expiry(names)) = Field(names, "nullable", "stoi")
         /\ Soft(Expiry(names)) = Field(names, "soft", "stoi")
         /\ Element(Expiry(names)) = Field(names, "element", "stoi")
  BY LeafForms, FieldModes

LEMMA FieldRules ==
  ASSUME NEW kind, NEW A, NEW names, IsSeq(names)
  PROVE  /\ Obeys(kind, A, Plain(names)) /\ Obeys(kind, A, Present(Plain(names)))
         /\ Obeys(kind, A, Nullable(Plain(names))) /\ Obeys(kind, A, Soft(Plain(names)))
         /\ Obeys(kind, A, Decimal(names)) /\ Obeys(kind, A, Present(Decimal(names)))
         /\ Obeys(kind, A, Soft(Decimal(names)))
         /\ kind # "quiet" =>
              /\ Obeys(kind, A, Number(names)) /\ Obeys(kind, A, Present(Number(names)))
              /\ Obeys(kind, A, Nullable(Number(names))) /\ Obeys(kind, A, Soft(Number(names)))
              /\ Obeys(kind, A, Expiry(names))
         /\ kind \notin {"quiet", "unskipped"} =>
              /\ Obeys(kind, A, Element(Plain(names))) /\ Obeys(kind, A, Element(Number(names)))
  <1>1. ASSUME NEW mode, NEW conv, kind = "unskipped" => mode # "element",
               kind = "quiet" => conv \in {"none", "from_chars"}
        PROVE  Obeys(kind, A, Field(names, mode, conv))
    <2>1. \A n : /\ FieldStep(n, mode, conv).op = "field"
                 /\ FieldStep(n, mode, conv).mode = mode
                 /\ FieldStep(n, mode, conv).conv = conv
      BY DEF FieldStep
    <2>2. \A n : Allows(kind, A, FieldStep(n, mode, conv), {}, {})
      BY <1>1, <2>1 DEF Allows
    <2> QED BY <2>2, FieldObeys
  <1>2. \A mode \in {"required", "present", "nullable", "soft"} :
            /\ Obeys(kind, A, Field(names, mode, "none"))
            /\ Obeys(kind, A, Field(names, mode, "from_chars"))
            /\ kind # "quiet" => /\ Obeys(kind, A, Field(names, mode, "stod"))
                                 /\ Obeys(kind, A, Field(names, mode, "stoi"))
    BY <1>1
  <1>3. kind \notin {"quiet", "unskipped"} =>
          /\ Obeys(kind, A, Field(names, "element", "none"))
          /\ Obeys(kind, A, Field(names, "element", "stod"))
    BY <1>1
  <1> QED BY <1>2, <1>3, FieldTerms

LEMMA AltRules ==
  ASSUME NEW kind, NEW A
  PROVE  /\ \A a, b : Obeys(kind, A, a) /\ Obeys(kind, A, b)
              => Obeys(kind, A, Alt(<<a, b>>))
         /\ \A a, b, c : Obeys(kind, A, a) /\ Obeys(kind, A, b) /\ Obeys(kind, A, c)
              => Obeys(kind, A, Alt(<<a, b, c>>))
         /\ \A a, b, c, d : Obeys(kind, A, a) /\ Obeys(kind, A, b) /\ Obeys(kind, A, c)
                 /\ Obeys(kind, A, d)
              => Obeys(kind, A, Alt(<<a, b, c, d>>))
         /\ \A a, b, c, d, e : Obeys(kind, A, a) /\ Obeys(kind, A, b) /\ Obeys(kind, A, c)
                 /\ Obeys(kind, A, d) /\ Obeys(kind, A, e)
              => Obeys(kind, A, Alt(<<a, b, c, d, e>>))
  <1>1. ASSUME NEW a, NEW b, Obeys(kind, A, a), Obeys(kind, A, b)
        PROVE  Obeys(kind, A, Alt(<<a, b>>))
    <2> DEFINE S == {a, b}
    <2>1. <<a, b>> \in Seq(S) /\ \A s \in S : Obeys(kind, A, s)
      BY <1>1
    <2> HIDE DEF S
    <2> QED BY <2>1, AltObeys
  <1>2. ASSUME NEW a, NEW b, NEW c, Obeys(kind, A, a), Obeys(kind, A, b), Obeys(kind, A, c)
        PROVE  Obeys(kind, A, Alt(<<a, b, c>>))
    <2> DEFINE S == {a, b, c}
    <2>1. <<a, b, c>> \in Seq(S) /\ \A s \in S : Obeys(kind, A, s)
      BY <1>2
    <2> HIDE DEF S
    <2> QED BY <2>1, AltObeys
  <1>3. ASSUME NEW a, NEW b, NEW c, NEW d, Obeys(kind, A, a), Obeys(kind, A, b), Obeys(kind, A, c),
               Obeys(kind, A, d)
        PROVE  Obeys(kind, A, Alt(<<a, b, c, d>>))
    <2> DEFINE S == {a, b, c, d}
    <2>1. <<a, b, c, d>> \in Seq(S) /\ \A s \in S : Obeys(kind, A, s)
      BY <1>3
    <2> HIDE DEF S
    <2> QED BY <2>1, AltObeys
  <1>4. ASSUME NEW a, NEW b, NEW c, NEW d, NEW e, Obeys(kind, A, a), Obeys(kind, A, b), Obeys(kind, A, c),
               Obeys(kind, A, d), Obeys(kind, A, e)
        PROVE  Obeys(kind, A, Alt(<<a, b, c, d, e>>))
    <2> DEFINE S == {a, b, c, d, e}
    <2>1. <<a, b, c, d, e>> \in Seq(S) /\ \A s \in S : Obeys(kind, A, s)
      BY <1>4
    <2> HIDE DEF S
    <2> QED BY <2>1, AltObeys
  <1> QED BY <1>1, <1>2, <1>3, <1>4, Zenon

LEMMA MayReturnObeys ==
  ASSUME NEW kind, kind # "entry", NEW A PROVE Obeys(kind, A, MayReturn)
  <1>1. Obeys(kind, A, Return) /\ Obeys(kind, A, <<>>)
    BY StepRules
  <1>2. Obeys(kind, A, Alt(<<Return, <<>>>>))
    BY <1>1, AltRules, Zenon
  <1> QED BY <1>2 DEF MayReturn

-----------------------------------------------------------------------------
(* The tables of the parsers, entry by entry. *)

LEMMA MarketBranches ==
  /\ DOMAIN marketBranches =
       {"l2Book", "bbo", "trades", "candle", "allMids", "activeAssetCtx",
        "activeSpotAssetCtx", "orderUpdates", "userFills", "userEvents",
        "subscriptionResponse", "userFundings"}
  /\ marketBranches["l2Book"] = Data \o crackL2Book
  /\ marketBranches["bbo"] = Data \o crackBbo
  /\ marketBranches["trades"] = Data \o crackTrades
  /\ marketBranches["candle"] = Data \o crackCandles
  /\ marketBranches["allMids"] = Data \o crackAllMids
  /\ marketBranches["activeAssetCtx"] = Data \o crackActiveAssetCtx
  /\ marketBranches["activeSpotAssetCtx"] = Data \o crackActiveAssetCtx
  /\ marketBranches["orderUpdates"] = Data \o crackOrderUpdates
  /\ marketBranches["userFills"] = Data \o crackUserFills
  /\ marketBranches["userEvents"] = Data \o crackUserEvents
  /\ marketBranches["subscriptionResponse"] = Data \o crackSubscriptionResponse
  /\ marketBranches["userFundings"] = Data \o crackUserFundings
  BY DEF marketBranches

LEMMA AccountBranches ==
  /\ DOMAIN accountBranches =
       {"userNonFundingLedgerUpdates", "webData3", "clearinghouseState", "openOrders",
        "twapStates", "notification", "userTwapSliceFills", "userTwapHistory",
        "activeAssetData", "spotState", "allDexsClearinghouseState",
        "allDexsAssetCtxs", "fastAssetCtxs", "outcomeMetaUpdates"}
  /\ accountBranches["userNonFundingLedgerUpdates"] = Data \o crackUserNonFundingLedgerUpdates
  /\ accountBranches["webData3"] = Data \o crackWebData3
  /\ accountBranches["clearinghouseState"] = Data \o crackClearinghouseState
  /\ accountBranches["openOrders"] = Data \o crackOpenOrders
  /\ accountBranches["twapStates"] = Data \o crackTwapStates
  /\ accountBranches["notification"] = Data \o crackNotification
  /\ accountBranches["userTwapSliceFills"] = Data \o crackUserTwapSliceFills
  /\ accountBranches["userTwapHistory"] = Data \o crackUserTwapHistory
  /\ accountBranches["activeAssetData"] = Data \o crackActiveAssetData
  /\ accountBranches["spotState"] = Data \o crackSpotState
  /\ accountBranches["allDexsClearinghouseState"] = Data \o crackAllDexsClearinghouseState
  /\ accountBranches["allDexsAssetCtxs"] = Data \o crackAllDexsAssetCtxs
  /\ accountBranches["fastAssetCtxs"] = Data \o crackFastAssetCtxs
  /\ accountBranches["outcomeMetaUpdates"] = Data \o crackOutcomeMetaUpdates
  BY DEF accountBranches

LEMMA RestBranches ==
  /\ DOMAIN Parsers =
       {"SpotMeta", "Meta", "OutcomeMeta", "SettledOutcome", "PerpDexs",
        "PerpsAtOpenInterestCap", "PredictedFundings", "PerpAnnotation",
        "PerpCategories", "PerpConciseAnnotations", "AllPerpMetas", "PerpDexLimits",
        "PerpDexStatus", "PerpDeployAuctionStatus", "UserFunding",
        "UserNonFundingLedgerUpdates", "FundingHistory", "L2Book", "CandleSnapshot",
        "RecentTrades", "AllMids", "OpenOrders", "OrderStatus", "UserFills",
        "UserFillsByTime", "ClearinghouseState", "UserRateLimit", "MetaAndAssetCtxs",
        "SpotMetaAndAssetCtxs", "SpotClearinghouseState", "SpotDeployState",
        "SpotPairDeployAuctionStatus", "FrontendOpenOrders", "HistoricalOrders",
        "UserTwapSliceFills", "UserTwapSliceFillsByTime", "TwapHistory",
        "ActiveAssetData", "SubAccounts", "UserFees", "MaxBuilderFee",
        "ApprovedBuilders", "VaultDetails", "UserVaultEquities", "Portfolio",
        "Referral", "UserRole", "BorrowLendUserState", "BorrowLendReserveState",
        "AllBorrowLendReserveStates", "UserBorrowLendInterest", "Liquidatable",
        "UserDexAbstractionState", "UserAbstraction", "ExchangeStatus", "Delegations",
        "DelegatorSummary", "DelegatorHistory", "DelegatorRewards", "SimpleResponse",
        "PlaceOrder", "CancelOrder", "ModifyOrder", "TwapOrder", "TwapCancel",
        "CreateSubAccount", "CreateVault"}
  /\ Parsers["SpotMeta"] = parseSpotMeta /\ Parsers["Meta"] = parseMeta
  /\ Parsers["OutcomeMeta"] = parseOutcomeMeta
  /\ Parsers["SettledOutcome"] = parseSettledOutcome
  /\ Parsers["PerpDexs"] = parsePerpDexs
  /\ Parsers["PerpsAtOpenInterestCap"] = parsePerpsAtOpenInterestCap
  /\ Parsers["PredictedFundings"] = parsePredictedFundings
  /\ Parsers["PerpAnnotation"] = parsePerpAnnotation
  /\ Parsers["PerpCategories"] = parsePerpCategories
  /\ Parsers["PerpConciseAnnotations"] = parsePerpConciseAnnotations
  /\ Parsers["AllPerpMetas"] = parseAllPerpMetas
  /\ Parsers["PerpDexLimits"] = parsePerpDexLimits
  /\ Parsers["PerpDexStatus"] = parsePerpDexStatus
  /\ Parsers["PerpDeployAuctionStatus"] = parsePerpDeployAuctionStatus
  /\ Parsers["UserFunding"] = parseUserFunding
  /\ Parsers["UserNonFundingLedgerUpdates"] = parseUserNonFundingLedgerUpdates
  /\ Parsers["FundingHistory"] = parseFundingHistory /\ Parsers["L2Book"] = parseL2Book
  /\ Parsers["CandleSnapshot"] = parseCandleSnapshot
  /\ Parsers["RecentTrades"] = parseRecentTrades /\ Parsers["AllMids"] = parseAllMids
  /\ Parsers["OpenOrders"] = parseOpenOrders /\ Parsers["OrderStatus"] = parseOrderStatus
  /\ Parsers["UserFills"] = parseUserFills
  /\ Parsers["UserFillsByTime"] = parseUserFillsByTime
  /\ Parsers["ClearinghouseState"] = parseClearinghouseState
  /\ Parsers["UserRateLimit"] = parseUserRateLimit
  /\ Parsers["MetaAndAssetCtxs"] = parseMetaAndAssetCtxs
  /\ Parsers["SpotMetaAndAssetCtxs"] = parseSpotMetaAndAssetCtxs
  /\ Parsers["SpotClearinghouseState"] = parseSpotClearinghouseState
  /\ Parsers["SpotDeployState"] = parseSpotDeployState
  /\ Parsers["SpotPairDeployAuctionStatus"] = parseSpotPairDeployAuctionStatus
  /\ Parsers["FrontendOpenOrders"] = parseFrontendOpenOrders
  /\ Parsers["HistoricalOrders"] = parseHistoricalOrders
  /\ Parsers["UserTwapSliceFills"] = parseUserTwapSliceFills
  /\ Parsers["UserTwapSliceFillsByTime"] = parseUserTwapSliceFillsByTime
  /\ Parsers["TwapHistory"] = parseTwapHistory
  /\ Parsers["ActiveAssetData"] = parseActiveAssetData
  /\ Parsers["SubAccounts"] = parseSubAccounts /\ Parsers["UserFees"] = parseUserFees
  /\ Parsers["MaxBuilderFee"] = parseMaxBuilderFee
  /\ Parsers["ApprovedBuilders"] = parseApprovedBuilders
  /\ Parsers["VaultDetails"] = parseVaultDetails
  /\ Parsers["UserVaultEquities"] = parseUserVaultEquities
  /\ Parsers["Portfolio"] = parsePortfolio /\ Parsers["Referral"] = parseReferral
  /\ Parsers["UserRole"] = parseUserRole
  /\ Parsers["BorrowLendUserState"] = parseBorrowLendUserState
  /\ Parsers["BorrowLendReserveState"] = parseBorrowLendReserveState
  /\ Parsers["AllBorrowLendReserveStates"] = parseAllBorrowLendReserveStates
  /\ Parsers["UserBorrowLendInterest"] = parseUserBorrowLendInterest
  /\ Parsers["Liquidatable"] = parseLiquidatable
  /\ Parsers["UserDexAbstractionState"] = parseUserDexAbstractionState
  /\ Parsers["UserAbstraction"] = parseUserAbstraction
  /\ Parsers["ExchangeStatus"] = parseExchangeStatus
  /\ Parsers["Delegations"] = parseDelegations
  /\ Parsers["DelegatorSummary"] = parseDelegatorSummary
  /\ Parsers["DelegatorHistory"] = parseDelegatorHistory
  /\ Parsers["DelegatorRewards"] = parseDelegatorRewards
  /\ Parsers["SimpleResponse"] = parseSimpleResponse
  /\ Parsers["PlaceOrder"] = parsePlaceOrder /\ Parsers["CancelOrder"] = parseCancelOrder
  /\ Parsers["ModifyOrder"] = parseModifyOrder /\ Parsers["TwapOrder"] = parseTwapOrder
  /\ Parsers["TwapCancel"] = parseTwapCancel
  /\ Parsers["CreateSubAccount"] = parseCreateSubAccount
  /\ Parsers["CreateVault"] = parseCreateVault
  BY DEF Parsers

-----------------------------------------------------------------------------
(* Parsers whose conversions never throw. *)

Quiet(s) == Obeys("quiet", {}, s)

LEMMA QuietRules ==
  /\ Quiet(<<>>) /\ Quiet(MayReturn)
  /\ \A s, t : Quiet(s) /\ Quiet(t) => Quiet(s \o t)
  /\ \A members : Quiet(Assign(members))
  /\ \A s : Quiet(s) => Quiet(Status(s))
  /\ \A names : IsSeq(names) =>
        /\ Quiet(Plain(names)) /\ Quiet(Present(Plain(names))) /\ Quiet(Nullable(Plain(names)))
        /\ Quiet(Soft(Plain(names))) /\ Quiet(Decimal(names)) /\ Quiet(Present(Decimal(names)))
        /\ Quiet(Soft(Decimal(names)))
  /\ \A own, s : Quiet(s) =>
        /\ Quiet(Each(own, s)) /\ Quiet(Present(Each(own, s))) /\ Quiet(Soft(Each(own, s)))
        /\ Quiet(EachCaught(own, s)) /\ Quiet(Present(EachCaught(own, s)))
        /\ Quiet(Soft(EachCaught(own, s)))
        /\ Quiet(One(own, s)) /\ Quiet(Present(One(own, s))) /\ Quiet(Nullable(One(own, s)))
        /\ Quiet(Soft(One(own, s)))
  <1>1. Quiet(<<>>) /\ \A members : Quiet(Assign(members))
    BY StepRules DEF Quiet
  <1>2. Quiet(MayReturn)
    BY MayReturnObeys DEF Quiet
  <1>3. \A s, t : Quiet(s) /\ Quiet(t) => Quiet(s \o t)
    BY JoinObeys DEF Quiet
  <1>4. \A s : Quiet(s) => Quiet(Status(s))
    BY StatusObeys DEF Quiet
  <1>5. ASSUME NEW names, IsSeq(names)
        PROVE  /\ Quiet(Plain(names)) /\ Quiet(Present(Plain(names)))
               /\ Quiet(Nullable(Plain(names))) /\ Quiet(Soft(Plain(names)))
               /\ Quiet(Decimal(names)) /\ Quiet(Present(Decimal(names)))
               /\ Quiet(Soft(Decimal(names)))
    BY <1>5, FieldRules DEF Quiet
  <1>6. ASSUME NEW own, NEW s, Quiet(s)
        PROVE  \A count, mode, on : Quiet(Loop(count, mode, on, own, s))
    BY <1>6, LoopObeys DEF Quiet
  <1>7. ASSUME NEW own, NEW s, Quiet(s)
        PROVE  /\ Quiet(Each(own, s)) /\ Quiet(Present(Each(own, s)))
               /\ Quiet(Soft(Each(own, s)))
               /\ Quiet(EachCaught(own, s)) /\ Quiet(Present(EachCaught(own, s)))
               /\ Quiet(Soft(EachCaught(own, s)))
               /\ Quiet(One(own, s)) /\ Quiet(Present(One(own, s)))
               /\ Quiet(Nullable(One(own, s))) /\ Quiet(Soft(One(own, s)))
    <2>1. \A count, mode, on : Quiet(Loop(count, mode, on, own, s))
      BY <1>6, <1>7
    <2> QED BY <2>1, LoopTerms
  <1> QED BY <1>1, <1>2, <1>3, <1>4, <1>5, <1>7, Zenon

LEMMA QuietAlternatives ==
  /\ \A a, b : Quiet(a) /\ Quiet(b) => Quiet(Alt(<<a, b>>))
  /\ \A a, b, c : Quiet(a) /\ Quiet(b) /\ Quiet(c) => Quiet(Alt(<<a, b, c>>))
  /\ \A a, b, c, d : Quiet(a) /\ Quiet(b) /\ Quiet(c) /\ Quiet(d) => Quiet(Alt(<<a, b, c, d>>))
  /\ \A a, b, c, d, e : Quiet(a) /\ Quiet(b) /\ Quiet(c) /\ Quiet(d) /\ Quiet(e)
        => Quiet(Alt(<<a, b, c, d, e>>))
  BY AltRules, Zenon DEF Quiet

\* The parsers of the answers to actions.
LEMMA QuietActions ==
  /\ Quiet(parseSimpleResponse) /\ Quiet(parsePlaceOrder) /\ Quiet(parseModifyOrder)
  /\ Quiet(parseCancelOrder) /\ Quiet(parseTwapOrder) /\ Quiet(parseTwapCancel)
  /\ Quiet(parseCreateSubAccount) /\ Quiet(parseCreateVault)
  <1>1. Quiet(parseSimpleResponse)
    BY QuietRules, NamesAreSeqs, Zenon DEF parseSimpleResponse
  <1>2. Quiet(orderStatuses)
    BY QuietRules, NamesAreSeqs, Zenon DEF orderStatuses, orderStatus
  <1>3. Quiet(parsePlaceOrder) /\ Quiet(parseModifyOrder)
    BY <1>2, QuietRules, NamesAreSeqs, Zenon DEF parsePlaceOrder, parseModifyOrder
  <1>4. Quiet(parseCancelOrder)
    BY QuietRules, QuietAlternatives, NamesAreSeqs, Zenon DEF parseCancelOrder
  <1>5. Quiet(parseTwapOrder) /\ Quiet(parseTwapCancel)
    BY QuietRules, QuietAlternatives, NamesAreSeqs, Zenon DEF parseTwapOrder, parseTwapCancel
  <1>6. Quiet(parseCreateSubAccount) /\ Quiet(parseCreateVault)
    BY QuietRules, NamesAreSeqs, Zenon DEF parseCreateSubAccount, parseCreateVault
  <1> QED BY <1>1, <1>3, <1>4, <1>5, <1>6

LEMMA QuietLedgerDelta == Quiet(crackLedgerDelta)
  <1> DEFINE transfer == Decimal(<<"usdc">>) \o Plain(<<"user", "destination">>)
             a == Decimal(<<"usdc">>)
             b == Decimal(<<"usdc">>) \o Plain(<<"nonce">>) \o Decimal(<<"fee">>)
             c == transfer \o Decimal(<<"fee">>)
             d == Decimal(<<"accountValue">>) \o Plain(<<"leverageType">>)
                  \o Soft(Each(LiquidatedPosition, Plain(<<"coin">>) \o Decimal(<<"szi">>)))
             e == Plain(<<"vault">>) \o Decimal(<<"usdc">>)
             f == Plain(<<"vault", "user">>)
                  \o Decimal(<<"requestedUsd", "commission", "closingCost", "basis",
                               "netWithdrawnUsd">>)
             g == Plain(<<"user">>) \o Decimal(<<"usdc">>)
             h == Plain(<<"token">>) \o Decimal(<<"amount", "usdcValue">>)
                  \o Plain(<<"user", "destination">>) \o Decimal(<<"fee">>)
             i == Plain(<<"user", "destination", "sourceDex", "destinationDex", "token">>)
                  \o Decimal(<<"amount", "usdcValue", "fee", "nativeTokenFee">>)
                  \o Plain(<<"nonce", "feeToken">>)
             j == Decimal(<<"usdc">>) \o Plain(<<"toPerp">>)
             k == Plain(<<"token">>) \o Decimal(<<"amount">>)
             l == Decimal(<<"amount">>)
             S == {a, b, c, transfer, d, e, f, g, h, i, j, k, l, <<>>}
  <1>1. Quiet(transfer) /\ Quiet(a) /\ Quiet(b)
    BY QuietRules, NamesAreSeqs, Zenon
  <1>2. Quiet(c) /\ Quiet(d) /\ Quiet(e) /\ Quiet(f)
    BY QuietRules, NamesAreSeqs, Zenon
  <1>3. Quiet(g) /\ Quiet(h) /\ Quiet(i)
    BY QuietRules, NamesAreSeqs, Zenon
  <1>4. Quiet(j) /\ Quiet(k) /\ Quiet(l) /\ Quiet(<<>>)
    BY QuietRules, NamesAreSeqs, Zenon
  <1>5. crackLedgerDelta =
          Plain(<<"type">>) \o Alt(<<a, b, c, transfer, d, e, f, g, h, i, j, k, l, <<>>>>)
    BY DEF crackLedgerDelta
  <1> HIDE DEF transfer, a, b, c, d, e, f, g, h, i, j, k, l
  <1>6. \A s \in S : Quiet(s)
    BY <1>1, <1>2, <1>3, <1>4, Zenon
  <1>7. <<a, b, c, transfer, d, e, f, g, h, i, j, k, l, <<>>>> \in Seq(S)
    OBVIOUS
  <1> HIDE DEF S
  <1>8. Quiet(Alt(<<a, b, c, transfer, d, e, f, g, h, i, j, k, l, <<>>>>))
    BY <1>6, <1>7, AltObeys, Zenon DEF Quiet
  <1>9. Quiet(Plain(<<"type">>))
    BY QuietRules, NamesAreSeqs, Zenon
  <1> QED BY <1>5, <1>8, <1>9, QuietRules, Zenon

\* The stream parsers convert with std::from_chars, all but the one that reads
\* an expiry.
LEMMA QuietStreams ==
  \A channel \in DOMAIN crack \ {"outcomeMetaUpdates"} : Quiet(crack[channel])
  <1>1. Quiet(Data)
    BY QuietRules, NamesAreSeqs, Zenon DEF Data
  <1>2. Quiet(crackL2Book) /\ Quiet(crackBbo)
    BY QuietRules, QuietAlternatives, NamesAreSeqs, Zenon DEF crackL2Book, crackBbo
  <1>3. Quiet(crackTrades) /\ Quiet(crackCandles) /\ Quiet(crackAllMids)
    BY QuietRules, NamesAreSeqs, Zenon DEF crackTrades, users, crackCandles, crackAllMids
  <1>4. Quiet(perpCtx)
    BY QuietRules, NamesAreSeqs, Zenon DEF perpCtx
  <1>5. Quiet(crackActiveAssetCtx)
    BY <1>4, QuietRules, QuietAlternatives, NamesAreSeqs, Zenon DEF crackActiveAssetCtx
  <1>6. Quiet(crackAllDexsAssetCtxs) /\ Quiet(crackFastAssetCtxs)
    BY <1>4, QuietRules, NamesAreSeqs, Zenon DEF crackAllDexsAssetCtxs, crackFastAssetCtxs
  <1>7. Quiet(parseFillObject) /\ Quiet(parseOrder)
    BY QuietRules, NamesAreSeqs, Zenon DEF parseFillObject, parseOrder
  <1>8. Quiet(crackOrderUpdates) /\ Quiet(crackUserFills)
    BY <1>7, QuietRules, NamesAreSeqs, Zenon DEF crackOrderUpdates, crackUserFills
  <1>9. Quiet(funding) /\ Quiet(crackUserFundings)
    BY QuietRules, NamesAreSeqs, Zenon DEF funding, crackUserFundings
  <1>10. Quiet(crackUserEvents)
    BY <1>7, <1>9, QuietRules, QuietAlternatives, NamesAreSeqs, Zenon DEF crackUserEvents
  <1>11. Quiet(crackSubscriptionResponse) /\ Quiet(crackUserNonFundingLedgerUpdates)
    BY QuietLedgerDelta, QuietRules, NamesAreSeqs, Zenon
       DEF crackSubscriptionResponse, crackUserNonFundingLedgerUpdates
  <1>12. Quiet(crackWebData3)
    BY QuietRules, QuietAlternatives, NamesAreSeqs, Zenon DEF crackWebData3
  <1>13. Quiet(crackInnerClearinghouseState)
    BY QuietRules, QuietAlternatives, NamesAreSeqs, Zenon DEF crackInnerClearinghouseState
  <1>14. Quiet(crackClearinghouseState) /\ Quiet(crackAllDexsClearinghouseState)
    BY <1>13, QuietRules, QuietAlternatives, NamesAreSeqs, Zenon
       DEF crackClearinghouseState, crackAllDexsClearinghouseState
  <1>15. Quiet(crackOpenOrders) /\ Quiet(crackNotification) /\ Quiet(crackUserTwapSliceFills)
    BY <1>7, QuietRules, NamesAreSeqs, Zenon
       DEF crackOpenOrders, crackNotification, crackUserTwapSliceFills
  <1>16. Quiet(crackTwapState)
    BY QuietRules, NamesAreSeqs, Zenon DEF crackTwapState
  <1>17. Quiet(crackTwapStates) /\ Quiet(crackUserTwapHistory)
    BY <1>16, QuietRules, QuietAlternatives, NamesAreSeqs, Zenon
       DEF crackTwapStates, crackUserTwapHistory
  <1>18. Quiet(crackActiveAssetData) /\ Quiet(crackSpotState)
    BY QuietRules, QuietAlternatives, NamesAreSeqs, Zenon
       DEF crackActiveAssetData, crackSpotState
  <1>19. \A s : Quiet(s) => Quiet(Data \o s)
    BY <1>1, QuietRules, Zenon
  <1>20. \A channel \in DOMAIN marketBranches : Quiet(marketBranches[channel])
    BY <1>2, <1>3, <1>5, <1>8, <1>9, <1>10, <1>11, <1>19, MarketBranches
  <1>21. \A channel \in DOMAIN accountBranches \ {"outcomeMetaUpdates"} :
            Quiet(accountBranches[channel])
    BY <1>6, <1>11, <1>12, <1>14, <1>15, <1>17, <1>18, <1>19, AccountBranches
  <1> QED BY <1>20, <1>21 DEF crack

-----------------------------------------------------------------------------
(* The stack: what one step of the reading does to it. *)

IsStack(fs) == \E F : fs \in Seq(F) /\ \A f \in F : DOMAIN f = FrameMembers

\* What is left of a look-up h and the steps r after it.
LeftOf(h, r) == IF Len(h.names) > 1 THEN <<[h EXCEPT !.names = Tail(@)]>> \o r ELSE r

SameObject(f, g) == g.on = f.on /\ g.index = f.index /\ g.holes = f.holes

\* The frame f became g by a step that opens no loop and enters none.
Advance(f, g) ==
    LET h == Head(f.steps)
        r == Tail(f.steps)
    IN  /\ f.steps # <<>> /\ SameObject(f, g)
        /\ \/ h.op = "field" /\ g.steps = LeftOf(h, r) /\ g.unset = f.unset \ {Head(h.names)}
           \/ /\ h.op = "field" /\ g.steps = LeftOf(h, r) /\ g.unset = f.unset
              /\ h.mode \notin {"required", "element"}
           \/ h.op \in {"each", "entries"} /\ g.steps = r /\ g.unset = f.unset
           \/ h.op = "status" /\ g.steps \in {r, h.otherwise} /\ g.unset = f.unset
           \/ h.op = "declare" /\ g.steps = r /\ g.unset = f.unset \cup h.members
           \/ h.op = "assign" /\ g.steps = r /\ g.unset = f.unset \ h.members
           \/ h.op = "return" /\ g.steps = <<>> /\ g.unset = f.unset
           \/ /\ h.op = "alt" /\ g.unset = f.unset
              /\ \E i \in DOMAIN h.alternatives : g.steps = h.alternatives[i] \o r

\* It found an array.
Opens(f, g) ==
    LET h == Head(f.steps)
    IN  /\ f.steps # <<>> /\ h.op = "each" /\ SameObject(f, g) /\ g.unset = f.unset
        /\ g.steps = <<Entries(h, 0)>> \o Tail(f.steps)

\* It entered the next entry, e.
Enters(f, g, e) ==
    LET h == Head(f.steps)
    IN  /\ f.steps # <<>> /\ h.op = "entries" /\ SameObject(f, g) /\ g.unset = f.unset
        /\ h.count = "one" => h.taken < 1
        /\ g.steps = <<[h EXCEPT !.taken = h.taken + 1]>> \o Tail(f.steps)
        /\ e = Frame(h.on, h.taken + 1, h.own, h.steps)

Same(k) == \A i \in 1 .. k : frames'[i] = frames[i]

ToAdvance ==
    /\ Len(frames') = Len(frames) /\ Same(Len(frames) - 1)
    /\ Advance(frames[Len(frames)], frames'[Len(frames)])
    /\ UNCHANGED <<lists, result>>

ToOpen ==
    /\ Len(frames') = Len(frames) /\ Same(Len(frames) - 1)
    /\ Opens(frames[Len(frames)], frames'[Len(frames)])
    /\ lists' = IF Len(frames) = 1 THEN Append(lists, <<>>) ELSE lists
    /\ UNCHANGED result

ToEnter ==
    /\ Len(frames') = Len(frames) + 1 /\ Same(Len(frames) - 1)
    /\ Enters(frames[Len(frames)], frames'[Len(frames)], frames'[Len(frames) + 1])
    /\ UNCHANGED <<lists, result>>

\* An entry is complete.
ToTake ==
    LET f == frames[Len(frames)]
        g == frames[Len(frames) - 1]
        h == frames'[Len(frames) - 1]
    IN  /\ Len(frames) > 1 /\ f.steps = <<>>
        /\ Len(frames') = Len(frames) - 1 /\ Same(Len(frames) - 2)
        /\ h.on = g.on /\ h.index = g.index /\ h.unset = g.unset /\ h.steps = g.steps
        /\ h.holes = g.holes \cup f.unset \cup f.holes
        /\ lists' = IF Len(frames) = 2
                    THEN Append(Front(lists), Append(Last(lists), f.index)) ELSE lists
        /\ UNCHANGED result

ToSkip ==
    LET f == frames[Len(frames)]
    IN  /\ f.steps # <<>> /\ Head(f.steps).op \in {"field", "each"}
        /\ Head(f.steps).mode = "element"
        /\ Len(frames') = Len(frames) - 1 /\ Same(Len(frames) - 1)
        /\ UNCHANGED <<lists, result>>

ToDrop ==
    \E c \in 1 .. Len(frames) :
        /\ frames[c].on = "drop"
        /\ Len(frames') = c - 1 /\ Same(c - 1)
        /\ UNCHANGED <<lists, result>>

ToKeep ==
    \E c \in 1 .. Len(frames) :
        /\ frames[c].on = "keep"
        /\ Len(frames') = c /\ Same(c - 1)
        /\ SameObject(frames[c], frames'[c]) /\ frames'[c].unset = frames[c].unset
        /\ frames'[c].steps = <<>>
        /\ UNCHANGED <<lists, result>>

ToEnd ==
    /\ frames' = <<>> /\ lists' = <<>>
    /\ result'.lists = lists
    /\ result'.holes = frames[1].unset \cup frames[1].holes
    /\ result'.cut \in BOOLEAN
    /\ result'.end = "thrown" =>
         LET h == Head(frames[Len(frames)].steps)
         IN  /\ frames[Len(frames)].steps # <<>> /\ h.op = "field"
             /\ h.conv \notin {"none", "from_chars"}
    /\ result'.cut /\ result'.end # "thrown" =>
         /\ \A i \in 1 .. Len(frames) : frames[i].on \notin Catching
         /\ \E i \in 1 .. Len(frames) - 1 : Head(frames[i].steps).count = "many"

Shapes ==
    \/ ToAdvance \/ ToOpen \/ ToEnter \/ ToTake \/ ToSkip \/ ToDrop \/ ToKeep \/ ToEnd

\* Least numbers exist, and so do greatest ones of bounded sets.
LEMMA LeastNat == ASSUME NEW T, T \subseteq Nat, T # {} PROVE \E x \in T : \A y \in T : x <= y
  <1> DEFINE R == OpToRel(<, Nat)
  <1>1. \A x, y \in Nat : y < x => <<y, x>> \in R
    BY DEF OpToRel
  <1>2. IsWellFoundedOn(R, Nat)
    BY NatLessThanWellFounded, Zenon
  <1> HIDE DEF R
  <1>3. PICK x \in T : \A y \in T : ~ (<<y, x>> \in R)
    BY <1>2, WFMin, Zenon
  <1>4. \A y \in T : y \in Nat /\ x \in Nat /\ ~(y < x)
    BY <1>1, <1>3
  <1>5. \A y \in T : x <= y
    BY <1>4
  <1> QED BY <1>5

LEMMA MaxOf ==
  ASSUME NEW n \in Nat, NEW S, S \subseteq (0 .. n), S # {}
  PROVE  Max(S) \in S /\ \A i \in S : i <= Max(S)
  <1> DEFINE T == {n - i : i \in S}
  <1>1. \A i \in S : n - i \in Nat
    OBVIOUS
  <1>2. T \subseteq Nat
    BY <1>1
  <1>3. T # {}
    <2>1. PICK i \in S : TRUE
      OBVIOUS
    <2>2. n - i \in T
      OBVIOUS
    <2> QED BY <2>2
  <1>4. PICK x \in T : \A y \in T : x <= y
    <2> HIDE DEF T
    <2> QED BY <1>2, <1>3, LeastNat
  <1>5. PICK m \in S : x = n - m
    OBVIOUS
  <1>6. \A i \in S : n - m <= n - i
    BY <1>4, <1>5
  <1>7. \A i \in S : m >= i
    BY <1>6
  <1> QED BY <1>7 DEF Max

LEMMA CatcherIs ==
  ASSUME IsStack(frames)
  PROVE  /\ Catcher \in 0 .. Len(frames)
         /\ Catcher # 0 => frames[Catcher].on \in Catching
         /\ Catcher = 0 => \A i \in 1 .. Len(frames) : frames[i].on \notin Catching
  <1>1. PICK F : frames \in Seq(F)
    BY DEF IsStack
  <1>2. Len(frames) \in Nat /\ DOMAIN frames = 1 .. Len(frames)
    BY <1>1
  <1> DEFINE C == {i \in DOMAIN frames : frames[i].on \in Catching}
             S == {0} \cup C
  <1>3. Catcher = Max(S)
    BY DEF Catcher, Catching
  <1>4. S \subseteq (0 .. Len(frames)) /\ S # {}
    BY <1>2
  <1>5. Max(S) \in S /\ \A i \in S : i <= Max(S)
    <2> HIDE DEF S
    <2> QED BY <1>2, <1>4, MaxOf
  <1> HIDE DEF S
  <1>6. Catcher \in S /\ (Catcher = 0 => \A i \in S : i <= 0)
    BY <1>3, <1>5
  <1> QED BY <1>2, <1>4, <1>6 DEF S

LEMMA GoesOn ==
  ASSUME IsStack(frames), frames # <<>>,
         NEW frame, DOMAIN frame = FrameMembers, NEW steps, GoOn(frame, steps)
  PROVE  /\ IsStack(frames') /\ Len(frames') = Len(frames) /\ Same(Len(frames) - 1)
         /\ SameObject(frame, frames'[Len(frames)])
         /\ frames'[Len(frames)].unset = frame.unset
         /\ frames'[Len(frames)].steps = steps
  <1>1. PICK F : frames \in Seq(F) /\ \A f \in F : DOMAIN f = FrameMembers
    BY DEF IsStack
  <1>2. PICK g : g = [frame EXCEPT !.steps = steps]
    OBVIOUS
  <1>3. DOMAIN g = FrameMembers /\ SameObject(frame, g) /\ g.unset = frame.unset
        /\ g.steps = steps
    BY <1>2 DEF FrameMembers, SameObject
  <1>4. frames' = [frames EXCEPT ![Len(frames)] = g]
    BY <1>2 DEF GoOn
  <1>5. frames \in Seq(F \cup {g}) /\ Len(frames) \in Nat /\ Len(frames) > 0
    BY <1>1
  <1>6. /\ frames' \in Seq(F \cup {g}) /\ Len(frames') = Len(frames)
        /\ \A i \in 1 .. Len(frames) - 1 : frames'[i] = frames[i]
        /\ frames'[Len(frames)] = g
    BY <1>4, <1>5
  <1>7. \A f \in F \cup {g} : DOMAIN f = FrameMembers
    BY <1>1, <1>3
  <1>8. IsStack(frames')
    BY <1>6, <1>7 DEF IsStack
  <1> QED BY <1>3, <1>6, <1>8 DEF Same

\* The innermost frame.
LEMMA TopFrame ==
  ASSUME IsStack(frames), frames # <<>>
  PROVE  /\ Len(frames) \in Nat /\ Len(frames) > 0
         /\ Top = frames[Len(frames)] /\ DOMAIN Top = FrameMembers
  <1>1. PICK F : frames \in Seq(F) /\ \A f \in F : DOMAIN f = FrameMembers
    BY DEF IsStack
  <1>2. Len(frames) \in Nat /\ Len(frames) > 0 /\ frames[Len(frames)] \in F
    BY <1>1
  <1> QED BY <1>1, <1>2 DEF Top

\* The outer frames alone.
LEMMA OuterFrames ==
  ASSUME IsStack(frames), NEW k \in 0 .. Len(frames), NEW fs, fs = SubSeq(frames, 1, k)
  PROVE  IsStack(fs) /\ Len(fs) = k /\ \A i \in 1 .. k : fs[i] = frames[i]
  <1>1. PICK F : frames \in Seq(F) /\ \A f \in F : DOMAIN f = FrameMembers
    BY DEF IsStack
  <1>2. fs \in Seq(F) /\ Len(fs) = k /\ \A i \in 1 .. k : fs[i] = frames[i]
    BY <1>1
  <1> QED BY <1>1, <1>2 DEF IsStack

LEMMA FinishShape ==
  ASSUME NEW end, NEW cut, Finish(end, cut), frames # <<>>
  PROVE  /\ frames' = <<>> /\ lists' = <<>> /\ IsStack(frames')
         /\ result'.lists = lists /\ result'.end = end /\ result'.cut = cut
         /\ result'.holes = frames[1].unset \cup frames[1].holes
  <1>1. PICK F : F = {}
    OBVIOUS
  <1>2. <<>> \in Seq(F) /\ \A f \in F : DOMAIN f = FrameMembers
    BY <1>1
  <1>3. IsStack(<<>>)
    BY <1>2, Zenon DEF IsStack
  <1> QED BY <1>3 DEF Finish

LEMMA RaiseShape ==
  ASSUME IsStack(frames), frames # <<>>, Raise
  PROVE  IsStack(frames') /\ (ToDrop \/ ToKeep \/ ToEnd)
  <1>1. PICK c : c = Catcher
    OBVIOUS
  <1>2. /\ c \in 0 .. Len(frames)
        /\ c # 0 => frames[c].on \in Catching
        /\ c = 0 => \A i \in 1 .. Len(frames) : frames[i].on \notin Catching
    BY <1>1, CatcherIs
  <1>3. Len(frames) \in Nat /\ DOMAIN frames = 1 .. Len(frames)
    <2>1. PICK F : frames \in Seq(F)
      BY DEF IsStack
    <2> QED BY <2>1
  <1>4. CASE c = 0
    <2>1. Finish("error", CutsList)
      BY <1>1, <1>4 DEF Raise
    <2>2. /\ frames' = <<>> /\ lists' = <<>> /\ IsStack(frames')
          /\ result'.lists = lists /\ result'.end = "error" /\ result'.cut = CutsList
          /\ result'.holes = frames[1].unset \cup frames[1].holes
      BY <2>1, FinishShape
    <2>3. CutsList \in BOOLEAN
      BY DEF CutsList
    <2>4. CutsList => \E i \in 1 .. Len(frames) - 1 : Head(frames[i].steps).count = "many"
      BY <1>3 DEF CutsList
    <2> QED BY <1>2, <1>4, <2>2, <2>3, <2>4 DEF ToEnd
  <1>5. CASE c # 0
    <2>1. c \in 1 .. Len(frames) /\ c - 1 \in 0 .. Len(frames)
      BY <1>2, <1>3, <1>5
    <2>2. /\ frames' = IF frames[c].on = "drop" THEN SubSeq(frames, 1, c - 1)
                       ELSE Append(SubSeq(frames, 1, c - 1), [frames[c] EXCEPT !.steps = <<>>])
          /\ UNCHANGED <<lists, result>>
      BY <1>1, <1>5 DEF Raise
    <2>3. PICK fs : fs = SubSeq(frames, 1, c - 1)
      OBVIOUS
    <2>4. IsStack(fs) /\ Len(fs) = c - 1 /\ \A i \in 1 .. c - 1 : fs[i] = frames[i]
      BY <2>1, <2>3, OuterFrames
    <2>5. CASE frames[c].on = "drop"
      BY <2>1, <2>2, <2>3, <2>4, <2>5 DEF ToDrop, Same
    <2>6. CASE frames[c].on # "drop"
      <3>1. frames[c].on = "keep"
        BY <1>2, <1>5, <2>6 DEF Catching
      <3>2. PICK g : g = [frames[c] EXCEPT !.steps = <<>>]
        OBVIOUS
      <3>3. DOMAIN frames[c] = FrameMembers
        <4>1. PICK F : frames \in Seq(F) /\ \A f \in F : DOMAIN f = FrameMembers
          BY DEF IsStack
        <4> QED BY <2>1, <4>1
      <3>4. /\ DOMAIN g = FrameMembers /\ SameObject(frames[c], g)
            /\ g.unset = frames[c].unset /\ g.steps = <<>>
        BY <3>2, <3>3 DEF FrameMembers, SameObject
      <3>5. frames' = Append(fs, g)
        BY <2>2, <2>3, <2>6, <3>2
      <3>6. /\ IsStack(frames') /\ Len(frames') = Len(fs) + 1 /\ frames'[Len(fs) + 1] = g
            /\ \A i \in 1 .. Len(fs) : frames'[i] = fs[i]
        <4>1. PICK F : fs \in Seq(F) /\ \A f \in F : DOMAIN f = FrameMembers
          BY <2>4 DEF IsStack
        <4>2. fs \in Seq(F \cup {g})
          BY <4>1
        <4>3. /\ frames' \in Seq(F \cup {g}) /\ Len(frames') = Len(fs) + 1
              /\ frames'[Len(fs) + 1] = g /\ \A i \in 1 .. Len(fs) : frames'[i] = fs[i]
          BY <3>5, <4>2
        <4>4. \A f \in F \cup {g} : DOMAIN f = FrameMembers
          BY <3>4, <4>1
        <4> QED BY <4>3, <4>4 DEF IsStack
      <3>7. Len(frames') = c /\ frames'[c] = g /\ \A i \in 1 .. c - 1 : frames'[i] = frames[i]
        BY <2>1, <2>4, <3>6
      <3> QED BY <2>1, <2>2, <3>1, <3>4, <3>6, <3>7 DEF ToKeep, Same
    <2> QED BY <2>5, <2>6
  <1> QED BY <1>4, <1>5

LEMMA OutcomeIs ==
  ASSUME NEW h, NEW found \in FoundBy(h)
  PROVE  /\ Outcome(h, found) = "absent" => h.mode \notin {"required", "element"}
         /\ Outcome(h, found) = "skipped" => h.mode = "element"
         /\ Outcome(h, found) = "thrown" => h.op = "field" /\ h.conv \notin {"none", "from_chars"}
  <1>1. /\ Tolerated["required"] = {} /\ Tolerated["element"] = {}
        /\ Conversion(h.conv) = IF h.conv = "from_chars" THEN "assigned" ELSE "thrown"
    BY DEF Tolerated, Conversion
  <1>2. found = "notNumber" => h.op = "field" /\ h.conv # "none"
    BY DEF FoundBy, Found
  <1>3. Outcome(h, found) =
          CASE found = "good" -> "assigned"
            [] found = "notNumber" -> Conversion(h.conv)
            [] found \in Tolerated[h.mode] -> "absent"
            [] found = "missing" /\ h.mode = "element" -> "skipped"
            [] OTHER -> "error"
    BY DEF Outcome
  <1>4. found \in {"good", "missing", "null", "otherType", "notNumber"}
    BY DEF FoundBy, Found
  <1> QED BY <1>1, <1>2, <1>3, <1>4

LEMMA LookUpShape ==
  ASSUME IsStack(frames), LookUp
  PROVE  IsStack(frames') /\ Shapes
  <1>1. frames # <<>> /\ Top.steps # <<>> /\ Step.op \in {"field", "each"}
    BY DEF LookUp, Reading, Step
  <1>2. /\ Len(frames) \in Nat /\ Len(frames) > 0
        /\ Top = frames[Len(frames)] /\ DOMAIN Top = FrameMembers
    BY <1>1, TopFrame
  <1>3. PICK after : after = IF Step.op = "field" /\ Len(Step.names) > 1
                             THEN <<[Step EXCEPT !.names = Tail(@)]>> \o Rest ELSE Rest
    OBVIOUS
  <1>4. PICK found \in FoundBy(Step) :
          \/ /\ Outcome(Step, found) = "assigned" /\ Step.op = "field"
             /\ GoOn([Top EXCEPT !.unset = @ \ {Head(Step.names)}], after)
             /\ UNCHANGED <<lists, result>>
          \/ /\ Outcome(Step, found) = "assigned" /\ Step.op # "field"
             /\ GoOn(Top, Opened \o Rest)
             /\ lists' = IF Len(frames) = 1 THEN Append(lists, <<>>) ELSE lists
             /\ UNCHANGED result
          \/ Outcome(Step, found) = "absent" /\ GoOn(Top, after) /\ UNCHANGED <<lists, result>>
          \/ /\ Outcome(Step, found) = "skipped" /\ frames' = Front(frames)
             /\ UNCHANGED <<lists, result>>
          \/ Raise
          \/ Outcome(Step, found) = "thrown" /\ Throw
    BY <1>3 DEF LookUp
  <1>5. /\ Outcome(Step, found) = "absent" => Step.mode \notin {"required", "element"}
        /\ Outcome(Step, found) = "skipped" => Step.mode = "element"
        /\ Outcome(Step, found) = "thrown" =>
              Step.op = "field" /\ Step.conv \notin {"none", "from_chars"}
    BY <1>4, OutcomeIs, Zenon
  <1>6. Step.op = "field" => after = LeftOf(Step, Rest)
    BY <1>3 DEF LeftOf
  <1>7. Step.op # "field" => after = Rest
    BY <1>3
  <1>8. CASE /\ Step.op = "field" /\ UNCHANGED <<lists, result>>
             /\ GoOn([Top EXCEPT !.unset = @ \ {Head(Step.names)}], after)
    <2>1. PICK frame : frame = [Top EXCEPT !.unset = @ \ {Head(Step.names)}]
      OBVIOUS
    <2>2. /\ DOMAIN frame = FrameMembers /\ SameObject(Top, frame)
          /\ frame.unset = Top.unset \ {Head(Step.names)}
      BY <1>2, <2>1 DEF FrameMembers, SameObject
    <2>3. GoOn(frame, after)
      BY <1>8, <2>1
    <2>4. /\ IsStack(frames') /\ Len(frames') = Len(frames) /\ Same(Len(frames) - 1)
          /\ SameObject(frame, frames'[Len(frames)])
          /\ frames'[Len(frames)].unset = frame.unset
          /\ frames'[Len(frames)].steps = after
      BY <1>1, <2>2, <2>3, GoesOn
    <2>5. SameObject(Top, frames'[Len(frames)])
      BY <2>2, <2>4 DEF SameObject
    <2>6. Advance(frames[Len(frames)], frames'[Len(frames)])
      BY <1>1, <1>2, <1>6, <1>8, <2>2, <2>4, <2>5 DEF Advance, Step, Rest
    <2> QED BY <1>8, <2>4, <2>6 DEF Shapes, ToAdvance
  <1>9. CASE /\ Step.op # "field" /\ GoOn(Top, Opened \o Rest)
             /\ lists' = IF Len(frames) = 1 THEN Append(lists, <<>>) ELSE lists
             /\ UNCHANGED result
    <2>1. /\ IsStack(frames') /\ Len(frames') = Len(frames) /\ Same(Len(frames) - 1)
          /\ SameObject(Top, frames'[Len(frames)])
          /\ frames'[Len(frames)].unset = Top.unset
          /\ frames'[Len(frames)].steps = Opened \o Rest
      BY <1>1, <1>2, <1>9, GoesOn
    <2>2. Opened = <<Entries(Step, 0)>>
      BY DEF Opened, Entries
    <2>3. Opens(frames[Len(frames)], frames'[Len(frames)])
      BY <1>1, <1>2, <1>9, <2>1, <2>2 DEF Opens, Step, Rest
    <2> QED BY <1>9, <2>1, <2>3 DEF Shapes, ToOpen
  <1>10. CASE /\ Outcome(Step, found) = "absent" /\ GoOn(Top, after)
              /\ UNCHANGED <<lists, result>>
    <2>1. /\ IsStack(frames') /\ Len(frames') = Len(frames) /\ Same(Len(frames) - 1)
          /\ SameObject(Top, frames'[Len(frames)])
          /\ frames'[Len(frames)].unset = Top.unset
          /\ frames'[Len(frames)].steps = after
      BY <1>1, <1>2, <1>10, GoesOn
    <2>2. Advance(frames[Len(frames)], frames'[Len(frames)])
      BY <1>1, <1>2, <1>5, <1>6, <1>7, <1>10, <2>1 DEF Advance, Step, Rest
    <2> QED BY <1>10, <2>1, <2>2 DEF Shapes, ToAdvance
  <1>11. CASE /\ Outcome(Step, found) = "skipped" /\ frames' = Front(frames)
              /\ UNCHANGED <<lists, result>>
    <2>1. Len(frames) - 1 \in 0 .. Len(frames) /\ frames' = SubSeq(frames, 1, Len(frames) - 1)
      BY <1>2, <1>11 DEF Front
    <2>2. /\ IsStack(frames') /\ Len(frames') = Len(frames) - 1
          /\ \A i \in 1 .. Len(frames) - 1 : frames'[i] = frames[i]
      BY <2>1, OuterFrames, Zenon
    <2>3. ToSkip
      BY <1>1, <1>2, <1>5, <1>11, <2>2 DEF ToSkip, Same, Step
    <2> QED BY <2>2, <2>3 DEF Shapes
  <1>12. CASE Raise
    BY <1>1, <1>12, RaiseShape DEF Shapes
  <1>13. CASE Outcome(Step, found) = "thrown" /\ Throw
    <2>1. Finish("thrown", CutsList) /\ CutsList \in BOOLEAN
      BY <1>13 DEF Throw, CutsList
    <2>2. /\ frames' = <<>> /\ lists' = <<>> /\ IsStack(frames')
          /\ result'.lists = lists /\ result'.end = "thrown" /\ result'.cut \in BOOLEAN
          /\ result'.holes = frames[1].unset \cup frames[1].holes
      BY <1>1, <2>1, FinishShape
    <2>3. ToEnd
      BY <1>1, <1>2, <1>5, <1>13, <2>2 DEF ToEnd, Step
    <2> QED BY <2>2, <2>3 DEF Shapes
  <1> QED BY <1>4, <1>8, <1>9, <1>10, <1>11, <1>12, <1>13

LEMMA StatusShape ==
  ASSUME IsStack(frames), ReadStatus
  PROVE  IsStack(frames') /\ Shapes
  <1>1. frames # <<>> /\ Top.steps # <<>> /\ Step.op = "status"
    BY DEF ReadStatus, Reading, Step
  <1>2. /\ Len(frames) \in Nat /\ Len(frames) > 0
        /\ Top = frames[Len(frames)] /\ DOMAIN Top = FrameMembers
    BY <1>1, TopFrame
  <1>3. CASE Raise
    BY <1>1, <1>3, RaiseShape DEF Shapes
  <1>4. CASE ~Raise
    <2>1. PICK steps \in {Rest, Step.otherwise} : GoOn(Top, steps) /\ UNCHANGED <<lists, result>>
      BY <1>4 DEF ReadStatus
    <2>2. /\ IsStack(frames') /\ Len(frames') = Len(frames) /\ Same(Len(frames) - 1)
          /\ SameObject(Top, frames'[Len(frames)])
          /\ frames'[Len(frames)].unset = Top.unset
          /\ frames'[Len(frames)].steps = steps
      BY <1>1, <1>2, <2>1, GoesOn
    <2>3. Advance(frames[Len(frames)], frames'[Len(frames)])
      BY <1>1, <1>2, <2>1, <2>2 DEF Advance, Step, Rest
    <2> QED BY <2>1, <2>2, <2>3 DEF Shapes, ToAdvance
  <1> QED BY <1>3, <1>4

LEMMA NextEntryShape ==
  ASSUME IsStack(frames), NextEntry
  PROVE  IsStack(frames') /\ Shapes
  <1>1. frames # <<>> /\ Top.steps # <<>> /\ Step.op = "entries"
    BY DEF NextEntry, Reading, Step
  <1>2. /\ Len(frames) \in Nat /\ Len(frames) > 0
        /\ Top = frames[Len(frames)] /\ DOMAIN Top = FrameMembers
    BY <1>1, TopFrame
  <1>3. PICK F : frames \in Seq(F) /\ \A f \in F : DOMAIN f = FrameMembers
    BY DEF IsStack
  <1>4. PICK steps : steps = <<[Step EXCEPT !.taken = Step.taken + 1]>> \o Rest
    OBVIOUS
  <1>5. PICK g : g = [Top EXCEPT !.steps = steps]
    OBVIOUS
  <1>6. /\ DOMAIN g = FrameMembers /\ SameObject(Top, g) /\ g.unset = Top.unset
        /\ g.steps = steps
    BY <1>2, <1>5 DEF FrameMembers, SameObject
  <1>7. PICK e : e = Frame(Step.on, Step.taken + 1, Step.own, Step.steps)
    OBVIOUS
  <1>8. DOMAIN e = FrameMembers
    BY <1>7 DEF Frame, FrameMembers
  <1>9. frames' = Append([frames EXCEPT ![Len(frames)] = g], e) /\ UNCHANGED <<lists, result>>
    <2>1. frames' = Append([frames EXCEPT ![Len(frames)].steps = steps], e)
          /\ UNCHANGED <<lists, result>>
      BY <1>4, <1>7 DEF NextEntry
    <2>2. [frames EXCEPT ![Len(frames)].steps = steps] = [frames EXCEPT ![Len(frames)] = g]
      BY <1>2, <1>5
    <2> QED BY <2>1, <2>2
  <1>10. frames \in Seq(F \cup {g, e})
    BY <1>3
  <1>11. PICK fs : fs = [frames EXCEPT ![Len(frames)] = g]
    OBVIOUS
  <1>12. /\ fs \in Seq(F \cup {g, e}) /\ Len(fs) = Len(frames) /\ fs[Len(frames)] = g
         /\ \A i \in 1 .. Len(frames) - 1 : fs[i] = frames[i]
    BY <1>2, <1>10, <1>11
  <1>13. /\ frames' \in Seq(F \cup {g, e}) /\ Len(frames') = Len(frames) + 1
         /\ frames'[Len(frames) + 1] = e /\ frames'[Len(frames)] = g
         /\ \A i \in 1 .. Len(frames) - 1 : frames'[i] = frames[i]
    <2>1. frames' = Append(fs, e)
      BY <1>9, <1>11
    <2>2. /\ frames' \in Seq(F \cup {g, e}) /\ Len(frames') = Len(fs) + 1
          /\ frames'[Len(fs) + 1] = e /\ \A i \in 1 .. Len(fs) : frames'[i] = fs[i]
      BY <1>12, <2>1
    <2> QED BY <1>2, <1>12, <2>2
  <1>14. IsStack(frames')
    <2>1. \A f \in F \cup {g, e} : DOMAIN f = FrameMembers
      BY <1>3, <1>6, <1>8
    <2> QED BY <1>13, <2>1 DEF IsStack
  <1>15. Enters(frames[Len(frames)], g, e)
    <2>1. Step.count = "one" => Step.taken < 1
      BY DEF NextEntry
    <2> QED BY <1>1, <1>2, <1>4, <1>6, <1>7, <2>1 DEF Enters, Step, Rest
  <1> QED BY <1>9, <1>13, <1>14, <1>15 DEF Shapes, ToEnter, Same

LEMMA EntryReadShape ==
  ASSUME IsStack(frames), EntryRead
  PROVE  IsStack(frames') /\ Shapes
  <1>1. PICK F : frames \in Seq(F) /\ \A f \in F : DOMAIN f = FrameMembers
    BY DEF IsStack
  <1>2. PICK n : n = Len(frames)
    OBVIOUS
  <1>3. n \in Nat /\ n > 1 /\ Top = frames[n] /\ Top.steps = <<>> /\ frames # <<>>
    BY <1>1, <1>2 DEF EntryRead, Top
  <1>4. PICK g : g = [frames[n - 1] EXCEPT !.holes = @ \cup Top.unset \cup Top.holes]
    OBVIOUS
  <1>5. DOMAIN frames[n - 1] = FrameMembers
    BY <1>1, <1>2, <1>3
  <1>6. /\ DOMAIN g = FrameMembers /\ g.on = frames[n - 1].on /\ g.index = frames[n - 1].index
        /\ g.unset = frames[n - 1].unset /\ g.steps = frames[n - 1].steps
        /\ g.holes = frames[n - 1].holes \cup Top.unset \cup Top.holes
    BY <1>4, <1>5 DEF FrameMembers
  <1>7. PICK fs : fs = SubSeq(frames, 1, n - 1)
    OBVIOUS
  <1>8. fs \in Seq(F \cup {g}) /\ Len(fs) = n - 1 /\ \A i \in 1 .. n - 1 : fs[i] = frames[i]
    BY <1>1, <1>2, <1>3, <1>7
  <1>9. frames' = [fs EXCEPT ![n - 1] = g]
    <2>1. frames' = [fs EXCEPT ![n - 1].holes = @ \cup Top.unset \cup Top.holes]
      BY <1>2, <1>7 DEF EntryRead, Front
    <2>2. fs[n - 1] = frames[n - 1]
      BY <1>3, <1>8
    <2> QED BY <1>4, <2>1, <2>2
  <1>10. /\ frames' \in Seq(F \cup {g}) /\ Len(frames') = n - 1 /\ frames'[n - 1] = g
         /\ \A i \in 1 .. n - 2 : frames'[i] = frames[i]
    BY <1>3, <1>8, <1>9
  <1>11. IsStack(frames')
    <2>1. \A f \in F \cup {g} : DOMAIN f = FrameMembers
      BY <1>1, <1>6
    <2> QED BY <1>10, <2>1 DEF IsStack
  <1>12. /\ lists' = IF n = 2 THEN Append(Front(lists), Append(Last(lists), Top.index))
                     ELSE lists
         /\ UNCHANGED result
    BY <1>2 DEF EntryRead
  <1>13. ToTake
    BY <1>2, <1>3, <1>6, <1>10, <1>12 DEF ToTake, Same
  <1> QED BY <1>11, <1>13 DEF Shapes

LEMMA ProceedShape ==
  ASSUME IsStack(frames), Proceed \/ EndArray
  PROVE  IsStack(frames') /\ Shapes
  <1>1. /\ frames # <<>> /\ Top.steps # <<>>
        /\ Step.op \in {"declare", "assign", "return", "alt", "entries"}
    BY DEF Proceed, EndArray, Reading, Step
  <1>2. /\ Len(frames) \in Nat /\ Len(frames) > 0
        /\ Top = frames[Len(frames)] /\ DOMAIN Top = FrameMembers
    BY <1>1, TopFrame
  <1>3. UNCHANGED <<lists, result>>
    BY DEF Proceed, EndArray
  <1>4. ASSUME NEW frame, DOMAIN frame = FrameMembers, SameObject(Top, frame), NEW steps,
               GoOn(frame, steps),
               \/ Step.op = "entries" /\ steps = Rest /\ frame.unset = Top.unset
               \/ Step.op = "declare" /\ steps = Rest /\ frame.unset = Top.unset \cup Step.members
               \/ Step.op = "assign" /\ steps = Rest /\ frame.unset = Top.unset \ Step.members
               \/ Step.op = "return" /\ steps = <<>> /\ frame.unset = Top.unset
               \/ /\ Step.op = "alt" /\ frame.unset = Top.unset
                  /\ \E i \in DOMAIN Step.alternatives : steps = Step.alternatives[i] \o Rest
        PROVE  IsStack(frames') /\ Shapes
    <2>1. /\ IsStack(frames') /\ Len(frames') = Len(frames) /\ Same(Len(frames) - 1)
          /\ SameObject(frame, frames'[Len(frames)])
          /\ frames'[Len(frames)].unset = frame.unset
          /\ frames'[Len(frames)].steps = steps
      BY <1>1, <1>4, GoesOn
    <2>2. SameObject(Top, frames'[Len(frames)])
      BY <1>4, <2>1 DEF SameObject
    <2>3. Advance(frames[Len(frames)], frames'[Len(frames)])
      BY <1>1, <1>2, <1>4, <2>1, <2>2 DEF Advance, Step, Rest
    <2> QED BY <1>3, <2>1, <2>3 DEF Shapes, ToAdvance
  <1>5. SameObject(Top, Top)
    BY DEF SameObject
  <1>6. \A op : Reading(op) => Step.op = op
    BY DEF Reading, Step
  <1>7. CASE EndArray \/ (Proceed /\ Step.op \in {"return", "alt"})
    <2>1. PICK steps : /\ GoOn(Top, steps)
                       /\ \/ Step.op = "entries" /\ steps = Rest
                          \/ Step.op = "return" /\ steps = <<>>
                          \/ /\ Step.op = "alt"
                             /\ \E i \in DOMAIN Step.alternatives :
                                    steps = Step.alternatives[i] \o Rest
      BY <1>6, <1>7 DEF EndArray, Proceed
    <2> QED BY <1>2, <1>4, <1>5, <2>1
  <1>8. CASE Proceed /\ Step.op = "declare"
    <2>1. PICK frame : frame = [Top EXCEPT !.unset = @ \cup Step.members]
      OBVIOUS
    <2>2. /\ DOMAIN frame = FrameMembers /\ SameObject(Top, frame)
          /\ frame.unset = Top.unset \cup Step.members
      BY <1>2, <2>1 DEF FrameMembers, SameObject
    <2>3. GoOn(frame, Rest)
      BY <1>6, <1>8, <2>1 DEF Proceed
    <2> QED BY <1>4, <1>8, <2>2, <2>3
  <1>9. CASE Proceed /\ Step.op = "assign"
    <2>1. PICK frame : frame = [Top EXCEPT !.unset = @ \ Step.members]
      OBVIOUS
    <2>2. /\ DOMAIN frame = FrameMembers /\ SameObject(Top, frame)
          /\ frame.unset = Top.unset \ Step.members
      BY <1>2, <2>1 DEF FrameMembers, SameObject
    <2>3. GoOn(frame, Rest)
      BY <1>6, <1>9, <2>1 DEF Proceed
    <2> QED BY <1>4, <1>9, <2>2, <2>3
  <1>10. Proceed => Step.op # "entries"
    BY <1>6 DEF Proceed
  <1> QED BY <1>1, <1>7, <1>8, <1>9, <1>10

\* Every step of the reading is one of the shapes.
LEMMA ReadsShape ==
  ASSUME IsStack(frames), Reads
  PROVE  IsStack(frames') /\ Shapes
  <1>1. CASE LookUp
    BY <1>1, LookUpShape
  <1>2. CASE ReadStatus
    BY <1>2, StatusShape
  <1>3. CASE NextEntry
    BY <1>3, NextEntryShape
  <1>4. CASE EntryRead
    BY <1>4, EntryReadShape
  <1>5. CASE Proceed \/ EndArray
    BY <1>5, ProceedShape
  <1>6. CASE Deliver
    <2>1. Finish("read", FALSE) /\ frames # <<>>
      BY <1>6, ReadsLeave DEF Deliver
    <2>2. /\ frames' = <<>> /\ lists' = <<>> /\ IsStack(frames')
          /\ result'.lists = lists /\ result'.end = "read" /\ result'.cut = FALSE
          /\ result'.holes = frames[1].unset \cup frames[1].holes
      BY <2>1, FinishShape
    <2>3. ToEnd
      BY <2>2 DEF ToEnd
    <2> QED BY <2>2, <2>3 DEF Shapes
  <1> QED BY <1>1, <1>2, <1>3, <1>4, <1>5, <1>6 DEF Reads

-----------------------------------------------------------------------------
(* Disciplines of a reading that is under way. *)

Loops(D) == {Entries(h, n) : h \in {d \in D : d.op = "each"}, n \in Nat}

\* Steps that keep to a discipline, of which the first may be a loop that was
\* begun.
Runs(kind, A, s) ==
    \E D, E : /\ Sound(kind, A, D, E)
              /\ s \in Seq(D \cup Loops(D))
              /\ s # <<>> => Tail(s) \in Seq(D)

LEMMA Prefixed ==
  ASSUME NEW T, NEW x \in T, NEW r \in Seq(T)
  PROVE  /\ <<x>> \o r \in Seq(T) /\ <<x>> \o r # <<>>
         /\ Head(<<x>> \o r) = x /\ Tail(<<x>> \o r) = r
  <1>1. PICK s : s = <<x>> \o r
    OBVIOUS
  <1>2. s \in Seq(T) /\ Len(s) = 1 + Len(r) /\ s[1] = x
        /\ \A i \in 1 .. Len(r) : s[i + 1] = r[i]
    BY <1>1
  <1>3. s # <<>> /\ Head(s) = x
    BY <1>2
  <1>4. Tail(s) \in Seq(T) /\ Len(Tail(s)) = Len(r)
        /\ \A i \in 1 .. Len(r) : Tail(s)[i] = s[i + 1]
    BY <1>2, <1>3
  <1>5. Tail(s) = r
    BY <1>2, <1>4, SeqEqual
  <1> QED BY <1>1, <1>2, <1>3, <1>5

LEMMA EntriesMembers ==
  ASSUME NEW h, NEW n
  PROVE  /\ Entries(h, n).op = "entries" /\ Entries(h, n).taken = n
         /\ Entries(h, n).count = h.count /\ Entries(h, n).on = h.on
         /\ Entries(h, n).own = h.own /\ Entries(h, n).steps = h.steps
         /\ \A m : [Entries(h, n) EXCEPT !.taken = m] = Entries(h, m)
  BY DEF Entries

LEMMA RunsFromStart == ASSUME NEW kind, NEW A, NEW s, Obeys(kind, A, s) PROVE Runs(kind, A, s)
  <1>1. PICK D, E : Sound(kind, A, D, E) /\ s \in Seq(D)
    BY DEF Obeys
  <1>2. s \in Seq(D \cup Loops(D))
    BY <1>1, SeqMonotonic
  <1>3. s # <<>> => Tail(s) \in Seq(D)
    BY <1>1
  <1> QED BY <1>1, <1>2, <1>3, Zenon DEF Runs

\* What comes next is a step that the discipline allows, or a loop of one.
LEMMA RunsHead ==
  ASSUME NEW kind, NEW A, NEW s, Runs(kind, A, s), s # <<>>
  PROVE  \E D, E : /\ Sound(kind, A, D, E) /\ Tail(s) \in Seq(D)
                   /\ \/ Head(s) \in D /\ Head(s).op # "entries"
                      \/ \E h \in D, n \in Nat : h.op = "each" /\ Head(s) = Entries(h, n)
  <1>1. PICK D, E : /\ Sound(kind, A, D, E) /\ s \in Seq(D \cup Loops(D))
                    /\ Tail(s) \in Seq(D)
    BY DEF Runs
  <1>2. Head(s) \in D \cup Loops(D)
    BY <1>1
  <1>3. Head(s) \in D => Head(s).op # "entries"
    BY <1>1, Zenon DEF Sound, Closed
  <1>4. Head(s) \in Loops(D) => \E h \in D, n \in Nat : h.op = "each" /\ Head(s) = Entries(h, n)
    BY DEF Loops
  <1> QED BY <1>1, <1>2, <1>3, <1>4

\* The rest of an object once a loop in it is over, or a step of it is taken.
LEMMA RunsAdvance ==
  ASSUME NEW kind, NEW A, NEW f, NEW g, Runs(kind, A, f.steps), Advance(f, g)
  PROVE  Obeys(kind, A, g.steps)
  <1>1. f.steps # <<>>
    BY DEF Advance
  <1>2. PICK h : h = Head(f.steps)
    OBVIOUS
  <1>3. PICK r : r = Tail(f.steps)
    OBVIOUS
  <1>4. PICK D, E : /\ Sound(kind, A, D, E) /\ r \in Seq(D)
                    /\ \/ h \in D /\ h.op # "entries"
                       \/ \E d \in D, n \in Nat : d.op = "each" /\ h = Entries(d, n)
    BY <1>1, <1>2, <1>3, RunsHead
  <1>5. h.op # "entries" => h \in D
    BY <1>4, EntriesMembers
  <1>6. Closed(D)
    BY <1>4 DEF Sound
  <1>7. h.op = "field" => LeftOf(h, r) \in Seq(D)
    <2>1. CASE h.op = "field" /\ Len(h.names) > 1
      <3>1. PICK x : x = [h EXCEPT !.names = Tail(@)]
        OBVIOUS
      <3>2. x \in D
        BY <1>5, <1>6, <2>1, <3>1 DEF Closed
      <3>3. <<x>> \o r \in Seq(D)
        BY <1>4, <3>2, Prefixed
      <3> QED BY <2>1, <3>1, <3>3 DEF LeftOf
    <2>2. CASE ~(Len(h.names) > 1)
      BY <1>4, <2>2 DEF LeftOf
    <2> QED BY <2>1, <2>2
  <1>8. ASSUME h.op = "alt", NEW i \in DOMAIN h.alternatives
        PROVE  h.alternatives[i] \o r \in Seq(D)
    <2>1. PICK a : a = h.alternatives[i]
      OBVIOUS
    <2>2. a \in Seq(D)
      BY <1>5, <1>6, <1>8, <2>1 DEF Closed
    <2>3. a \o r \in Seq(D)
      BY <1>4, <2>2
    <2> QED BY <2>1, <2>3
  <1>9. h.op = "status" => h.otherwise \in Seq(D)
    BY <1>5, <1>6 DEF Closed
  <1>10. <<>> \in Seq(D)
    OBVIOUS
  <1>11. \/ h.op = "field" /\ g.steps = LeftOf(h, r)
         \/ g.steps = r \/ g.steps = <<>>
         \/ h.op = "status" /\ g.steps = h.otherwise
         \/ h.op = "alt" /\ \E i \in DOMAIN h.alternatives : g.steps = h.alternatives[i] \o r
    BY <1>2, <1>3 DEF Advance
  <1>12. g.steps \in Seq(D)
    BY <1>4, <1>7, <1>8, <1>9, <1>10, <1>11
  <1> QED BY <1>4, <1>12, Zenon DEF Obeys

LEMMA RunsOpens ==
  ASSUME NEW kind, NEW A, NEW f, NEW g, Runs(kind, A, f.steps), Opens(f, g)
  PROVE  /\ Runs(kind, A, g.steps) /\ g.steps # <<>>
         /\ Head(g.steps) = Entries(Head(f.steps), 0)
  <1>1. f.steps # <<>>
    BY DEF Opens
  <1>2. PICK h : h = Head(f.steps)
    OBVIOUS
  <1>3. PICK r : r = Tail(f.steps)
    OBVIOUS
  <1>4. PICK D, E : /\ Sound(kind, A, D, E) /\ r \in Seq(D)
                    /\ \/ h \in D /\ h.op # "entries"
                       \/ \E d \in D, n \in Nat : d.op = "each" /\ h = Entries(d, n)
    BY <1>1, <1>2, <1>3, RunsHead
  <1>5. h \in D /\ h.op = "each"
    BY <1>2, <1>4, EntriesMembers DEF Opens
  <1>6. Entries(h, 0) \in D \cup Loops(D)
    BY <1>5 DEF Loops
  <1>7. r \in Seq(D \cup Loops(D))
    BY <1>4, SeqMonotonic
  <1>8. PICK x : x = Entries(h, 0)
    OBVIOUS
  <1>9. g.steps = <<x>> \o r
    BY <1>2, <1>3, <1>8 DEF Opens
  <1>10. g.steps \in Seq(D \cup Loops(D)) /\ g.steps # <<>> /\ Head(g.steps) = x
         /\ Tail(g.steps) = r
    BY <1>6, <1>7, <1>8, <1>9, Prefixed
  <1>11. Runs(kind, A, g.steps)
    BY <1>4, <1>10, Zenon DEF Runs
  <1> QED BY <1>2, <1>8, <1>10, <1>11

\* The object e is the entry after the n-th of the loop h of the frame f.
IsEntry(f, g, e, h, n) ==
    /\ h.op = "each" /\ n \in Nat /\ (h.count = "one" => n < 1)
    /\ Head(f.steps) = Entries(h, n) /\ Head(g.steps) = Entries(h, n + 1)
    /\ e.on = h.on /\ e.index = n + 1 /\ e.unset = h.own /\ e.holes = {}
    /\ e.steps = h.steps

\* The entry that is begun is one of a loop the discipline allows.
LEMMA RunsEnters ==
  ASSUME NEW kind, NEW A, NEW f, NEW g, NEW e, Runs(kind, A, f.steps), Enters(f, g, e)
  PROVE  /\ Runs(kind, A, g.steps) /\ g.steps # <<>>
         /\ \E D, E, h, n : Sound(kind, A, D, E) /\ h \in D /\ IsEntry(f, g, e, h, n)
  <1>1. f.steps # <<>>
    BY DEF Enters
  <1>2. PICK x : x = Head(f.steps)
    OBVIOUS
  <1>3. PICK r : r = Tail(f.steps)
    OBVIOUS
  <1>4. PICK D, E : /\ Sound(kind, A, D, E) /\ r \in Seq(D)
                    /\ \/ x \in D /\ x.op # "entries"
                       \/ \E d \in D, n \in Nat : d.op = "each" /\ x = Entries(d, n)
    BY <1>1, <1>2, <1>3, RunsHead
  <1>5. PICK h \in D, n \in Nat : h.op = "each" /\ x = Entries(h, n)
    BY <1>2, <1>4 DEF Enters
  <1>6. Entries(h, n + 1) \in D \cup Loops(D)
    BY <1>5 DEF Loops
  <1>7. r \in Seq(D \cup Loops(D))
    BY <1>4, SeqMonotonic
  <1>8. PICK y : y = Entries(h, n + 1)
    OBVIOUS
  <1>9. x.taken = n /\ [x EXCEPT !.taken = x.taken + 1] = y
    BY <1>5, <1>8, EntriesMembers
  <1>10. g.steps = <<y>> \o r
    BY <1>2, <1>3, <1>9 DEF Enters
  <1>11. g.steps \in Seq(D \cup Loops(D)) /\ g.steps # <<>> /\ Head(g.steps) = y
         /\ Tail(g.steps) = r
    BY <1>6, <1>7, <1>8, <1>10, Prefixed
  <1>12. Runs(kind, A, g.steps)
    BY <1>4, <1>11, Zenon DEF Runs
  <1>13. e = Frame(x.on, x.taken + 1, x.own, x.steps)
    BY <1>2 DEF Enters
  <1>14. /\ e.on = x.on /\ e.index = x.taken + 1 /\ e.unset = x.own /\ e.holes = {}
         /\ e.steps = x.steps
    BY <1>13 DEF Frame
  <1>15. /\ e.on = h.on /\ e.index = n + 1 /\ e.unset = h.own /\ e.holes = {}
         /\ e.steps = h.steps
    BY <1>5, <1>9, <1>14, EntriesMembers
  <1>16. x.count = "one" => x.taken < 1
    BY <1>2 DEF Enters
  <1>17. h.count = "one" => n < 1
    BY <1>5, <1>16, EntriesMembers
  <1>18. IsEntry(f, g, e, h, n)
    BY <1>2, <1>5, <1>8, <1>11, <1>15, <1>17 DEF IsEntry
  <1> QED BY <1>4, <1>5, <1>11, <1>12, <1>18, Zenon

-----------------------------------------------------------------------------
(* Which parser is at work. *)

ActionParsers ==
    {"SimpleResponse", "PlaceOrder", "ModifyOrder", "CancelOrder", "TwapOrder", "TwapCancel",
     "CreateSubAccount", "CreateVault"}

LEMMA SyncParserKnown ==
  ASSUME NEW type
  PROVE  /\ type \in SyncMethods => SyncParser(type) \in DOMAIN Parsers
         /\ type \in Authenticated => SyncParser(type) \in ActionParsers
  <1>1. CASE type \in DOMAIN orderCalls
    <2>1. SyncParser(type) = orderCalls[type]
      <3>1. type \notin transferCalls \cup agentCalls \cup {"CreateSubAccount", "CreateVault"}
        BY <1>1 DEF transferCalls, agentCalls, orderCalls
      <3> QED BY <1>1, <3>1 DEF SyncParser
    <2>2. orderCalls[type] \in ActionParsers
      BY <1>1 DEF orderCalls, ActionParsers
    <2> QED BY <2>1, <2>2, RestBranches DEF ActionParsers
  <1>2. CASE type \in transferCalls \cup agentCalls
    <2>1. type \notin DOMAIN orderCalls
      BY <1>2 DEF transferCalls, agentCalls, orderCalls
    <2>2. SyncParser(type) \in ActionParsers
      BY <1>2, <2>1 DEF SyncParser, ActionParsers
    <2> QED BY <2>2, RestBranches DEF ActionParsers
  <1>3. CASE type \notin DOMAIN orderCalls \cup transferCalls \cup agentCalls
    <2>1. SyncParser(type) = type
      BY <1>3 DEF SyncParser, transferCalls
    <2>2. type \notin Authenticated
      BY <1>3 DEF Authenticated, orderCalls, transferCalls, agentCalls
    <2>3. type \in marketCalls => type \in DOMAIN Parsers
      BY RestBranches DEF marketCalls
    <2>4. type \in accountCalls => type \in DOMAIN Parsers
      BY RestBranches DEF accountCalls
    <2>5. type \in stateCalls => type \in DOMAIN Parsers
      BY RestBranches DEF stateCalls
    <2>6. type \in stakingCalls => type \in DOMAIN Parsers
      BY RestBranches DEF stakingCalls
    <2> QED BY <1>3, <2>1, <2>2, <2>3, <2>4, <2>5, <2>6 DEF SyncMethods
  <1> QED BY <1>1, <1>2, <1>3

LEMMA AsyncIsSync == AsyncMethods \subseteq SyncMethods
  <1> USE DEF SyncMethods
  <1>1. marketAsync \subseteq SyncMethods
    BY DEF marketAsync, marketCalls, accountCalls
  <1>2. accountAsync \subseteq SyncMethods
    BY DEF accountAsync, accountCalls, stateCalls
  <1>3. orderAsync \subseteq SyncMethods
    BY DEF orderAsync, stateCalls, orderCalls, transferCalls
  <1>4. transferAsync \subseteq SyncMethods
    BY DEF transferAsync, transferCalls
  <1>5. agentAsync \subseteq SyncMethods
    BY DEF agentAsync, stakingCalls, agentCalls
  <1> QED BY <1>1, <1>2, <1>3, <1>4, <1>5 DEF AsyncMethods

LEMMA ParserKnown ==
  ASSUME NEW via \in DOMAIN Methods, NEW type \in Methods[via], ParserOf(via, type) # "none"
  PROVE  /\ ParserOf(via, type) \in DOMAIN Parsers
         /\ type \in Authenticated => ParserOf(via, type) \in ActionParsers
  <1>1. via \in {"sync", "async", "post"}
    BY DEF Methods
  <1>2. CASE via = "sync"
    BY <1>2, SyncParserKnown DEF ParserOf, Methods
  <1>3. CASE via = "async"
    BY <1>3, AsyncIsSync, SyncParserKnown, ParsersAlike DEF ParserOf, Methods
  <1>4. CASE via = "post"
    <2>1. ParserOf(via, type) = PostParser(type)
      BY <1>4 DEF ParserOf
    <2>2. CASE type \in Authenticated
      <3>1. type \notin TypedInfo
        BY <2>2 DEF Authenticated, TypedInfo
      <3>2. PostParser(type) = "SimpleResponse"
        BY <2>2, <3>1 DEF PostParser
      <3> QED BY <2>1, <3>2, RestBranches DEF ActionParsers
    <2>3. CASE type \notin Authenticated
      <3>1. type \in TypedInfo /\ PostParser(type) = type
        BY <2>1, <2>3 DEF PostParser
      <3>2. type \in DOMAIN Parsers
        BY <3>1, RestBranches DEF TypedInfo
      <3> QED BY <2>1, <2>3, <3>1, <3>2
    <2> QED BY <2>2, <2>3
  <1> QED BY <1>1, <1>2, <1>3, <1>4

\* The request or message that a reading belongs to, and its parser.
Sourced(c) ==
    \/ c.via = "stream" /\ c.parser = c.type /\ c.parser \in DOMAIN crack
    \/ /\ c.via \in DOMAIN Methods
       /\ c.parser \in DOMAIN Parsers
       /\ c.type \in Authenticated => c.parser \in ActionParsers

Document(c) == IF c.via = "stream" THEN crack[c.parser] ELSE Parsers[c.parser]

ReadInv ==
    /\ IsStack(frames)
    /\ call.via \in DOMAIN Methods => call.type \in Methods[call.via]

\* A document begins to be read.
Begins ==
    /\ frames' = <<Frame("raise", 1, {}, Document(call'))>>
    /\ lists' = <<>> /\ result' = NoResult
    /\ Sourced(call')

\* Nothing is being read, and nothing was.
Idles ==
    /\ frames' = <<>>
    /\ result'.lists = <<>> /\ result'.holes = {} /\ result'.cut = FALSE
    /\ result'.end # "thrown"

LEMMA NothingRead ==
  ASSUME NEW end, NEW cut, end # "thrown", cut = FALSE, frames = <<>>, lists = <<>>,
         Finish(end, cut)
  PROVE  Idles
  BY DEF Finish, Idles

LEMMA EmptyResult ==
  /\ NoResult.lists = <<>> /\ NoResult.holes = {} /\ NoResult.cut = FALSE
  /\ NoResult.end # "thrown"
  BY DEF NoResult

\* Outside of a reading, steps only begin one or give up before it.
LEMMA Around ==
  ASSUME CallInv, FreshInv, ReadInv, Next, ~Reads
  PROVE  Begins \/ Idles
  <1>1. CASE Call
    <2>1. call = NoCall
      BY <1>1 DEF Call, Request, Refuse, Idle
    <2>2. frames = <<>> /\ lists = <<>> /\ result = NoResult
      BY <2>1 DEF CallInv, FreshInv, NoCall
    <2>3. ASSUME NEW via, NEW type, NEW wallet, Refuse(via, type, wallet) PROVE Idles
      <3>1. Finish("refused", FALSE)
        BY <2>3 DEF Refuse
      <3> QED BY <2>2, <3>1, NothingRead
    <2>4. ASSUME NEW via, NEW type, NEW given, NEW argument, NEW wallet, NEW configured,
                 Request(via, type, given, argument, wallet, configured)
          PROVE  Idles
      <3>1. frames' = <<>> /\ result' = NoResult
        BY <2>2, <2>4 DEF Request
      <3> QED BY <3>1, EmptyResult DEF Idles
    <2> QED BY <1>1, <2>3, <2>4 DEF Call
  <1>2. CASE Answer
    <2>1. PICK parser : parser = ParserOf(call.via, call.type)
      OBVIOUS
    <2>2. /\ call.via \in DOMAIN Methods /\ call.parser = "none" /\ result = NoResult
          /\ parser # "none" /\ call' = [call EXCEPT !.parser = parser]
          /\ Begin(parser, Parsers[parser])
      BY <1>2, <2>1 DEF Answer, Awaiting
    <2>3. frames = <<>> /\ lists = <<>>
      BY <2>2 DEF FreshInv
    <2>4. call'.via = call.via /\ call'.type = call.type /\ call'.parser = parser
      BY <2>2 DEF CallInv
    <2>5. parser \in DOMAIN Parsers /\ (call.type \in Authenticated => parser \in ActionParsers)
      BY <2>1, <2>2, ParserKnown DEF ReadInv
    <2>6. "stream" \notin DOMAIN Methods
      BY DEF Methods
    <2>7. Sourced(call') /\ Document(call') = Parsers[parser]
      BY <2>2, <2>4, <2>5, <2>6 DEF Sourced, Document
    <2>8. CASE Finish("error", FALSE)
      BY <2>3, <2>8, NothingRead
    <2>9. CASE /\ frames' = <<Frame("raise", 1, {}, Parsers[parser])>>
               /\ UNCHANGED <<lists, status, result>>
      BY <2>2, <2>3, <2>7, <2>9 DEF Begins
    <2> QED BY <2>2, <2>8, <2>9 DEF Begin
  <1>3. CASE RawOnly
    <2>1. call.parser = "none" /\ Finish("raw", FALSE)
      BY <1>3 DEF RawOnly, Awaiting
    <2>2. frames = <<>> /\ lists = <<>>
      BY <2>1 DEF FreshInv
    <2> QED BY <2>1, <2>2, NothingRead
  <1>4. CASE Push
    <2>1. PICK channel \in Channels :
            /\ Idle /\ call' = [via |-> "stream", type |-> channel, parser |-> channel]
            /\ IF channel \in DOMAIN crack THEN Begin(channel, crack[channel])
               ELSE Finish("ignored", FALSE)
      BY <1>4 DEF Push
    <2>2. frames = <<>> /\ lists = <<>> /\ result = NoResult
      BY <2>1 DEF CallInv, FreshInv, NoCall, Idle
    <2>3. call'.via = "stream" /\ call'.parser = channel /\ call'.type = channel
      BY <2>1
    <2>4. channel \in DOMAIN crack => Sourced(call') /\ Document(call') = crack[channel]
      BY <2>3 DEF Sourced, Document
    <2>5. CASE Finish("error", FALSE) \/ Finish("ignored", FALSE)
      BY <2>2, <2>5, NothingRead
    <2>6. CASE /\ channel \in DOMAIN crack
               /\ frames' = <<Frame("raise", 1, {}, crack[channel])>>
               /\ UNCHANGED <<lists, status, result>>
      BY <2>2, <2>4, <2>6 DEF Begins
    <2> QED BY <2>1, <2>5, <2>6 DEF Begin
  <1>5. CASE Done
    <2>1. frames' = <<>> /\ result' = NoResult
      BY <1>5 DEF Done, CallInv
    <2> QED BY <2>1, EmptyResult DEF Idles
  <1> QED BY <1>1, <1>2, <1>3, <1>4, <1>5 DEF Next, Reads

LEMMA FirstFrame ==
  ASSUME NEW steps, NEW fs, fs = <<Frame("raise", 1, {}, steps)>>
  PROVE  /\ IsStack(fs) /\ Len(fs) = 1 /\ fs[1].on = "raise" /\ fs[1].index = 1
         /\ fs[1].unset = {} /\ fs[1].holes = {} /\ fs[1].steps = steps
  <1>1. PICK f : f = Frame("raise", 1, {}, steps)
    OBVIOUS
  <1>2. /\ DOMAIN f = FrameMembers /\ f.on = "raise" /\ f.index = 1
        /\ f.unset = {} /\ f.holes = {} /\ f.steps = steps
    BY <1>1 DEF Frame, FrameMembers
  <1>3. PICK F : F = {f}
    OBVIOUS
  <1>4. fs \in Seq(F) /\ Len(fs) = 1 /\ fs[1] = f
    BY <1>1, <1>3
  <1>5. \A x \in F : DOMAIN x = FrameMembers
    BY <1>2, <1>3
  <1>6. IsStack(fs)
    BY <1>4, <1>5, Zenon DEF IsStack
  <1> QED BY <1>2, <1>4, <1>6

LEMMA EmptyStack == IsStack(<<>>)
  <1>1. PICK F : F = {}
    OBVIOUS
  <1>2. <<>> \in Seq(F) /\ \A f \in F : DOMAIN f = FrameMembers
    BY <1>1
  <1> QED BY <1>2, Zenon DEF IsStack

LEMMA ReadStep == ASSUME CallInv, FreshInv, ReadInv, [Next]_vars PROVE ReadInv'
  <1>1. IsStack(frames')
    <2>1. CASE UNCHANGED vars
      BY <2>1 DEF vars, ReadInv
    <2>2. CASE Reads
      BY <2>2, ReadsShape DEF ReadInv
    <2>3. CASE Begins
      BY <2>3, FirstFrame DEF Begins
    <2>4. CASE Idles
      BY <2>4, EmptyStack DEF Idles
    <2> QED BY <2>1, <2>2, <2>3, <2>4, Around
  <1>2. call'.via \in DOMAIN Methods => call'.type \in Methods[call'.via]
    <2>1. CASE UNCHANGED vars \/ Reads \/ RawOnly
      <3>1. call' = call
        BY <2>1, ReadsLeave DEF vars, RawOnly
      <3> QED BY <3>1 DEF ReadInv
    <2>2. CASE Call
      <3>1. PICK via \in DOMAIN Methods :
               \E type \in Methods[via] : call' = [NoCall EXCEPT !.via = via, !.type = type]
        BY <2>2 DEF Call, Request, Refuse
      <3>2. PICK type \in Methods[via] : call' = [NoCall EXCEPT !.via = via, !.type = type]
        BY <3>1
      <3>3. call'.via = via /\ call'.type = type
        BY <3>2 DEF NoCall
      <3> QED BY <3>1, <3>2, <3>3
    <2>3. CASE Answer
      <3>1. call' = [call EXCEPT !.parser = ParserOf(call.via, call.type)]
        BY <2>3 DEF Answer
      <3>2. call'.via = call.via /\ call'.type = call.type
        BY <3>1 DEF CallInv
      <3> QED BY <3>2 DEF ReadInv
    <2>4. CASE Push \/ Done
      <3>1. Push => call'.via = "stream"
        BY DEF Push
      <3>2. Done => call'.via = "none"
        <4>1. Done => call' = NoCall
          BY DEF Done
        <4>2. NoCall.via = "none"
          BY DEF NoCall
        <4> QED BY <4>1, <4>2
      <3> QED BY <2>4, <3>1, <3>2 DEF Methods
    <2> QED BY <2>1, <2>2, <2>3, <2>4 DEF Next, Reads
  <1> QED BY <1>1, <1>2 DEF ReadInv

LEMMA ReadInvariant == Spec => []ReadInv
  <1>1. Init => ReadInv
    <2> SUFFICES ASSUME Init PROVE ReadInv
      OBVIOUS
    <2>1. frames = <<>> /\ call.via = "none"
      BY DEF Init, NoCall
    <2> QED BY <2>1, EmptyStack DEF ReadInv, Methods
  <1>2. CallInv /\ FreshInv /\ ReadInv /\ [Next]_vars => ReadInv'
    BY ReadStep
  <1> QED BY <1>1, <1>2, CallInvariant, SimpleInvariant, PTL DEF Spec

-----------------------------------------------------------------------------
(* Who throws. *)

MustNotThrow(c) ==
    c.type \in Authenticated \/ (c.via = "stream" /\ c.type # "outcomeMetaUpdates")

QuietInv ==
    MustNotThrow(call) =>
        /\ \A i \in 1 .. Len(frames) : Runs("quiet", {}, frames[i].steps)
        /\ result.end # "thrown"

LEMMA StackLength ==
  ASSUME NEW fs, IsStack(fs)
  PROVE  Len(fs) \in Nat /\ (fs # <<>> => Len(fs) > 0)
  BY DEF IsStack

LEMMA EmptyRuns == ASSUME NEW kind, NEW A PROVE Runs(kind, A, <<>>)
  BY EmptyObeys, RunsFromStart

LEMMA QuietDocuments == ASSUME NEW c, Sourced(c), MustNotThrow(c) PROVE Quiet(Document(c))
  <1>1. CASE c.via = "stream"
    <2>1. c.parser = c.type /\ c.parser \in DOMAIN crack
      BY <1>1 DEF Sourced, Methods
    <2>2. c.type # "outcomeMetaUpdates"
      BY DEF MustNotThrow, Authenticated
    <2>3. Quiet(crack[c.parser])
      BY <2>1, <2>2, QuietStreams
    <2> QED BY <1>1, <2>3 DEF Document
  <1>2. CASE c.via # "stream"
    <2>1. c.parser \in ActionParsers
      BY <1>2 DEF Sourced, MustNotThrow
    <2>2. Quiet(Parsers[c.parser])
      BY <2>1, RestBranches, QuietActions DEF ActionParsers
    <2> QED BY <1>2, <2>2 DEF Document
  <1> QED BY <1>1, <1>2

LEMMA QuietReads ==
  ASSUME IsStack(frames), frames # <<>>, IsStack(frames'), Shapes, result.end # "thrown",
         \A i \in 1 .. Len(frames) : Runs("quiet", {}, frames[i].steps)
  PROVE  /\ \A i \in 1 .. Len(frames') : Runs("quiet", {}, frames'[i].steps)
         /\ result'.end # "thrown"
  <1>1. PICK n : n = Len(frames)
    OBVIOUS
  <1>2. n \in Nat /\ n > 0 /\ Runs("quiet", {}, frames[n].steps)
    BY <1>1, StackLength
  <1>3. CASE ToAdvance
    <2>1. Obeys("quiet", {}, frames'[n].steps)
      BY <1>1, <1>2, <1>3, RunsAdvance DEF ToAdvance
    <2>2. Runs("quiet", {}, frames'[n].steps)
      BY <2>1, RunsFromStart
    <2> QED BY <1>1, <1>2, <1>3, <2>2 DEF ToAdvance, Same
  <1>4. CASE ToOpen
    <2>1. Runs("quiet", {}, frames'[n].steps)
      BY <1>1, <1>2, <1>4, RunsOpens DEF ToOpen
    <2> QED BY <1>1, <1>2, <1>4, <2>1 DEF ToOpen, Same
  <1>5. CASE ToEnter
    <2>1. PICK f : f = frames[n]
      OBVIOUS
    <2>2. PICK g : g = frames'[n]
      OBVIOUS
    <2>3. PICK e : e = frames'[n + 1]
      OBVIOUS
    <2>4. Enters(f, g, e) /\ Runs("quiet", {}, f.steps)
      BY <1>1, <1>2, <1>5, <2>1, <2>2, <2>3 DEF ToEnter
    <2>5. Runs("quiet", {}, g.steps)
      BY <2>4, RunsEnters
    <2>6. PICK D, E, h, k : Sound("quiet", {}, D, E) /\ h \in D /\ IsEntry(f, g, e, h, k)
      BY <2>4, RunsEnters, Zenon
    <2>7. e.steps \in Seq(D)
      BY <2>6 DEF Sound, Allows, IsEntry
    <2>8. Obeys("quiet", {}, e.steps)
      BY <2>6, <2>7, Zenon DEF Obeys
    <2>9. Runs("quiet", {}, e.steps)
      BY <2>8, RunsFromStart
    <2> QED BY <1>1, <1>2, <1>5, <2>2, <2>3, <2>5, <2>9 DEF ToEnter, Same
  <1>6. CASE ToTake
    BY <1>1, <1>2, <1>6 DEF ToTake, Same
  <1>7. CASE ToSkip
    BY <1>1, <1>2, <1>7 DEF ToSkip, Same
  <1>8. CASE ToDrop
    BY <1>1, <1>2, <1>8 DEF ToDrop, Same
  <1>9. CASE ToKeep
    BY <1>1, <1>2, <1>9, EmptyRuns DEF ToKeep, Same
  <1>10. CASE ToEnd
    <2>1. ASSUME frames[n].steps # <<>>, NEW h, h = Head(frames[n].steps), h.op = "field"
          PROVE  h.conv \in {"none", "from_chars"}
      <3>1. PICK D, E : /\ Sound("quiet", {}, D, E)
                        /\ \/ h \in D
                           \/ \E d \in D, k \in Nat : h = Entries(d, k)
        BY <1>2, <2>1, RunsHead
      <3>2. h \in D
        BY <2>1, <3>1, EntriesMembers
      <3> QED BY <2>1, <3>1, <3>2 DEF Sound, Allows
    <2>2. result'.end # "thrown"
      BY <1>1, <1>10, <2>1 DEF ToEnd
    <2> QED BY <1>10, <2>2 DEF ToEnd
  <1> QED BY <1>3, <1>4, <1>5, <1>6, <1>7, <1>8, <1>9, <1>10 DEF Shapes

LEMMA QuietStep ==
  ASSUME CallInv, FreshInv, ReadInv, QuietInv, [Next]_vars PROVE QuietInv'
  <1> SUFFICES ASSUME MustNotThrow(call')
               PROVE  /\ \A i \in 1 .. Len(frames') : Runs("quiet", {}, frames'[i].steps)
                      /\ result'.end # "thrown"
    BY DEF QuietInv
  <1>1. CASE UNCHANGED vars
    BY <1>1 DEF vars, QuietInv
  <1>2. CASE Reads
    <2>1. IsStack(frames) /\ frames # <<>> /\ IsStack(frames') /\ Shapes /\ call' = call
      BY <1>2, ReadsShape, ReadsLeave DEF ReadInv
    <2> QED BY <2>1, QuietReads DEF QuietInv
  <1>3. CASE Begins
    <2>1. Quiet(Document(call'))
      BY <1>3, QuietDocuments DEF Begins
    <2>2. Runs("quiet", {}, Document(call'))
      BY <2>1, RunsFromStart DEF Quiet
    <2>3. Len(frames') = 1 /\ frames'[1].steps = Document(call')
      BY <1>3, FirstFrame DEF Begins
    <2>4. result'.end # "thrown"
      BY <1>3, EmptyResult DEF Begins
    <2> QED BY <2>2, <2>3, <2>4
  <1>4. CASE Idles
    BY <1>4 DEF Idles
  <1> QED BY <1>1, <1>2, <1>3, <1>4, Around

LEMMA QuietInvariant == Spec => []QuietInv
  <1>1. Init => QuietInv
    <2> SUFFICES ASSUME Init PROVE QuietInv
      OBVIOUS
    <2>1. frames = <<>> /\ result = NoResult
      BY DEF Init
    <2> QED BY <2>1, EmptyResult DEF QuietInv
  <1>2. CallInv /\ FreshInv /\ ReadInv /\ QuietInv /\ [Next]_vars => QuietInv'
    BY QuietStep
  <1> QED BY <1>1, <1>2, CallInvariant, SimpleInvariant, ReadInvariant, PTL DEF Spec

\* The answer to a signed action is read without std::stod or std::stoi at every
\* depth, so nothing in it makes a RestApiMessageParser function throw anything
\* but the simdjson_error it catches; nor does a stream message, but for the
\* expiry of an outcome (parseOutcomeExpiry).
THEOREM ActionsNeverThrow == Spec => []OnlyQueriesThrow
  <1>1. QuietInv => OnlyQueriesThrow
    BY DEF QuietInv, MustNotThrow, OnlyQueriesThrow
  <1> QED BY <1>1, QuietInvariant, PTL

-----------------------------------------------------------------------------
(* Streams lose no more than the entry that cannot be read. *)

Local(s) == Obeys("local", {}, s)

LEMMA LocalRules ==
  /\ Local(<<>>) /\ Local(MayReturn)
  /\ \A s, t : Local(s) /\ Local(t) => Local(s \o t)
  /\ \A members : Local(Assign(members))
  /\ \A names : IsSeq(names) =>
        /\ Local(Plain(names)) /\ Local(Present(Plain(names))) /\ Local(Soft(Plain(names)))
        /\ Local(Decimal(names)) /\ Local(Present(Decimal(names))) /\ Local(Soft(Decimal(names)))
  /\ \A own, s :
        /\ Local(EachCaught(own, s)) /\ Local(Present(EachCaught(own, s)))
        /\ Local(Soft(EachCaught(own, s)))
  /\ \A own, s : Local(s) =>
        Local(One(own, s)) /\ Local(Nullable(One(own, s))) /\ Local(Soft(One(own, s)))
  <1>1. Local(<<>>) /\ \A members : Local(Assign(members))
    BY StepRules DEF Local
  <1>2. Local(MayReturn)
    BY MayReturnObeys DEF Local
  <1>3. \A s, t : Local(s) /\ Local(t) => Local(s \o t)
    BY JoinObeys DEF Local
  <1>4. ASSUME NEW names, IsSeq(names)
        PROVE  /\ Local(Plain(names)) /\ Local(Present(Plain(names)))
               /\ Local(Soft(Plain(names))) /\ Local(Decimal(names))
               /\ Local(Present(Decimal(names))) /\ Local(Soft(Decimal(names)))
    BY <1>4, FieldRules DEF Local
  <1>5. \A own, s, mode : Local(Loop("many", mode, "drop", own, s))
    BY AnyLoopObeys DEF Local, Catching
  <1>6. ASSUME NEW own, NEW s
        PROVE  /\ Local(EachCaught(own, s)) /\ Local(Present(EachCaught(own, s)))
               /\ Local(Soft(EachCaught(own, s)))
    BY <1>5, LoopTerms
  <1>7. ASSUME NEW own, NEW s, Local(s)
        PROVE  \A mode : Local(Loop("one", mode, "raise", own, s))
    BY <1>7, LoopObeys DEF Local
  <1>8. ASSUME NEW own, NEW s, Local(s)
        PROVE  Local(One(own, s)) /\ Local(Nullable(One(own, s))) /\ Local(Soft(One(own, s)))
    <2>1. \A mode : Local(Loop("one", mode, "raise", own, s))
      BY <1>7, <1>8
    <2> QED BY <2>1, LoopTerms
  <1> QED BY <1>1, <1>2, <1>3, <1>4, <1>6, <1>8, Zenon

LEMMA LocalAlternatives ==
  /\ \A a, b : Local(a) /\ Local(b) => Local(Alt(<<a, b>>))
  /\ \A a, b, c, d, e : Local(a) /\ Local(b) /\ Local(c) /\ Local(d) /\ Local(e)
        => Local(Alt(<<a, b, c, d, e>>))
  BY AltRules, Zenon DEF Local

LEMMA LocalStreams == \A channel \in DOMAIN crack : Local(crack[channel])
  <1>1. Local(Data)
    BY LocalRules, NamesAreSeqs, Zenon DEF Data
  <1>2. Local(crackL2Book) /\ Local(crackBbo)
    BY LocalRules, LocalAlternatives, NamesAreSeqs, Zenon DEF crackL2Book, crackBbo
  <1>3. Local(crackTrades) /\ Local(crackCandles) /\ Local(crackAllMids)
    BY LocalRules, NamesAreSeqs, Zenon DEF crackTrades, crackCandles, crackAllMids
  <1>4. Local(perpCtx)
    BY LocalRules, NamesAreSeqs, Zenon DEF perpCtx
  <1>5. Local(crackActiveAssetCtx)
    BY <1>4, LocalRules, LocalAlternatives, NamesAreSeqs, Zenon DEF crackActiveAssetCtx
  <1>6. Local(crackAllDexsAssetCtxs) /\ Local(crackFastAssetCtxs) /\ Local(crackOutcomeMetaUpdates)
    BY LocalRules, Zenon DEF crackAllDexsAssetCtxs, crackFastAssetCtxs, crackOutcomeMetaUpdates
  <1>7. Local(crackOrderUpdates) /\ Local(crackUserFills)
    BY LocalRules, NamesAreSeqs, Zenon DEF crackOrderUpdates, crackUserFills
  <1>8. Local(funding) /\ Local(crackUserFundings)
    BY LocalRules, NamesAreSeqs, Zenon DEF funding, crackUserFundings
  <1>9. Local(crackUserEvents)
    BY <1>8, LocalRules, LocalAlternatives, NamesAreSeqs, Zenon DEF crackUserEvents
  <1>10. Local(crackSubscriptionResponse) /\ Local(crackUserNonFundingLedgerUpdates)
    BY LocalRules, NamesAreSeqs, Zenon
       DEF crackSubscriptionResponse, crackUserNonFundingLedgerUpdates
  <1>11. Local(crackWebData3)
    BY LocalRules, LocalAlternatives, NamesAreSeqs, Zenon DEF crackWebData3
  <1>12. Local(crackInnerClearinghouseState)
    BY LocalRules, NamesAreSeqs, Zenon DEF crackInnerClearinghouseState
  <1>13. Local(crackClearinghouseState) /\ Local(crackAllDexsClearinghouseState)
    BY <1>12, LocalRules, NamesAreSeqs, Zenon
       DEF crackClearinghouseState, crackAllDexsClearinghouseState
  <1>14. Local(crackOpenOrders) /\ Local(crackNotification) /\ Local(crackUserTwapSliceFills)
    BY LocalRules, NamesAreSeqs, Zenon
       DEF crackOpenOrders, crackNotification, crackUserTwapSliceFills
  <1>15. Local(crackTwapStates) /\ Local(crackUserTwapHistory)
    BY LocalRules, NamesAreSeqs, Zenon DEF crackTwapStates, crackUserTwapHistory
  <1>16. Local(crackActiveAssetData) /\ Local(crackSpotState)
    BY LocalRules, LocalAlternatives, NamesAreSeqs, Zenon DEF crackActiveAssetData, crackSpotState
  <1>17. \A s : Local(s) => Local(Data \o s)
    BY <1>1, LocalRules, Zenon
  <1>18. \A channel \in DOMAIN marketBranches : Local(marketBranches[channel])
    BY <1>2, <1>3, <1>5, <1>7, <1>8, <1>9, <1>10, <1>17, MarketBranches
  <1>19. \A channel \in DOMAIN accountBranches : Local(accountBranches[channel])
    BY <1>6, <1>10, <1>11, <1>13, <1>14, <1>15, <1>16, <1>17, AccountBranches
  <1> QED BY <1>18, <1>19 DEF crack

\* No frame up to the i-th catches errors.
Exposed(fs, i) == \A j \in 1 .. i : fs[j].on \notin Catching

\* An error that nothing catches finds no list with entries to come.
LocalStack(fs) ==
    /\ \A i \in 1 .. Len(fs) : Exposed(fs, i) => Runs("local", {}, fs[i].steps)
    /\ \A i \in 1 .. Len(fs) - 1 : Exposed(fs, i + 1) => Head(fs[i].steps).count # "many"

LocalInv == call.via = "stream" => LocalStack(frames) /\ (result.cut => result.end = "thrown")

LEMMA LocalReads ==
  ASSUME IsStack(frames), frames # <<>>, IsStack(frames'), Shapes, LocalStack(frames),
         result.cut => result.end = "thrown"
  PROVE  LocalStack(frames') /\ (result'.cut => result'.end = "thrown")
  <1>1. PICK n : n = Len(frames)
    OBVIOUS
  <1>2. n \in Nat /\ n > 0
    BY <1>1, StackLength
  <1>3. /\ \A i \in 1 .. n : Exposed(frames, i) => Runs("local", {}, frames[i].steps)
        /\ \A i \in 1 .. n - 1 : Exposed(frames, i + 1) => Head(frames[i].steps).count # "many"
    BY <1>1 DEF LocalStack
  <1>4. ASSUME Len(frames') = n, Same(n - 1), frames'[n].on = frames[n].on,
               Exposed(frames, n) => Runs("local", {}, frames'[n].steps)
        PROVE  LocalStack(frames')
    <2>1. \A i \in 1 .. n : Exposed(frames', i) => Exposed(frames, i)
      BY <1>2, <1>4 DEF Exposed, Same
    <2>2. \A i \in 1 .. n - 1 : frames'[i] = frames[i]
      BY <1>4 DEF Same
    <2> QED BY <1>2, <1>3, <1>4, <2>1, <2>2 DEF LocalStack
  <1>5. CASE ToAdvance
    <2>1. /\ Len(frames') = n /\ Same(n - 1) /\ frames'[n].on = frames[n].on
          /\ Advance(frames[n], frames'[n]) /\ result' = result
      BY <1>1, <1>5 DEF ToAdvance, Advance, SameObject
    <2>2. Exposed(frames, n) => Obeys("local", {}, frames'[n].steps)
      <3>1. ASSUME Runs("local", {}, frames[n].steps)
            PROVE  Obeys("local", {}, frames'[n].steps)
        BY <2>1, <3>1, RunsAdvance
      <3> QED BY <1>2, <1>3, <3>1
    <2>3. Exposed(frames, n) => Runs("local", {}, frames'[n].steps)
      BY <2>2, RunsFromStart
    <2> QED BY <1>4, <2>1, <2>3
  <1>6. CASE ToOpen
    <2>1. /\ Len(frames') = n /\ Same(n - 1) /\ frames'[n].on = frames[n].on
          /\ Opens(frames[n], frames'[n]) /\ result' = result
      BY <1>1, <1>6 DEF ToOpen, Opens, SameObject
    <2>2. Exposed(frames, n) => Runs("local", {}, frames'[n].steps)
      <3>1. ASSUME Runs("local", {}, frames[n].steps)
            PROVE  Runs("local", {}, frames'[n].steps)
        BY <2>1, <3>1, RunsOpens
      <3> QED BY <1>2, <1>3, <3>1
    <2> QED BY <1>4, <2>1, <2>2
  <1>7. CASE ToEnter
    <2>1. PICK f : f = frames[n]
      OBVIOUS
    <2>2. PICK g : g = frames'[n]
      OBVIOUS
    <2>3. PICK e : e = frames'[n + 1]
      OBVIOUS
    <2>4. /\ Len(frames') = n + 1 /\ Enters(f, g, e) /\ result' = result /\ g.on = f.on
          /\ \A i \in 1 .. n - 1 : frames'[i] = frames[i]
      BY <1>1, <1>7, <2>1, <2>2, <2>3 DEF ToEnter, Same, Enters, SameObject
    <2>5. \A i \in 1 .. n : Exposed(frames', i) => Exposed(frames, i)
      BY <1>2, <2>1, <2>2, <2>4 DEF Exposed
    <2>6. Exposed(frames', n + 1) => Exposed(frames, n) /\ e.on \notin Catching
      BY <1>2, <2>1, <2>2, <2>3, <2>4 DEF Exposed
    <2>7. Exposed(frames, n) => Runs("local", {}, g.steps)
      <3>1. ASSUME Runs("local", {}, f.steps) PROVE Runs("local", {}, g.steps)
        BY <2>4, <3>1, RunsEnters
      <3> QED BY <1>2, <1>3, <2>1, <3>1
    <2>8. ASSUME Exposed(frames, n), e.on \notin Catching
          PROVE  Runs("local", {}, e.steps) /\ Head(g.steps).count # "many"
      <3>1. Runs("local", {}, f.steps)
        BY <1>2, <1>3, <2>1, <2>8
      <3>2. PICK D, E, h, k : Sound("local", {}, D, E) /\ h \in D /\ IsEntry(f, g, e, h, k)
        BY <2>4, <3>1, RunsEnters, Zenon
      <3>3. h.count # "many" /\ e.steps \in Seq(D)
        BY <2>8, <3>2 DEF Sound, Allows, IsEntry
      <3>4. Obeys("local", {}, e.steps)
        BY <3>2, <3>3, Zenon DEF Obeys
      <3>5. Head(g.steps).count = h.count
        BY <3>2, EntriesMembers DEF IsEntry
      <3> QED BY <3>3, <3>4, <3>5, RunsFromStart
    <2>9. \A i \in 1 .. n + 1 : Exposed(frames', i) => Runs("local", {}, frames'[i].steps)
      BY <1>2, <1>3, <2>2, <2>3, <2>4, <2>5, <2>6, <2>7, <2>8
    <2>10. \A i \in 1 .. n : Exposed(frames', i + 1) => Head(frames'[i].steps).count # "many"
      BY <1>2, <1>3, <2>2, <2>4, <2>5, <2>6, <2>8
    <2> QED BY <1>2, <2>4, <2>9, <2>10 DEF LocalStack
  <1>8. ASSUME NEW k \in 0 .. n, Len(frames') = k,
               \A i \in 1 .. k : frames'[i].on = frames[i].on /\ frames'[i].steps = frames[i].steps
        PROVE  LocalStack(frames')
    <2>1. \A i \in 1 .. k : Exposed(frames', i) => Exposed(frames, i)
      BY <1>2, <1>8 DEF Exposed
    <2> QED BY <1>2, <1>3, <1>8, <2>1 DEF LocalStack
  <1>9. CASE ToTake
    <2>1. /\ Len(frames') = n - 1 /\ result' = result
          /\ \A i \in 1 .. n - 1 : /\ frames'[i].on = frames[i].on
                                   /\ frames'[i].steps = frames[i].steps
      BY <1>1, <1>2, <1>9 DEF ToTake, Same
    <2> QED BY <1>2, <1>8, <2>1
  <1>10. CASE ToSkip
    <2>1. Len(frames') = n - 1 /\ result' = result /\ \A i \in 1 .. n - 1 : frames'[i] = frames[i]
      BY <1>1, <1>10 DEF ToSkip, Same
    <2> QED BY <1>2, <1>8, <2>1
  <1>11. CASE ToDrop
    <2>1. PICK c \in 1 .. n : /\ Len(frames') = c - 1 /\ result' = result
                              /\ \A i \in 1 .. c - 1 : frames'[i] = frames[i]
      BY <1>1, <1>11 DEF ToDrop, Same
    <2> QED BY <1>2, <1>8, <2>1
  <1>12. CASE ToKeep
    <2>1. PICK c \in 1 .. n : /\ frames[c].on = "keep" /\ Len(frames') = c /\ result' = result
                              /\ \A i \in 1 .. c - 1 : frames'[i] = frames[i]
                              /\ frames'[c].on = frames[c].on
      BY <1>1, <1>12 DEF ToKeep, Same, SameObject
    <2>2. ~Exposed(frames', c)
      BY <1>2, <2>1 DEF Exposed, Catching
    <2>3. \A i \in 1 .. c : Exposed(frames', i) => Exposed(frames, i)
      BY <1>2, <2>1 DEF Exposed
    <2> QED BY <1>2, <1>3, <2>1, <2>2, <2>3 DEF LocalStack
  <1>13. CASE ToEnd
    <2>1. LocalStack(frames')
      BY <1>13 DEF ToEnd, LocalStack
    <2>2. ASSUME result'.cut, result'.end # "thrown" PROVE FALSE
      <3>1. /\ \A i \in 1 .. n : frames[i].on \notin Catching
            /\ \E i \in 1 .. n - 1 : Head(frames[i].steps).count = "many"
        BY <1>1, <1>13, <2>2 DEF ToEnd
      <3>2. \A i \in 1 .. n - 1 : Exposed(frames, i + 1)
        BY <1>2, <3>1 DEF Exposed
      <3> QED BY <1>3, <3>1, <3>2
    <2> QED BY <2>1, <2>2
  <1> QED BY <1>5, <1>6, <1>7, <1>9, <1>10, <1>11, <1>12, <1>13 DEF Shapes

LEMMA LocalStep ==
  ASSUME CallInv, FreshInv, ReadInv, LocalInv, [Next]_vars PROVE LocalInv'
  <1> SUFFICES ASSUME call'.via = "stream"
               PROVE  LocalStack(frames') /\ (result'.cut => result'.end = "thrown")
    BY DEF LocalInv, LocalStack, Exposed
  <1>1. CASE UNCHANGED vars
    BY <1>1 DEF vars, LocalInv, LocalStack, Exposed
  <1>2. CASE Reads
    <2>1. IsStack(frames) /\ frames # <<>> /\ IsStack(frames') /\ Shapes /\ call' = call
      BY <1>2, ReadsShape, ReadsLeave DEF ReadInv
    <2> QED BY <2>1, LocalReads DEF LocalInv
  <1>3. CASE Begins
    <2>1. Local(Document(call'))
      <3>1. call'.parser \in DOMAIN crack
        BY <1>3 DEF Begins, Sourced, Methods
      <3> QED BY <3>1, LocalStreams DEF Document
    <2>2. Runs("local", {}, Document(call'))
      BY <2>1, RunsFromStart DEF Local
    <2>3. Len(frames') = 1 /\ frames'[1].steps = Document(call')
      BY <1>3, FirstFrame DEF Begins
    <2>4. result'.cut => result'.end = "thrown"
      BY <1>3, EmptyResult DEF Begins
    <2> QED BY <2>2, <2>3, <2>4 DEF LocalStack
  <1>4. CASE Idles
    BY <1>4 DEF Idles, LocalStack
  <1> QED BY <1>1, <1>2, <1>3, <1>4, Around

\* In every stream message, an entry that cannot be read costs one callback:
\* the try blocks inside the loops of the crack functions are placed so that no
\* error of the document's shape gets past a loop that has entries to come; and
\* the error these blocks let through, that of a conversion, arises in the
\* expiry of an outcomeMetaUpdates entry and nowhere else.
THEOREM EntriesAreLostSingly == Spec => []LossIsLocal
  <1>1. Init => LocalInv
    <2> SUFFICES ASSUME Init PROVE LocalInv
      OBVIOUS
    <2>1. frames = <<>> /\ result = NoResult
      BY DEF Init
    <2> QED BY <2>1, EmptyResult DEF LocalInv, LocalStack
  <1>2. CallInv /\ FreshInv /\ ReadInv /\ LocalInv /\ [Next]_vars => LocalInv'
    BY LocalStep
  <1>3. LocalInv /\ QuietInv => LossIsLocal
    BY DEF LocalInv, QuietInv, MustNotThrow, LossIsLocal
  <1> QED BY <1>1, <1>2, <1>3, CallInvariant, SimpleInvariant, ReadInvariant, QuietInvariant,
             PTL DEF Spec

-----------------------------------------------------------------------------
(* Answers of RestApi keep their lists in order and without gaps. *)

Unskipped(s) == Obeys("unskipped", {}, s)
Ordered(s) == Obeys("ordered", {}, s)

LEMMA UnskippedRules ==
  /\ Unskipped(<<>>)
  /\ \A s, t : Unskipped(s) /\ Unskipped(t) => Unskipped(s \o t)
  /\ \A members : Unskipped(Assign(members))
  /\ \A names : IsSeq(names) =>
        /\ Unskipped(Plain(names)) /\ Unskipped(Present(Plain(names)))
        /\ Unskipped(Nullable(Plain(names))) /\ Unskipped(Soft(Plain(names)))
        /\ Unskipped(Number(names)) /\ Unskipped(Present(Number(names)))
        /\ Unskipped(Nullable(Number(names))) /\ Unskipped(Soft(Number(names)))
        /\ Unskipped(Expiry(names))
  /\ \A own, s :
        /\ Unskipped(Each(own, s)) /\ Unskipped(Present(Each(own, s)))
        /\ Unskipped(Nullable(Each(own, s))) /\ Unskipped(Soft(Each(own, s)))
        /\ Unskipped(One(own, s)) /\ Unskipped(Present(One(own, s)))
        /\ Unskipped(Nullable(One(own, s))) /\ Unskipped(Soft(One(own, s)))
        /\ Unskipped(OneCaught(own, s))
  /\ \A a, b, c : Unskipped(a) /\ Unskipped(b) /\ Unskipped(c) => Unskipped(Alt(<<a, b, c>>))
  /\ \A a, b, c, d : Unskipped(a) /\ Unskipped(b) /\ Unskipped(c) /\ Unskipped(d)
        => Unskipped(Alt(<<a, b, c, d>>))
  <1>1. Unskipped(<<>>) /\ \A members : Unskipped(Assign(members))
    BY StepRules DEF Unskipped
  <1>2. \A s, t : Unskipped(s) /\ Unskipped(t) => Unskipped(s \o t)
    BY JoinObeys DEF Unskipped
  <1>3. ASSUME NEW names, IsSeq(names)
        PROVE  /\ Unskipped(Plain(names)) /\ Unskipped(Present(Plain(names)))
               /\ Unskipped(Nullable(Plain(names))) /\ Unskipped(Soft(Plain(names)))
               /\ Unskipped(Number(names)) /\ Unskipped(Present(Number(names)))
               /\ Unskipped(Nullable(Number(names))) /\ Unskipped(Soft(Number(names)))
               /\ Unskipped(Expiry(names))
    BY <1>3, FieldRules DEF Unskipped
  <1>4. \A count, on, own, s, mode :
            mode # "element" => Unskipped(Loop(count, mode, on, own, s))
    BY AnyLoopObeys DEF Unskipped
  <1>5. ASSUME NEW own, NEW s
        PROVE  /\ Unskipped(Each(own, s)) /\ Unskipped(Present(Each(own, s)))
               /\ Unskipped(Nullable(Each(own, s))) /\ Unskipped(Soft(Each(own, s)))
               /\ Unskipped(One(own, s)) /\ Unskipped(Present(One(own, s)))
               /\ Unskipped(Nullable(One(own, s))) /\ Unskipped(Soft(One(own, s)))
               /\ Unskipped(OneCaught(own, s))
    BY <1>4, LoopTerms
  <1>6. /\ \A a, b, c : Unskipped(a) /\ Unskipped(b) /\ Unskipped(c)
              => Unskipped(Alt(<<a, b, c>>))
        /\ \A a, b, c, d : Unskipped(a) /\ Unskipped(b) /\ Unskipped(c) /\ Unskipped(d)
              => Unskipped(Alt(<<a, b, c, d>>))
    BY AltRules, Zenon DEF Unskipped
  <1> QED BY <1>1, <1>2, <1>3, <1>5, <1>6, Zenon

LEMMA OrderedRules ==
  /\ Ordered(<<>>) /\ Ordered(MayReturn)
  /\ \A s, t : Ordered(s) /\ Ordered(t) => Ordered(s \o t)
  /\ \A members : Ordered(Assign(members)) /\ Ordered(Declare(members))
  /\ \A s : Ordered(s) => Ordered(Status(s))
  /\ \A names : IsSeq(names) =>
        /\ Ordered(Plain(names)) /\ Ordered(Present(Plain(names)))
        /\ Ordered(Nullable(Plain(names))) /\ Ordered(Soft(Plain(names)))
        /\ Ordered(Number(names)) /\ Ordered(Present(Number(names)))
        /\ Ordered(Nullable(Number(names))) /\ Ordered(Soft(Number(names)))
        /\ Ordered(Expiry(names))
  /\ \A own, s : Unskipped(s) =>
        /\ Ordered(Each(own, s)) /\ Ordered(Present(Each(own, s)))
        /\ Ordered(Nullable(Each(own, s))) /\ Ordered(Soft(Each(own, s)))
  /\ \A own, s :
        /\ Ordered(One(own, s)) /\ Ordered(Present(One(own, s)))
        /\ Ordered(Nullable(One(own, s))) /\ Ordered(Soft(One(own, s)))
        /\ Ordered(OneCaught(own, s))
  /\ \A a, b : Ordered(a) /\ Ordered(b) => Ordered(Alt(<<a, b>>))
  /\ \A a, b, c : Ordered(a) /\ Ordered(b) /\ Ordered(c) => Ordered(Alt(<<a, b, c>>))
  <1>1. Ordered(<<>>) /\ \A members : Ordered(Assign(members)) /\ Ordered(Declare(members))
    BY StepRules DEF Ordered
  <1>2. Ordered(MayReturn)
    BY MayReturnObeys DEF Ordered
  <1>3. \A s, t : Ordered(s) /\ Ordered(t) => Ordered(s \o t)
    BY JoinObeys DEF Ordered
  <1>4. \A s : Ordered(s) => Ordered(Status(s))
    BY StatusObeys DEF Ordered
  <1>5. ASSUME NEW names, IsSeq(names)
        PROVE  /\ Ordered(Plain(names)) /\ Ordered(Present(Plain(names)))
               /\ Ordered(Nullable(Plain(names))) /\ Ordered(Soft(Plain(names)))
               /\ Ordered(Number(names)) /\ Ordered(Present(Number(names)))
               /\ Ordered(Nullable(Number(names))) /\ Ordered(Soft(Number(names)))
               /\ Ordered(Expiry(names))
    BY <1>5, FieldRules DEF Ordered
  <1>6. ASSUME NEW own, NEW s, Unskipped(s)
        PROVE  \A count, mode, on : on # "drop" => Ordered(Loop(count, mode, on, own, s))
    <2>1. Obeys(Below("ordered"), {}, s)
      BY <1>6 DEF Unskipped, Below
    <2> QED BY <2>1, LoopAbove DEF Ordered
  <1>7. ASSUME NEW own, NEW s, Unskipped(s)
        PROVE  /\ Ordered(Each(own, s)) /\ Ordered(Present(Each(own, s)))
               /\ Ordered(Nullable(Each(own, s))) /\ Ordered(Soft(Each(own, s)))
    <2>1. \A count, mode, on : on # "drop" => Ordered(Loop(count, mode, on, own, s))
      BY <1>6, <1>7
    <2> QED BY <2>1, LoopTerms
  <1>8. /\ \A a, b : Ordered(a) /\ Ordered(b) => Ordered(Alt(<<a, b>>))
        /\ \A a, b, c : Ordered(a) /\ Ordered(b) /\ Ordered(c) => Ordered(Alt(<<a, b, c>>))
    BY AltRules, Zenon DEF Ordered
  <1>9. \A own, s, mode, on : on # "drop" => Ordered(Loop("one", mode, on, own, s))
    BY AnyLoopObeys DEF Ordered
  <1>10. ASSUME NEW own, NEW s
         PROVE  /\ Ordered(One(own, s)) /\ Ordered(Present(One(own, s)))
                /\ Ordered(Nullable(One(own, s))) /\ Ordered(Soft(One(own, s)))
                /\ Ordered(OneCaught(own, s))
    BY <1>9, LoopTerms
  <1> QED BY <1>1, <1>2, <1>3, <1>4, <1>5, <1>7, <1>8, <1>10, Zenon

LEMMA UnskippedLedgerDelta == Unskipped(parseLedgerUpdateDelta)
  <1> DEFINE transfer == Number(<<"usdc">>) \o Plain(<<"user", "destination">>)
             a == Plain(<<"coin">>) \o Number(<<"fundingRate", "szi", "usdc">>)
                  \o Nullable(Number(<<"nSamples">>))
             b == Number(<<"usdc">>)
             c == Number(<<"usdc", "fee">>) \o Soft(Plain(<<"nonce">>))
             d == Number(<<"usdc">>) \o Soft(Plain(<<"toPerp">>))
             e == transfer \o Number(<<"fee">>)
             f == Plain(<<"token">>) \o Number(<<"amount", "usdcValue">>)
                  \o Plain(<<"user", "destination">>) \o Number(<<"fee", "nativeTokenFee">>)
             g == Soft(Plain(<<"rawJson">>))
             S == {a, b, c, d, e, transfer, f, g}
  <1>1. Unskipped(transfer) /\ Unskipped(a) /\ Unskipped(b) /\ Unskipped(c)
    BY UnskippedRules, NamesAreSeqs, Zenon
  <1>2. Unskipped(d) /\ Unskipped(e) /\ Unskipped(f) /\ Unskipped(g)
    BY UnskippedRules, NamesAreSeqs, Zenon
  <1>3. parseLedgerUpdateDelta = Plain(<<"type">>) \o Alt(<<a, b, c, d, e, transfer, f, g>>)
    BY DEF parseLedgerUpdateDelta
  <1> HIDE DEF transfer, a, b, c, d, e, f, g
  <1>4. \A s \in S : Unskipped(s)
    BY <1>1, <1>2, Zenon
  <1>5. <<a, b, c, d, e, transfer, f, g>> \in Seq(S)
    OBVIOUS
  <1> HIDE DEF S
  <1>6. Unskipped(Alt(<<a, b, c, d, e, transfer, f, g>>))
    BY <1>4, <1>5, AltObeys, Zenon DEF Unskipped
  <1>7. Unskipped(Plain(<<"type">>))
    BY UnskippedRules, NamesAreSeqs, Zenon
  <1> QED BY <1>3, <1>6, <1>7, UnskippedRules, Zenon

LEMMA OrderedActions == \A parser \in ActionParsers : Ordered(Parsers[parser])
  <1> USE OrderedRules, UnskippedRules, NamesAreSeqs
  <1>1. Ordered(parseSimpleResponse)
    BY Zenon DEF parseSimpleResponse
  <1>2. Ordered(orderStatuses)
    BY Zenon DEF orderStatuses, orderStatus
  <1>3. Ordered(parsePlaceOrder) /\ Ordered(parseModifyOrder)
    BY <1>2, Zenon DEF parsePlaceOrder, parseModifyOrder
  <1>4. Ordered(parseCancelOrder)
    BY Zenon DEF parseCancelOrder
  <1>5. Ordered(parseTwapOrder) /\ Ordered(parseTwapCancel)
    BY Zenon DEF parseTwapOrder, parseTwapCancel
  <1>6. Ordered(parseCreateSubAccount) /\ Ordered(parseCreateVault)
    BY Zenon DEF parseCreateSubAccount, parseCreateVault
  <1> HIDE OrderedRules, UnskippedRules, NamesAreSeqs
  <1> QED BY <1>1, <1>3, <1>4, <1>5, <1>6, RestBranches DEF ActionParsers

LEMMA OrderedMetadata ==
  /\ Ordered(parseOutcomeMeta) /\ Ordered(parseSettledOutcome) /\ Ordered(parsePerpDexs)
  /\ Ordered(parsePerpDexStatus) /\ Ordered(parsePerpsAtOpenInterestCap)
  /\ Ordered(parsePerpAnnotation) /\ Ordered(parseAllPerpMetas)
  /\ Ordered(parsePerpDeployAuctionStatus) /\ Ordered(parseMeta) /\ Ordered(parseSpotMeta)
  /\ Ordered(parseMetaAndAssetCtxs) /\ Ordered(parseSpotMetaAndAssetCtxs)
  /\ Ordered(parseSpotPairDeployAuctionStatus) /\ Ordered(parseSpotDeployState)
  /\ Ordered(parseExchangeStatus)
  <1> USE OrderedRules, UnskippedRules, NamesAreSeqs
  <1>1. Unskipped(parseOutcomeSpec)
    BY Zenon DEF parseOutcomeSpec
  <1>2. Ordered(parseOutcomeMeta)
    BY <1>1, Zenon DEF parseOutcomeMeta
  <1>3. Ordered(parseSettledOutcome)
    BY Zenon DEF parseSettledOutcome, parseOutcomeSpec
  <1>4. Ordered(parsePerpDexs)
    BY Zenon DEF parsePerpDexs, pairsOf
  <1>5. Ordered(parsePerpDexStatus) /\ Ordered(parsePerpsAtOpenInterestCap)
        /\ Ordered(parsePerpAnnotation)
    BY Zenon DEF parsePerpDexStatus, parsePerpsAtOpenInterestCap, parsePerpAnnotation
  <1>6. Ordered(parseAllPerpMetas)
    BY Zenon DEF parseAllPerpMetas
  <1>7. Ordered(deployAuctionStatus) /\ Unskipped(deployAuctionStatus)
    BY Zenon DEF deployAuctionStatus
  <1>8. Ordered(parsePerpDeployAuctionStatus) /\ Ordered(parseSpotPairDeployAuctionStatus)
    BY <1>7, Zenon DEF parsePerpDeployAuctionStatus, parseSpotPairDeployAuctionStatus,
                       parseSpotPairDeployAuctionStatusObj
  <1>9. Unskipped(parseAssetMeta) /\ Unskipped(parseSpotAssetMeta)
    BY Zenon DEF parseAssetMeta, parseSpotAssetMeta
  <1>10. Ordered(parseMeta) /\ Ordered(parseSpotMeta) /\ Ordered(universe)
    BY <1>9, Zenon DEF parseMeta, parseSpotMeta, universe
  <1>11. Unskipped(parsePerpAssetCtx)
    BY Zenon DEF parsePerpAssetCtx
  <1>12. Ordered(parseMetaAndAssetCtxs)
    BY <1>10, <1>11, Zenon DEF parseMetaAndAssetCtxs
  <1>13. Ordered(parseSpotMetaAndAssetCtxs)
    BY <1>9, Zenon DEF parseSpotMetaAndAssetCtxs
  <1>14. Ordered(parseSpotDeployState)
    BY <1>7, Zenon DEF parseSpotDeployState, parseSpotPairDeployAuctionStatusObj, pairsOf
  <1>15. Ordered(parseExchangeStatus)
    BY Zenon DEF parseExchangeStatus
  <1> HIDE OrderedRules, UnskippedRules, NamesAreSeqs
  <1> QED BY <1>2, <1>3, <1>4, <1>5, <1>6, <1>8, <1>10, <1>12, <1>13, <1>14, <1>15

LEMMA OrderedTrading ==
  /\ Ordered(parseL2Book) /\ Ordered(parseCandleSnapshot) /\ Ordered(parseRecentTrades)
  /\ Ordered(parseAllMids) /\ Ordered(parseFundingHistory) /\ Ordered(parseUserFills)
  /\ Ordered(parseUserFillsByTime) /\ Ordered(parseUserTwapSliceFills)
  /\ Ordered(parseUserTwapSliceFillsByTime) /\ Ordered(parseOpenOrders)
  /\ Ordered(parseOrderStatus) /\ Ordered(parseFrontendOpenOrders)
  /\ Ordered(parseHistoricalOrders)
  <1> USE OrderedRules, UnskippedRules, NamesAreSeqs
  <1>1. Ordered(parseL2Book)
    BY Zenon DEF parseL2Book
  <1>2. Ordered(parseCandleSnapshot) /\ Ordered(parseRecentTrades)
    BY Zenon DEF parseCandleSnapshot, parseRecentTrades
  <1>3. Ordered(parseAllMids) /\ Ordered(parseFundingHistory)
    BY Zenon DEF parseAllMids, parseFundingHistory
  <1>4. Unskipped(parseFillEntry)
    BY Zenon DEF parseFillEntry
  <1>5. Ordered(parseUserFills)
    BY <1>4, Zenon DEF parseUserFills
  <1>6. Ordered(parseUserTwapSliceFills)
    BY Zenon DEF parseUserTwapSliceFills
  <1>7. Ordered(parseUserFillsByTime) /\ Ordered(parseUserTwapSliceFillsByTime)
    BY <1>5, <1>6, Zenon DEF parseUserFillsByTime, parseUserTwapSliceFillsByTime
  <1>8. Unskipped(parseOpenOrderEntry)
    BY Zenon DEF parseOpenOrderEntry
  <1>9. Ordered(parseOpenOrders) /\ Ordered(parseOrderStatus)
    BY <1>8, Zenon DEF parseOpenOrders, parseOrderStatus
  <1>10. Unskipped(parseFrontendOrderEntry)
    BY <1>8, Zenon DEF parseFrontendOrderEntry
  <1>11. Ordered(parseFrontendOpenOrders) /\ Ordered(parseHistoricalOrders)
    BY <1>10, Zenon DEF parseFrontendOpenOrders, parseHistoricalOrders
  <1> HIDE OrderedRules, UnskippedRules, NamesAreSeqs
  <1> QED BY <1>1, <1>2, <1>3, <1>5, <1>6, <1>7, <1>9, <1>11

LEMMA OrderedAccounts ==
  /\ Ordered(parseClearinghouseState) /\ Ordered(parseSpotClearinghouseState)
  /\ Ordered(parseSubAccounts) /\ Ordered(parseActiveAssetData) /\ Ordered(parseUserFees)
  /\ Ordered(parseMaxBuilderFee) /\ Ordered(parseApprovedBuilders)
  /\ Ordered(parseUserDexAbstractionState) /\ Ordered(parseUserAbstraction)
  /\ Ordered(parseUserRateLimit) /\ Ordered(parsePortfolio) /\ Ordered(parseVaultDetails)
  /\ Ordered(parseUserVaultEquities) /\ Ordered(parseReferral) /\ Ordered(parseUserRole)
  <1> USE OrderedRules, UnskippedRules, NamesAreSeqs
  <1>1. Unskipped(marginSummary)
    BY Zenon DEF marginSummary
  <1>2. Ordered(parseClearinghouseStateObj) /\ Unskipped(parseClearinghouseStateObj)
    BY <1>1, Zenon DEF parseClearinghouseStateObj
  <1>3. Ordered(parseClearinghouseState)
    BY <1>2, Zenon DEF parseClearinghouseState
  <1>4. Unskipped(parseSpotClearinghouseStateObj)
    BY Zenon DEF parseSpotClearinghouseStateObj
  <1>5. Ordered(parseSpotClearinghouseState)
    BY <1>4, Zenon DEF parseSpotClearinghouseState
  <1>6. Ordered(parseSubAccounts)
    BY <1>2, <1>4, Zenon DEF parseSubAccounts
  <1>7. Ordered(parseActiveAssetData)
    BY Zenon DEF parseActiveAssetData
  <1>8. Ordered(parseUserFees)
    BY Zenon DEF parseUserFees
  <1>9. Ordered(parseMaxBuilderFee) /\ Ordered(parseApprovedBuilders)
        /\ Ordered(parseUserDexAbstractionState)
    BY Zenon DEF parseMaxBuilderFee, parseApprovedBuilders, parseUserDexAbstractionState
  <1>10. Ordered(parseUserAbstraction) /\ Ordered(parseUserRateLimit)
    BY Zenon DEF parseUserAbstraction, parseUserRateLimit
  <1>11. Unskipped(parsePortfolioArray)
    BY Zenon DEF parsePortfolioArray
  <1>12. Ordered(parsePortfolio)
    BY <1>11, Zenon DEF parsePortfolio
  <1>13. Ordered(parseVaultDetails)
    BY <1>11, Zenon DEF parseVaultDetails
  <1>14. Ordered(parseUserVaultEquities) /\ Ordered(parseUserRole)
    BY Zenon DEF parseUserVaultEquities, parseUserRole
  <1>15. Ordered(parseReferral)
    BY Zenon DEF parseReferral, rewards
  <1> HIDE OrderedRules, UnskippedRules, NamesAreSeqs
  <1> QED BY <1>3, <1>5, <1>6, <1>7, <1>8, <1>9, <1>10, <1>12, <1>13, <1>14, <1>15

LEMMA OrderedLedgers ==
  /\ Ordered(parseDelegations) /\ Ordered(parseDelegatorSummary)
  /\ Ordered(parseDelegatorHistory) /\ Ordered(parseDelegatorRewards)
  /\ Ordered(parseBorrowLendReserveState) /\ Ordered(parseUserBorrowLendInterest)
  /\ Ordered(parseLiquidatable) /\ Ordered(parseUserFunding)
  /\ Ordered(parseUserNonFundingLedgerUpdates)
  <1> USE OrderedRules, UnskippedRules, NamesAreSeqs
  <1>1. Ordered(parseDelegations) /\ Ordered(parseDelegatorSummary)
    BY Zenon DEF parseDelegations, parseDelegatorSummary
  <1>2. Ordered(parseDelegatorHistory) /\ Ordered(parseDelegatorRewards)
    BY Zenon DEF parseDelegatorHistory, parseDelegatorRewards
  <1>3. Unskipped(parseBorrowLendReserveStateFields)
    BY Zenon DEF parseBorrowLendReserveStateFields
  <1>4. Ordered(parseBorrowLendReserveState) /\ Ordered(parseUserBorrowLendInterest)
    BY <1>3, Zenon DEF parseBorrowLendReserveState, parseUserBorrowLendInterest
  <1>5. Ordered(parseLiquidatable)
    BY Zenon DEF parseLiquidatable
  <1>6. Ordered(parseUserFundingLedgerUpdateResponse)
    BY UnskippedLedgerDelta, Zenon DEF parseUserFundingLedgerUpdateResponse
  <1>7. Ordered(parseUserFunding) /\ Ordered(parseUserNonFundingLedgerUpdates)
    BY <1>6, Zenon DEF parseUserFunding, parseUserNonFundingLedgerUpdates
  <1> HIDE OrderedRules, UnskippedRules, NamesAreSeqs
  <1> QED BY <1>1, <1>2, <1>4, <1>5, <1>7

LEMMA OrderedParsers ==
  \A parser \in DOMAIN Parsers \ SkippingParsers : Ordered(Parsers[parser])
  <1> SUFFICES ASSUME NEW parser \in DOMAIN Parsers \ SkippingParsers
               PROVE  Ordered(Parsers[parser])
    OBVIOUS
  <1>1. CASE parser \in ActionParsers
    BY <1>1, OrderedActions
  <1>2. CASE parser \notin ActionParsers
    BY <1>2, RestBranches, OrderedMetadata, OrderedTrading, OrderedAccounts, OrderedLedgers
       DEF ActionParsers, SkippingParsers
  <1> QED BY <1>1, <1>2

\* Lists that are 1, 2, 3 and so on.
Counts == {l \in Seq(Nat) : \A n \in 1 .. Len(l) : l[n] = n}

\* The outermost object is between two entries of its latest list: the list has
\* all those taken so far, unless it is a single object that was given up.
BetweenEntries(f, ls) ==
    f.steps # <<>> /\ Head(f.steps).op = "entries" =>
        /\ ls # <<>>
        /\ \/ Head(f.steps).taken = Len(Last(ls))
           \/ Head(f.steps).taken > 0 /\ Head(f.steps).count = "one"

\* It is at the entry e, which the list has not.
InsideEntry(f, e, ls) ==
    /\ f.steps # <<>> /\ Head(f.steps).op = "entries" /\ ls # <<>>
    /\ Head(f.steps).taken = Len(Last(ls)) + 1
    /\ e.index = Head(f.steps).taken /\ e.on # "drop"
    /\ Head(f.steps).count # "one" => Runs("unskipped", {}, e.steps)

OrderedStack(fs, ls) ==
    fs # <<>> =>
        /\ fs[1].on = "raise" /\ Runs("ordered", {}, fs[1].steps)
        /\ ls \in Seq(Counts)
        /\ Len(fs) = 1 => BetweenEntries(fs[1], ls)
        /\ Len(fs) > 1 => InsideEntry(fs[1], fs[2], ls)

OrderedInv ==
    call.via \in RestTransports /\ call.parser \notin SkippingParsers =>
        OrderedStack(frames, lists) /\ result.lists \in Seq(Counts)

LEMMA ListBegun ==
  ASSUME NEW ls \in Seq(Counts), NEW new, new = Append(ls, <<>>)
  PROVE  new \in Seq(Counts) /\ new # <<>> /\ Len(Last(new)) = 0
  <1>1. <<>> \in Counts
    BY DEF Counts
  <1>2. PICK l : l = <<>> /\ l \in Counts
    BY <1>1
  <1>3. new \in Seq(Counts) /\ Len(new) = Len(ls) + 1 /\ new[Len(ls) + 1] = l
    BY <1>2
  <1>4. new # <<>> /\ Last(new) = l
    BY <1>3 DEF Last
  <1> QED BY <1>2, <1>3, <1>4

LEMMA ListExtended ==
  ASSUME NEW ls \in Seq(Counts), ls # <<>>, NEW k, k = Len(Last(ls)) + 1,
         NEW new, new = Append(Front(ls), Append(Last(ls), k))
  PROVE  new \in Seq(Counts) /\ new # <<>> /\ Len(Last(new)) = k
  <1>1. PICK l : l = Last(ls)
    OBVIOUS
  <1>2. l \in Counts
    BY <1>1 DEF Last
  <1>3. l \in Seq(Nat) /\ k = Len(l) + 1 /\ k \in Nat /\ \A n \in 1 .. Len(l) : l[n] = n
    BY <1>1, <1>2 DEF Counts
  <1>4. PICK m : m = Append(l, k)
    OBVIOUS
  <1>5. /\ m \in Seq(Nat) /\ Len(m) = Len(l) + 1 /\ m[Len(l) + 1] = k
        /\ \A n \in 1 .. Len(l) : m[n] = l[n]
    BY <1>3, <1>4
  <1>6. ASSUME NEW n \in 1 .. Len(m) PROVE m[n] = n
    <2>1. CASE n \in 1 .. Len(l)
      BY <1>3, <1>5, <2>1
    <2>2. CASE n = Len(l) + 1
      BY <1>3, <1>5, <2>2
    <2>3. Len(l) \in Nat
      BY <1>3
    <2> QED BY <1>5, <2>1, <2>2, <2>3
  <1>7. m \in Counts
    BY <1>5, <1>6 DEF Counts
  <1>8. PICK fs : fs = Front(ls)
    OBVIOUS
  <1>9. fs \in Seq(Counts)
    BY <1>8 DEF Front
  <1>10. new = Append(fs, m)
    BY <1>1, <1>4, <1>8
  <1>11. new \in Seq(Counts) /\ Len(new) = Len(fs) + 1 /\ new[Len(fs) + 1] = m
    <2>1. /\ Append(fs, m) \in Seq(Counts) /\ Len(Append(fs, m)) = Len(fs) + 1
          /\ Append(fs, m)[Len(fs) + 1] = m
      BY <1>7, <1>9, AppendProperties, Zenon
    <2> QED BY <1>10, <2>1
  <1>12. new # <<>> /\ Last(new) = m
    BY <1>9, <1>11 DEF Last
  <1> QED BY <1>3, <1>5, <1>11, <1>12

LEMMA LastLength ==
  ASSUME NEW ls \in Seq(Counts), ls # <<>>
  PROVE  Len(Last(ls)) \in Nat
  <1>1. Last(ls) \in Counts
    BY DEF Last
  <1> QED BY <1>1 DEF Counts

\* Before its first entry and after its last, an object is not in a list.
LEMMA NotEntries ==
  ASSUME NEW kind, NEW A, NEW s, Obeys(kind, A, s), s # <<>>
  PROVE  Head(s).op # "entries"
  <1>1. PICK D, E : Sound(kind, A, D, E) /\ s \in Seq(D)
    BY DEF Obeys
  <1>2. Head(s) \in D
    BY <1>1
  <1> QED BY <1>1, <1>2 DEF Sound, Closed

\* Frame 1, when it is alone.
LEMMA OrderedOuter ==
  ASSUME IsStack(frames), Len(frames) = 1, IsStack(frames'), Shapes,
         OrderedStack(frames, lists)
  PROVE  ToEnd \/ OrderedStack(frames', lists')
  <1>1. frames # <<>>
    <2>1. Len(<<>>) = 0
      OBVIOUS
    <2> QED BY <2>1
  <1>2. PICK f : f = frames[1]
    OBVIOUS
  <1>3. /\ f.on = "raise" /\ Runs("ordered", {}, f.steps) /\ lists \in Seq(Counts)
        /\ BetweenEntries(f, lists)
    BY <1>1, <1>2 DEF OrderedStack
  <1>4. PICK g : g = frames'[1]
    OBVIOUS
  <1>5. CASE ToAdvance
    <2>1. Advance(f, g) /\ lists' = lists /\ Len(frames') = 1
      BY <1>2, <1>4, <1>5 DEF ToAdvance
    <2>2. Obeys("ordered", {}, g.steps) /\ g.on = "raise"
      BY <1>3, <2>1, RunsAdvance DEF Advance, SameObject
    <2>3. g.steps # <<>> => Head(g.steps).op # "entries"
      BY <2>2, NotEntries
    <2>4. BetweenEntries(g, lists')
      BY <2>3 DEF BetweenEntries
    <2> QED BY <1>3, <1>4, <2>1, <2>2, <2>4, RunsFromStart DEF OrderedStack
  <1>6. CASE ToOpen
    <2>1. Opens(f, g) /\ lists' = Append(lists, <<>>) /\ Len(frames') = 1
      BY <1>2, <1>4, <1>6 DEF ToOpen
    <2>2. /\ Runs("ordered", {}, g.steps) /\ Head(g.steps) = Entries(Head(f.steps), 0)
          /\ g.on = "raise"
      <3>1. Runs("ordered", {}, f.steps) /\ Opens(f, g)
        BY <1>3, <2>1
      <3>3. Runs("ordered", {}, g.steps) /\ Head(g.steps) = Entries(Head(f.steps), 0)
        BY <3>1, RunsOpens, Zenon
      <3>2. g.on = f.on
        BY <2>1 DEF Opens, SameObject
      <3> QED BY <1>3, <3>2, <3>3
    <2>3. Head(g.steps).taken = 0
      BY <2>2, EntriesMembers
    <2>4. lists' \in Seq(Counts) /\ lists' # <<>> /\ Len(Last(lists')) = 0
      BY <1>3, <2>1, ListBegun
    <2>5. BetweenEntries(g, lists')
      BY <2>3, <2>4 DEF BetweenEntries
    <2> QED BY <1>4, <2>1, <2>2, <2>4, <2>5 DEF OrderedStack
  <1>7. CASE ToEnter
    <2>1. PICK e : e = frames'[2]
      OBVIOUS
    <2>2. Enters(f, g, e) /\ lists' = lists /\ Len(frames') = 2
      BY <1>2, <1>4, <1>7, <2>1 DEF ToEnter
    <2>3. Runs("ordered", {}, g.steps) /\ g.steps # <<>> /\ g.on = "raise"
      <3>1. Runs("ordered", {}, g.steps) /\ g.steps # <<>>
        BY <1>3, <2>2, RunsEnters, Zenon
      <3>2. g.on = f.on
        BY <2>2 DEF Enters, SameObject
      <3> QED BY <1>3, <3>1, <3>2
    <2>4. PICK D, E, h, k : Sound("ordered", {}, D, E) /\ h \in D /\ IsEntry(f, g, e, h, k)
      BY <1>3, <2>2, RunsEnters, Zenon
    <2>5. /\ h.op = "each" /\ k \in Nat /\ (h.count = "one" => k = 0)
          /\ Head(f.steps) = Entries(h, k) /\ Head(g.steps) = Entries(h, k + 1)
          /\ e.on = h.on /\ e.index = k + 1 /\ e.steps = h.steps
      BY <2>4 DEF IsEntry
    <2>6. /\ Head(f.steps).op = "entries" /\ Head(f.steps).taken = k
          /\ Head(f.steps).count = h.count
          /\ Head(g.steps).op = "entries" /\ Head(g.steps).taken = k + 1
          /\ Head(g.steps).count = h.count
      BY <2>5, EntriesMembers
    <2>7. f.steps # <<>>
      BY <2>2 DEF Enters
    <2>8. lists # <<>> /\ Len(Last(lists)) = k
      BY <1>3, <2>5, <2>6, <2>7 DEF BetweenEntries
    <2>9. h.on # "drop" /\ (h.count # "one" => h.steps \in Seq(E))
      BY <2>4, <2>5 DEF Sound, Allows
    <2>10. h.count # "one" => Runs("unskipped", {}, e.steps)
      <3>1. Sound("unskipped", {}, E, {})
        <4>1. Closed({})
          BY DEF Closed
        <4> QED BY <2>4, <4>1 DEF Sound, Below
      <3>2. h.count # "one" => Obeys("unskipped", {}, e.steps)
        BY <2>5, <2>9, <3>1 DEF Obeys
      <3> QED BY <3>2, RunsFromStart
    <2>11. InsideEntry(g, e, lists')
      BY <2>2, <2>3, <2>5, <2>6, <2>8, <2>9, <2>10 DEF InsideEntry
    <2> QED BY <1>3, <1>4, <2>1, <2>2, <2>3, <2>11 DEF OrderedStack
  <1>8. CASE ToTake
    BY <1>8 DEF ToTake
  <1>9. CASE ToSkip
    <2>1. Len(frames') = 0
      BY <1>9 DEF ToSkip
    <2>2. frames' = <<>>
      BY <2>1 DEF IsStack
    <2> QED BY <2>2 DEF OrderedStack
  <1>10. CASE ToDrop
    BY <1>2, <1>3, <1>10 DEF ToDrop
  <1>11. CASE ToKeep
    BY <1>2, <1>3, <1>11 DEF ToKeep
  <1> QED BY <1>5, <1>6, <1>7, <1>8, <1>9, <1>10, <1>11 DEF Shapes

\* Frame 1, with an entry under way.
LEMMA OrderedInner ==
  ASSUME IsStack(frames), Len(frames) > 1, IsStack(frames'), Shapes,
         OrderedStack(frames, lists)
  PROVE  ToEnd \/ OrderedStack(frames', lists')
  <1>1. PICK n : n = Len(frames)
    OBVIOUS
  <1>2. n \in Nat /\ n > 1 /\ frames # <<>>
    BY <1>1 DEF IsStack
  <1>3. PICK f : f = frames[1]
    OBVIOUS
  <1>4. PICK e : e = frames[2]
    OBVIOUS
  <1>5. /\ f.on = "raise" /\ Runs("ordered", {}, f.steps) /\ lists \in Seq(Counts)
        /\ InsideEntry(f, e, lists)
    BY <1>1, <1>2, <1>3, <1>4 DEF OrderedStack
  <1>6. ASSUME Len(frames') > 1, lists' = lists,
               frames'[1].on = f.on, frames'[1].steps = f.steps,
               frames'[2].on = e.on, frames'[2].index = e.index,
               Runs("unskipped", {}, e.steps) => Runs("unskipped", {}, frames'[2].steps)
        PROVE  OrderedStack(frames', lists')
    BY <1>5, <1>6 DEF OrderedStack, InsideEntry
  <1>7. ASSUME Len(frames') > 1, lists' = lists, Same(n - 1), n > 2 PROVE OrderedStack(frames', lists')
    <2>1. frames'[1] = f /\ frames'[2] = e
      BY <1>2, <1>3, <1>4, <1>7 DEF Same
    <2> QED BY <1>6, <1>7, <2>1
  <1>8. CASE ToAdvance
    <2>1. Len(frames') = n /\ lists' = lists /\ Same(n - 1) /\ Advance(frames[n], frames'[n])
      BY <1>1, <1>8 DEF ToAdvance
    <2>2. CASE n = 2
      <3>1. PICK g : g = frames'[2]
        OBVIOUS
      <3>2. Advance(e, g) /\ frames'[1] = f
        BY <1>3, <1>4, <2>1, <2>2, <3>1 DEF Same
      <3>3. Runs("unskipped", {}, e.steps) => Obeys("unskipped", {}, g.steps)
        <4>1. ASSUME Runs("unskipped", {}, e.steps) PROVE Obeys("unskipped", {}, g.steps)
          BY <3>2, <4>1, RunsAdvance
        <4> QED BY <4>1
      <3>4. g.on = e.on /\ g.index = e.index
        BY <3>2 DEF Advance, SameObject
      <3> QED BY <1>6, <2>1, <2>2, <3>1, <3>2, <3>3, <3>4, RunsFromStart
    <2> QED BY <1>2, <1>7, <2>1, <2>2
  <1>9. CASE ToOpen
    <2>1. Len(frames') = n /\ lists' = lists /\ Same(n - 1) /\ Opens(frames[n], frames'[n])
      BY <1>1, <1>2, <1>9 DEF ToOpen
    <2>2. CASE n = 2
      <3>1. PICK g : g = frames'[2]
        OBVIOUS
      <3>2. Opens(e, g) /\ frames'[1] = f
        BY <1>3, <1>4, <2>1, <2>2, <3>1 DEF Same
      <3>3. Runs("unskipped", {}, e.steps) => Runs("unskipped", {}, g.steps)
        <4>1. ASSUME Runs("unskipped", {}, e.steps) PROVE Runs("unskipped", {}, g.steps)
          BY <3>2, <4>1, RunsOpens
        <4> QED BY <4>1
      <3>4. g.on = e.on /\ g.index = e.index
        BY <3>2 DEF Opens, SameObject
      <3> QED BY <1>6, <2>1, <2>2, <3>1, <3>2, <3>3, <3>4
    <2> QED BY <1>2, <1>7, <2>1, <2>2
  <1>10. CASE ToEnter
    <2>1. /\ Len(frames') = n + 1 /\ lists' = lists /\ Same(n - 1)
          /\ Enters(frames[n], frames'[n], frames'[n + 1])
      BY <1>1, <1>10 DEF ToEnter
    <2>2. CASE n = 2
      <3>1. PICK g : g = frames'[2]
        OBVIOUS
      <3>2. PICK x : x = frames'[3]
        OBVIOUS
      <3>3. Enters(e, g, x) /\ frames'[1] = f
        BY <1>3, <1>4, <2>1, <2>2, <3>1, <3>2 DEF Same
      <3>4. Runs("unskipped", {}, e.steps) => Runs("unskipped", {}, g.steps)
        <4>1. ASSUME Runs("unskipped", {}, e.steps) PROVE Runs("unskipped", {}, g.steps)
          BY <3>3, <4>1, RunsEnters
        <4> QED BY <4>1
      <3>5. g.on = e.on /\ g.index = e.index
        BY <3>3 DEF Enters, SameObject
      <3> QED BY <1>6, <2>1, <2>2, <3>1, <3>3, <3>4, <3>5
    <2> QED BY <1>2, <1>7, <2>1, <2>2
  <1>11. CASE ToTake
    <2>1. CASE n = 2
      <3>1. PICK k : k = e.index
        OBVIOUS
      <3>2. /\ Len(frames') = 1 /\ frames'[1].on = f.on /\ frames'[1].steps = f.steps
            /\ lists' = Append(Front(lists), Append(Last(lists), k))
        BY <1>1, <1>3, <1>4, <1>11, <2>1, <3>1 DEF ToTake
      <3>3. lists # <<>> /\ k = Len(Last(lists)) + 1 /\ Head(f.steps).taken = k
        BY <1>5, <3>1 DEF InsideEntry
      <3>4. lists' \in Seq(Counts) /\ lists' # <<>> /\ Len(Last(lists')) = k
        BY <1>5, <3>2, <3>3, ListExtended
      <3>5. BetweenEntries(frames'[1], lists')
        BY <3>2, <3>3, <3>4 DEF BetweenEntries
      <3> QED BY <1>5, <3>2, <3>4, <3>5 DEF OrderedStack
    <2>2. CASE n > 2
      <3>1. /\ Len(frames') = n - 1 /\ lists' = lists /\ frames'[1].on = f.on
            /\ frames'[1].steps = f.steps /\ frames'[2].on = e.on /\ frames'[2].index = e.index
            /\ frames'[2].steps = e.steps
        BY <1>1, <1>2, <1>3, <1>4, <1>11, <2>2 DEF ToTake, Same
      <3> QED BY <1>2, <1>6, <2>2, <3>1
    <2> QED BY <1>2, <2>1, <2>2
  <1>12. CASE ToSkip
    <2>1. /\ Len(frames') = n - 1 /\ lists' = lists /\ Same(n - 1)
          /\ frames[n].steps # <<>> /\ Head(frames[n].steps).op \in {"field", "each"}
          /\ Head(frames[n].steps).mode = "element"
      BY <1>1, <1>12 DEF ToSkip
    <2>2. CASE n = 2
      <3>1. PICK h : h = Head(e.steps)
        OBVIOUS
      <3>2. e.steps # <<>> /\ h.op \in {"field", "each"} /\ h.mode = "element"
        BY <1>4, <2>1, <2>2, <3>1
      <3>3. ~Runs("unskipped", {}, e.steps)
        <4> SUFFICES ASSUME Runs("unskipped", {}, e.steps) PROVE FALSE
          OBVIOUS
        <4>1. PICK D, E : /\ Sound("unskipped", {}, D, E)
                          /\ \/ h \in D
                             \/ \E d \in D, k \in Nat : h = Entries(d, k)
          BY <3>1, <3>2, RunsHead
        <4>2. h \in D
          BY <3>2, <4>1, EntriesMembers
        <4> QED BY <3>2, <4>1, <4>2 DEF Sound, Allows
      <3>4. frames'[1] = f /\ Len(frames') = 1
        BY <1>3, <2>1, <2>2 DEF Same
      <3>5. /\ lists # <<>> /\ Head(f.steps).count = "one"
            /\ Head(f.steps).taken = Len(Last(lists)) + 1
        BY <1>5, <3>3 DEF InsideEntry
      <3>6. Head(f.steps).taken > 0
        BY <1>5, <3>5, LastLength
      <3>7. BetweenEntries(f, lists)
        BY <3>5, <3>6 DEF BetweenEntries
      <3>8. lists' = lists
        BY <2>1
      <3>9. ~(Len(frames') > 1)
        BY <3>4
      <3> QED BY <1>5, <3>4, <3>7, <3>8, <3>9 DEF OrderedStack
    <2> QED BY <1>2, <1>7, <2>1, <2>2
  <1>13. e.on # "drop"
    BY <1>5 DEF InsideEntry
  <1>14. CASE ToDrop
    <2>1. PICK c \in 1 .. n : /\ frames[c].on = "drop" /\ Len(frames') = c - 1 /\ lists' = lists
                              /\ \A i \in 1 .. c - 1 : frames'[i] = frames[i]
      BY <1>1, <1>14 DEF ToDrop, Same
    <2>2. c > 2
      BY <1>2, <1>3, <1>4, <1>5, <1>13, <2>1
    <2>3. frames'[1] = f /\ frames'[2] = e
      BY <1>2, <1>3, <1>4, <2>1, <2>2
    <2> QED BY <1>2, <1>6, <2>1, <2>2, <2>3
  <1>15. CASE ToKeep
    <2>1. PICK c \in 1 .. n : /\ frames[c].on = "keep" /\ Len(frames') = c /\ lists' = lists
                              /\ \A i \in 1 .. c - 1 : frames'[i] = frames[i]
                              /\ frames'[c].on = frames[c].on /\ frames'[c].index = frames[c].index
                              /\ frames'[c].steps = <<>>
      BY <1>1, <1>15 DEF ToKeep, Same, SameObject
    <2>2. c > 1
      BY <1>2, <1>3, <1>5, <2>1
    <2>3. frames'[1] = f
      BY <1>2, <1>3, <2>1, <2>2
    <2>4. /\ frames'[2].on = e.on /\ frames'[2].index = e.index
          /\ Runs("unskipped", {}, e.steps) => Runs("unskipped", {}, frames'[2].steps)
      <3>1. CASE c = 2
        BY <1>4, <2>1, <3>1, EmptyRuns
      <3>2. CASE c > 2
        BY <1>2, <1>4, <2>1, <3>2
      <3> QED BY <1>2, <2>2, <3>1, <3>2
    <2> QED BY <1>2, <1>6, <2>1, <2>2, <2>3, <2>4
  <1> QED BY <1>8, <1>9, <1>10, <1>11, <1>12, <1>14, <1>15 DEF Shapes

LEMMA OrderedStep ==
  ASSUME CallInv, FreshInv, ReadInv, OrderedInv, [Next]_vars PROVE OrderedInv'
  <1> SUFFICES ASSUME call'.via \in RestTransports, call'.parser \notin SkippingParsers
               PROVE  OrderedStack(frames', lists') /\ result'.lists \in Seq(Counts)
    BY DEF OrderedInv, OrderedStack, BetweenEntries, InsideEntry, RestTransports, SkippingParsers
  <1>1. CASE UNCHANGED vars
    BY <1>1 DEF vars, OrderedInv
  <1>2. CASE Reads
    <2>1. IsStack(frames) /\ frames # <<>> /\ IsStack(frames') /\ Shapes /\ call' = call
      BY <1>2, ReadsShape, ReadsLeave DEF ReadInv
    <2>2. OrderedStack(frames, lists) /\ result.lists \in Seq(Counts)
      BY <2>1 DEF OrderedInv
    <2>3. Len(frames) = 1 \/ Len(frames) > 1
      <3>1. IsStack(frames) /\ frames # <<>>
        BY <2>1
      <3>2. Len(frames) \in Nat /\ Len(frames) > 0
        BY <3>1, StackLength, Zenon
      <3>3. PICK n : n = Len(frames)
        OBVIOUS
      <3>4. n \in Nat /\ n > 0
        BY <3>2, <3>3
      <3>5. n = 1 \/ n > 1
        BY <3>4
      <3> QED BY <3>3, <3>5
    <2>4. ToEnd \/ OrderedStack(frames', lists')
      BY <2>1, <2>2, <2>3, OrderedOuter, OrderedInner
    <2>5. CASE ToEnd
      <3>1. lists \in Seq(Counts)
        BY <2>1, <2>2 DEF OrderedStack
      <3> QED BY <2>5, <3>1 DEF ToEnd, OrderedStack
    <2>6. CASE ~ToEnd
      <3>1. result' = result
        BY <2>1, <2>6 DEF Shapes, ToAdvance, ToOpen, ToEnter, ToTake, ToSkip, ToDrop, ToKeep
      <3> QED BY <2>2, <2>4, <2>6, <3>1
    <2> QED BY <2>5, <2>6
  <1>3. CASE Begins
    <2>1. Ordered(Document(call'))
      <3>1. call'.via # "stream"
        BY DEF RestTransports, Methods
      <3>2. call'.parser \in DOMAIN Parsers \ SkippingParsers
        BY <1>3, <3>1 DEF Begins, Sourced
      <3> QED BY <3>1, <3>2, OrderedParsers DEF Document
    <2>2. Runs("ordered", {}, Document(call'))
      BY <2>1, RunsFromStart DEF Ordered
    <2>3. Len(frames') = 1 /\ frames'[1].steps = Document(call') /\ frames'[1].on = "raise"
      BY <1>3, FirstFrame DEF Begins
    <2>4. BetweenEntries(frames'[1], lists')
      BY <2>1, <2>3, NotEntries DEF BetweenEntries, Ordered
    <2>5. lists' \in Seq(Counts) /\ result'.lists \in Seq(Counts)
      BY <1>3, EmptyResult DEF Begins
    <2> QED BY <2>2, <2>3, <2>4, <2>5 DEF OrderedStack
  <1>4. CASE Idles
    <2>1. <<>> \in Seq(Counts)
      OBVIOUS
    <2> QED BY <1>4, <2>1 DEF Idles, OrderedStack
  <1> QED BY <1>1, <1>2, <1>3, <1>4, Around

\* Whatever is missing or wrong in an answer, what RestApiMessageParser returns
\* of a list is its first entries, at their own positions.  Callers rely on it:
\* the n-th status is that of the n-th order of the batch, the position in a
\* universe is the asset id.
THEOREM ListsArePrefixes == Spec => []PrefixDelivered
  <1>1. Init => OrderedInv
    <2> SUFFICES ASSUME Init PROVE OrderedInv
      OBVIOUS
    <2>1. frames = <<>> /\ result = NoResult
      BY DEF Init
    <2>2. <<>> \in Seq(Counts)
      OBVIOUS
    <2> QED BY <2>1, <2>2, EmptyResult DEF OrderedInv, OrderedStack
  <1>2. CallInv /\ FreshInv /\ ReadInv /\ OrderedInv /\ [Next]_vars => OrderedInv'
    BY OrderedStep
  <1>3. OrderedInv => PrefixDelivered
    <2> SUFFICES ASSUME result.lists \in Seq(Counts), NEW i \in DOMAIN result.lists
                 PROVE  result.lists[i] = [n \in 1 .. Len(result.lists[i]) |-> n]
      BY DEF OrderedInv, PrefixDelivered
    <2>1. PICK l : l = result.lists[i]
      OBVIOUS
    <2>2. l \in Counts
      BY <2>1
    <2>3. l \in Seq(Nat) /\ \A n \in 1 .. Len(l) : l[n] = n
      BY <2>2 DEF Counts
    <2>4. l = [n \in 1 .. Len(l) |-> l[n]]
      BY <2>3
    <2>5. l = [n \in 1 .. Len(l) |-> n]
      BY <2>3, <2>4
    <2> QED BY <2>1, <2>5
  <1> QED BY <1>1, <1>2, <1>3, CallInvariant, SimpleInvariant, ReadInvariant, PTL DEF Spec

-----------------------------------------------------------------------------
(* Parsers that leave no member outside A without a value. *)

Entry(A, s) == Obeys("entry", A, s)
Content(A, s) == Obeys("body", A, s)
Settles(A, own, s) == own \subseteq A \cup Pending(s)

LEMMA PendingJoin ==
  ASSUME NEW s, NEW t, IsSeq(s), IsSeq(t)
  PROVE  IsSeq(s \o t) /\ Pending(s \o t) = Pending(s) \cup Pending(t)
  <1>1. PICK S : s \in Seq(S)
    BY DEF IsSeq
  <1>2. PICK T : t \in Seq(T)
    BY DEF IsSeq
  <1>3. PICK u : u = s \o t
    OBVIOUS
  <1>4. s \in Seq(S \cup T) /\ t \in Seq(S \cup T)
    BY <1>1, <1>2, SeqMonotonic
  <1>5. /\ u \in Seq(S \cup T) /\ Len(u) = Len(s) + Len(t)
        /\ \A i \in 1 .. Len(s) : u[i] = s[i]
        /\ \A i \in 1 .. Len(t) : u[Len(s) + i] = t[i]
    BY <1>3, <1>4
  <1>6. Len(s) \in Nat /\ Len(t) \in Nat
    BY <1>1, <1>2
  <1>7. ASSUME NEW i \in 1 .. Len(s) PROVE Assured(s[i]) \subseteq Pending(u)
    <2>1. i \in 1 .. Len(u) /\ u[i] = s[i]
      BY <1>5, <1>6
    <2> QED BY <2>1 DEF Pending
  <1>8. ASSUME NEW i \in 1 .. Len(t) PROVE Assured(t[i]) \subseteq Pending(u)
    <2>1. Len(s) + i \in 1 .. Len(u) /\ u[Len(s) + i] = t[i]
      BY <1>5, <1>6
    <2> QED BY <2>1 DEF Pending
  <1>9. ASSUME NEW i \in 1 .. Len(u) PROVE Assured(u[i]) \subseteq Pending(s) \cup Pending(t)
    <2>1. CASE i \in 1 .. Len(s)
      BY <1>5, <2>1 DEF Pending
    <2>2. CASE i \notin 1 .. Len(s)
      <3>1. PICK j \in 1 .. Len(t) : i = Len(s) + j
        <4>1. i - Len(s) \in 1 .. Len(t)
          BY <1>5, <1>6, <2>2
        <4> QED BY <1>6, <4>1
      <3>2. u[i] = t[j]
        BY <1>5, <3>1
      <3> QED BY <3>2 DEF Pending
    <2> QED BY <2>1, <2>2
  <1>10. Pending(u) \subseteq Pending(s) \cup Pending(t)
    BY <1>9 DEF Pending
  <1>11. Pending(s) \subseteq Pending(u) /\ Pending(t) \subseteq Pending(u)
    <2> HIDE DEF Pending
    <2>1. \A x \in Pending(s) : \E i \in 1 .. Len(s) : x \in Assured(s[i])
      BY DEF Pending
    <2>2. \A x \in Pending(t) : \E i \in 1 .. Len(t) : x \in Assured(t[i])
      BY DEF Pending
    <2> QED BY <1>7, <1>8, <2>1, <2>2
  <1>12. IsSeq(u)
    BY <1>5 DEF IsSeq
  <1> QED BY <1>3, <1>10, <1>11, <1>12

LEMMA PendingOne ==
  ASSUME NEW h
  PROVE  IsSeq(<<h>>) /\ Pending(<<h>>) = Assured(h)
  <1>1. <<h>> \in Seq({h}) /\ Len(<<h>>) = 1 /\ <<h>>[1] = h
    OBVIOUS
  <1>2. IsSeq(<<h>>)
    BY <1>1 DEF IsSeq
  <1>3. PICK s : s = <<h>>
    OBVIOUS
  <1>4. Len(s) = 1 /\ s[1] = h
    BY <1>1, <1>3
  <1>5. Pending(s) = Assured(h)
    BY <1>4 DEF Pending
  <1> QED BY <1>2, <1>3, <1>5

LEMMA PendingEmpty == IsSeq(<<>>) /\ Pending(<<>>) = {}
  <1>1. <<>> \in Seq({}) /\ Len(<<>>) = 0
    OBVIOUS
  <1>2. IsSeq(<<>>)
    BY <1>1 DEF IsSeq
  <1> QED BY <1>1, <1>2 DEF Pending

NamesOf(names) == {names[i] : i \in 1 .. Len(names)}

LEMMA PendingForms ==
  /\ \A names : /\ IsSeq(Plain(names)) /\ IsSeq(Present(Plain(names)))
                /\ IsSeq(Nullable(Plain(names))) /\ IsSeq(Soft(Plain(names)))
                /\ IsSeq(Element(Plain(names))) /\ IsSeq(Number(names))
                /\ IsSeq(Present(Number(names))) /\ IsSeq(Nullable(Number(names)))
                /\ IsSeq(Soft(Number(names))) /\ IsSeq(Element(Number(names)))
                /\ IsSeq(Decimal(names)) /\ IsSeq(Present(Decimal(names)))
                /\ IsSeq(Soft(Decimal(names))) /\ IsSeq(Expiry(names))
  /\ \A own, s : /\ IsSeq(Each(own, s)) /\ IsSeq(Present(Each(own, s)))
                 /\ IsSeq(Nullable(Each(own, s))) /\ IsSeq(Soft(Each(own, s)))
                 /\ IsSeq(Element(Each(own, s))) /\ IsSeq(EachCaught(own, s))
                 /\ IsSeq(Present(EachCaught(own, s))) /\ IsSeq(Soft(EachCaught(own, s)))
                 /\ IsSeq(One(own, s)) /\ IsSeq(Present(One(own, s)))
                 /\ IsSeq(Nullable(One(own, s))) /\ IsSeq(Soft(One(own, s)))
                 /\ IsSeq(OneCaught(own, s))
  /\ \A members : IsSeq(Assign(members)) /\ Pending(Assign(members)) = members
  /\ \A alternatives : IsSeq(Alt(alternatives))
  /\ \A names : /\ Pending(Plain(names)) = NamesOf(names)
                /\ Pending(Number(names)) = NamesOf(names)
                /\ Pending(Decimal(names)) = NamesOf(names)
                /\ Pending(Expiry(names)) = NamesOf(names)
                /\ Pending(Element(Plain(names))) = NamesOf(names)
  <1>1. ASSUME NEW names, NEW mode, NEW conv
        PROVE  /\ IsSeq(Field(names, mode, conv))
               /\ mode \in {"required", "element"} =>
                    Pending(Field(names, mode, conv)) = NamesOf(names)
    <2>1. PICK h : h = FieldStep(names, mode, conv)
      OBVIOUS
    <2>2. h.op = "field" /\ h.mode = mode /\ h.names = names
      BY <2>1 DEF FieldStep
    <2>3. Field(names, mode, conv) = <<h>>
      BY <2>1 DEF Field
    <2>4. mode \in {"required", "element"} => Assured(h) = NamesOf(names)
      BY <2>2 DEF Assured, NamesOf
    <2>5. IsSeq(<<h>>) /\ Pending(<<h>>) = Assured(h)
      BY PendingOne, Zenon
    <2> QED BY <2>3, <2>4, <2>5
  <1>2. \A count, mode, on, own, s : IsSeq(Loop(count, mode, on, own, s))
    BY PendingOne DEF Loop
  <1>3. ASSUME NEW members PROVE IsSeq(Assign(members)) /\ Pending(Assign(members)) = members
    <2>1. PICK h : h = [op |-> "assign", members |-> members]
      OBVIOUS
    <2>2. Assign(members) = <<h>>
      BY <2>1 DEF Assign
    <2>3. Assured(h) = members
      BY <2>1 DEF Assured
    <2>4. IsSeq(<<h>>) /\ Pending(<<h>>) = Assured(h)
      BY PendingOne, Zenon
    <2> QED BY <2>2, <2>3, <2>4
  <1>4. \A alternatives : IsSeq(Alt(alternatives))
    BY PendingOne DEF Alt
  <1>5. \A names, mode, conv :
            /\ IsSeq(Field(names, mode, conv))
            /\ mode \in {"required", "element"} =>
                 Pending(Field(names, mode, conv)) = NamesOf(names)
    BY <1>1, Zenon
  <1>6. ASSUME NEW names
        PROVE /\ IsSeq(Plain(names)) /\ IsSeq(Present(Plain(names)))
              /\ IsSeq(Nullable(Plain(names))) /\ IsSeq(Soft(Plain(names)))
              /\ IsSeq(Element(Plain(names))) /\ IsSeq(Number(names))
              /\ IsSeq(Present(Number(names))) /\ IsSeq(Nullable(Number(names)))
              /\ IsSeq(Soft(Number(names))) /\ IsSeq(Element(Number(names)))
              /\ IsSeq(Decimal(names)) /\ IsSeq(Present(Decimal(names)))
              /\ IsSeq(Soft(Decimal(names))) /\ IsSeq(Expiry(names))
    BY <1>5, FieldTerms
  <1>7. ASSUME NEW own, NEW s
        PROVE /\ IsSeq(Each(own, s)) /\ IsSeq(Present(Each(own, s)))
              /\ IsSeq(Nullable(Each(own, s))) /\ IsSeq(Soft(Each(own, s)))
              /\ IsSeq(Element(Each(own, s))) /\ IsSeq(EachCaught(own, s))
              /\ IsSeq(Present(EachCaught(own, s))) /\ IsSeq(Soft(EachCaught(own, s)))
              /\ IsSeq(One(own, s)) /\ IsSeq(Present(One(own, s)))
              /\ IsSeq(Nullable(One(own, s))) /\ IsSeq(Soft(One(own, s)))
              /\ IsSeq(OneCaught(own, s))
    BY <1>2, LoopTerms
  <1>8. ASSUME NEW names
        PROVE /\ Pending(Plain(names)) = NamesOf(names)
              /\ Pending(Number(names)) = NamesOf(names)
              /\ Pending(Decimal(names)) = NamesOf(names)
              /\ Pending(Expiry(names)) = NamesOf(names)
              /\ Pending(Element(Plain(names))) = NamesOf(names)
    BY <1>5, FieldTerms
  <1> QED BY <1>3, <1>4, <1>6, <1>7, <1>8, Zenon

LEMMA NamesOfTuples ==
  /\ \A a : NamesOf(<<a>>) = {a}
  /\ \A a, b : NamesOf(<<a, b>>) = {a, b}
  /\ \A a, b, c : NamesOf(<<a, b, c>>) = {a, b, c}
  /\ \A a, b, c, d : NamesOf(<<a, b, c, d>>) = {a, b, c, d}
  /\ \A a, b, c, d, e : NamesOf(<<a, b, c, d, e>>) = {a, b, c, d, e}
  /\ \A a, b, c, d, e, f : NamesOf(<<a, b, c, d, e, f>>) = {a, b, c, d, e, f}
  /\ \A a, b, c, d, e, f, g : NamesOf(<<a, b, c, d, e, f, g>>) = {a, b, c, d, e, f, g}
  /\ \A a, b, c, d, e, f, g, h :
       NamesOf(<<a, b, c, d, e, f, g, h>>) = {a, b, c, d, e, f, g, h}
  /\ \A a, b, c, d, e, f, g, h, i, j :
       NamesOf(<<a, b, c, d, e, f, g, h, i, j>>) = {a, b, c, d, e, f, g, h, i, j}
  <1>1. \A a : NamesOf(<<a>>) = {a}
    BY DEF NamesOf
  <1>2. \A a, b : NamesOf(<<a, b>>) = {a, b}
    BY DEF NamesOf
  <1>3. \A a, b, c : NamesOf(<<a, b, c>>) = {a, b, c}
    BY DEF NamesOf
  <1>4. \A a, b, c, d : NamesOf(<<a, b, c, d>>) = {a, b, c, d}
    BY DEF NamesOf
  <1>5. \A a, b, c, d, e : NamesOf(<<a, b, c, d, e>>) = {a, b, c, d, e}
    BY DEF NamesOf
  <1>6. \A a, b, c, d, e, f : NamesOf(<<a, b, c, d, e, f>>) = {a, b, c, d, e, f}
    BY DEF NamesOf
  <1>7. \A a, b, c, d, e, f, g : NamesOf(<<a, b, c, d, e, f, g>>) = {a, b, c, d, e, f, g}
    BY DEF NamesOf
  <1>8. \A a, b, c, d, e, f, g, h :
          NamesOf(<<a, b, c, d, e, f, g, h>>) = {a, b, c, d, e, f, g, h}
    BY DEF NamesOf
  <1>9. \A a, b, c, d, e, f, g, h, i, j :
          NamesOf(<<a, b, c, d, e, f, g, h, i, j>>) = {a, b, c, d, e, f, g, h, i, j}
    BY DEF NamesOf
  <1> QED BY <1>1, <1>2, <1>3, <1>4, <1>5, <1>6, <1>7, <1>8, <1>9, Zenon

\* What a sequence of steps assigns.
LEMMA PendingRules ==
  /\ IsSeq(<<>>) /\ Pending(<<>>) = {}
  /\ \A s, t : IsSeq(s) /\ IsSeq(t) =>
        IsSeq(s \o t) /\ Pending(s \o t) = Pending(s) \cup Pending(t)
  BY PendingEmpty, PendingJoin, Zenon

LEMMA SettlesNone == ASSUME NEW A, NEW s PROVE Settles(A, {}, s)
  BY DEF Settles

\* An entry's own members are settled, unless it is kept when cut short.
LEMMA LoopSettled ==
  ASSUME NEW A, NEW own, NEW s, Entry(A, s), Settles(A, own, s)
  PROVE  \A count, mode, on : (on = "keep" => own = {}) =>
            Entry(A, Loop(count, mode, on, own, s)) /\ Content(A, Loop(count, mode, on, own, s))
  <1> SUFFICES ASSUME NEW count, NEW mode, NEW on, on = "keep" => own = {}
               PROVE  /\ Entry(A, Loop(count, mode, on, own, s))
                      /\ Content(A, Loop(count, mode, on, own, s))
    BY Zenon
  <1>1. PICK h : h = LoopStep(count, mode, on, own, s)
    OBVIOUS
  <1>2. h.on = on /\ h.own = own /\ h.steps = s
    BY <1>1, LoopMembers
  <1>3. OwnSettled(h, A)
    BY <1>2 DEF OwnSettled, Settles
  <1>4. Entry(A, Loop(count, mode, on, own, s))
    BY <1>1, <1>3, LoopObeys DEF Entry
  <1>5. Obeys(Below("body"), A, s)
    BY DEF Entry, Below
  <1>6. Content(A, Loop(count, mode, on, own, s))
    BY <1>1, <1>3, <1>5, LoopAbove DEF Content
  <1> QED BY <1>4, <1>6

LEMMA EntryRules ==
  ASSUME NEW A
  PROVE
  /\ Entry(A, <<>>)
  /\ \A s, t : Entry(A, s) /\ Entry(A, t) => Entry(A, s \o t)
  /\ \A members : Entry(A, Assign(members))
  /\ \A names : IsSeq(names) =>
        /\ Entry(A, Plain(names)) /\ Entry(A, Present(Plain(names)))
        /\ Entry(A, Nullable(Plain(names))) /\ Entry(A, Soft(Plain(names)))
        /\ Entry(A, Element(Plain(names))) /\ Entry(A, Element(Number(names)))
        /\ Entry(A, Number(names)) /\ Entry(A, Present(Number(names)))
        /\ Entry(A, Nullable(Number(names))) /\ Entry(A, Soft(Number(names)))
        /\ Entry(A, Decimal(names)) /\ Entry(A, Present(Decimal(names)))
        /\ Entry(A, Soft(Decimal(names))) /\ Entry(A, Expiry(names))
  /\ \A own, s : Entry(A, s) /\ Settles(A, own, s) =>
        /\ Entry(A, Each(own, s)) /\ Entry(A, Present(Each(own, s)))
        /\ Entry(A, Soft(Each(own, s))) /\ Entry(A, Element(Each(own, s)))
        /\ Entry(A, EachCaught(own, s)) /\ Entry(A, Present(EachCaught(own, s)))
        /\ Entry(A, Soft(EachCaught(own, s)))
        /\ Entry(A, One(own, s)) /\ Entry(A, Present(One(own, s)))
        /\ Entry(A, Nullable(One(own, s))) /\ Entry(A, Soft(One(own, s)))
  /\ \A s : Entry(A, s) => Entry(A, OneCaught({}, s))
  /\ \A a, b : Entry(A, a) /\ Entry(A, b) => Entry(A, Alt(<<a, b>>))
  /\ \A a, b, c : Entry(A, a) /\ Entry(A, b) /\ Entry(A, c) => Entry(A, Alt(<<a, b, c>>))
  /\ \A a, b, c, d : Entry(A, a) /\ Entry(A, b) /\ Entry(A, c) /\ Entry(A, d)
        => Entry(A, Alt(<<a, b, c, d>>))
  /\ \A a, b, c, d, e : Entry(A, a) /\ Entry(A, b) /\ Entry(A, c) /\ Entry(A, d) /\ Entry(A, e)
        => Entry(A, Alt(<<a, b, c, d, e>>))
  <1>1. Entry(A, <<>>) /\ \A members : Entry(A, Assign(members))
    BY StepRules DEF Entry
  <1>2. \A s, t : Entry(A, s) /\ Entry(A, t) => Entry(A, s \o t)
    BY JoinObeys DEF Entry
  <1>3. ASSUME NEW names, IsSeq(names)
        PROVE
        /\ Entry(A, Plain(names)) /\ Entry(A, Present(Plain(names)))
        /\ Entry(A, Nullable(Plain(names))) /\ Entry(A, Soft(Plain(names)))
        /\ Entry(A, Element(Plain(names))) /\ Entry(A, Element(Number(names)))
        /\ Entry(A, Number(names)) /\ Entry(A, Present(Number(names)))
        /\ Entry(A, Nullable(Number(names))) /\ Entry(A, Soft(Number(names)))
        /\ Entry(A, Decimal(names)) /\ Entry(A, Present(Decimal(names)))
        /\ Entry(A, Soft(Decimal(names))) /\ Entry(A, Expiry(names))
    BY <1>3, FieldRules DEF Entry
  <1>4. ASSUME NEW own, NEW s, Entry(A, s), Settles(A, own, s)
        PROVE
        /\ Entry(A, Each(own, s)) /\ Entry(A, Present(Each(own, s)))
        /\ Entry(A, Soft(Each(own, s))) /\ Entry(A, Element(Each(own, s)))
        /\ Entry(A, EachCaught(own, s)) /\ Entry(A, Present(EachCaught(own, s)))
        /\ Entry(A, Soft(EachCaught(own, s)))
        /\ Entry(A, One(own, s)) /\ Entry(A, Present(One(own, s)))
        /\ Entry(A, Nullable(One(own, s))) /\ Entry(A, Soft(One(own, s)))
    <2>1. \A count, mode, on : on # "keep" => Entry(A, Loop(count, mode, on, own, s))
      BY <1>4, LoopSettled
    <2> QED BY <2>1, LoopTerms
  <1>5. ASSUME NEW s, Entry(A, s) PROVE Entry(A, OneCaught({}, s))
    <2>1. Entry(A, Loop("one", "required", "keep", {}, s))
      BY <1>5, LoopSettled, SettlesNone
    <2> QED BY <2>1, LoopTerms
  <1>6. /\ \A a, b : Entry(A, a) /\ Entry(A, b) => Entry(A, Alt(<<a, b>>))
        /\ \A a, b, c : Entry(A, a) /\ Entry(A, b) /\ Entry(A, c) => Entry(A, Alt(<<a, b, c>>))
        /\ \A a, b, c, d : Entry(A, a) /\ Entry(A, b) /\ Entry(A, c) /\ Entry(A, d)
              => Entry(A, Alt(<<a, b, c, d>>))
        /\ \A a, b, c, d, e :
              Entry(A, a) /\ Entry(A, b) /\ Entry(A, c) /\ Entry(A, d) /\ Entry(A, e)
              => Entry(A, Alt(<<a, b, c, d, e>>))
    BY AltRules, Zenon DEF Entry
  <1> QED BY <1>1, <1>2, <1>3, <1>4, <1>5, <1>6, Zenon

LEMMA ContentRules ==
  ASSUME NEW A
  PROVE
  /\ Content(A, <<>>) /\ Content(A, MayReturn)
  /\ \A s, t : Content(A, s) /\ Content(A, t) => Content(A, s \o t)
  /\ \A s : Content(A, s) => Content(A, Status(s))
  /\ \A members : members \subseteq A => Content(A, Declare(members))
  /\ \A names : IsSeq(names) =>
        /\ Content(A, Plain(names)) /\ Content(A, Present(Plain(names)))
        /\ Content(A, Nullable(Plain(names))) /\ Content(A, Soft(Plain(names)))
        /\ Content(A, Number(names)) /\ Content(A, Present(Number(names)))
        /\ Content(A, Nullable(Number(names))) /\ Content(A, Soft(Number(names)))
        /\ Content(A, Expiry(names))
  /\ \A own, s : Entry(A, s) /\ Settles(A, own, s) =>
        /\ Content(A, Each(own, s)) /\ Content(A, Present(Each(own, s)))
        /\ Content(A, Nullable(Each(own, s))) /\ Content(A, EachCaught(own, s))
        /\ Content(A, One(own, s)) /\ Content(A, Nullable(One(own, s)))
        /\ Content(A, Soft(One(own, s)))
  /\ \A s : Entry(A, s) => Content(A, OneCaught({}, s))
  /\ \A a, b : Content(A, a) /\ Content(A, b) => Content(A, Alt(<<a, b>>))
  /\ \A a, b, c : Content(A, a) /\ Content(A, b) /\ Content(A, c) => Content(A, Alt(<<a, b, c>>))
  /\ \A a, b, c, d, e : Content(A, a) /\ Content(A, b) /\ Content(A, c) /\ Content(A, d) /\ Content(A, e)
        => Content(A, Alt(<<a, b, c, d, e>>))
  <1>1. Content(A, <<>>) /\ \A members : members \subseteq A => Content(A, Declare(members))
    BY StepRules DEF Content
  <1>2. Content(A, MayReturn)
    BY MayReturnObeys DEF Content
  <1>3. \A s, t : Content(A, s) /\ Content(A, t) => Content(A, s \o t)
    BY JoinObeys DEF Content
  <1>4. \A s : Content(A, s) => Content(A, Status(s))
    BY StatusObeys DEF Content
  <1>5. ASSUME NEW names, IsSeq(names)
        PROVE
        /\ Content(A, Plain(names)) /\ Content(A, Present(Plain(names)))
        /\ Content(A, Nullable(Plain(names))) /\ Content(A, Soft(Plain(names)))
        /\ Content(A, Number(names)) /\ Content(A, Present(Number(names)))
        /\ Content(A, Nullable(Number(names))) /\ Content(A, Soft(Number(names)))
        /\ Content(A, Expiry(names))
    BY <1>5, FieldRules DEF Content
  <1>6. ASSUME NEW own, NEW s, Entry(A, s), Settles(A, own, s)
        PROVE
        /\ Content(A, Each(own, s)) /\ Content(A, Present(Each(own, s)))
        /\ Content(A, Nullable(Each(own, s))) /\ Content(A, EachCaught(own, s))
        /\ Content(A, One(own, s)) /\ Content(A, Nullable(One(own, s)))
        /\ Content(A, Soft(One(own, s)))
    <2>1. \A count, mode, on : on # "keep" => Content(A, Loop(count, mode, on, own, s))
      BY <1>6, LoopSettled
    <2> QED BY <2>1, LoopTerms
  <1>7. ASSUME NEW s, Entry(A, s) PROVE Content(A, OneCaught({}, s))
    <2>1. Content(A, Loop("one", "required", "keep", {}, s))
      BY <1>7, LoopSettled, SettlesNone
    <2> QED BY <2>1, LoopTerms
  <1>8. /\ \A a, b : Content(A, a) /\ Content(A, b) => Content(A, Alt(<<a, b>>))
        /\ \A a, b, c : Content(A, a) /\ Content(A, b) /\ Content(A, c) => Content(A, Alt(<<a, b, c>>))
        /\ \A a, b, c, d, e :
              Content(A, a) /\ Content(A, b) /\ Content(A, c) /\ Content(A, d) /\ Content(A, e)
              => Content(A, Alt(<<a, b, c, d, e>>))
    BY AltRules, Zenon DEF Content
  <1> QED BY <1>1, <1>2, <1>3, <1>4, <1>5, <1>6, <1>7, <1>8, Zenon

LEMMA SetActions == ASSUME NEW A PROVE \A parser \in ActionParsers : Content(A, Parsers[parser])
  <1> USE PendingRules, PendingForms, NamesOfTuples DEF Settles
  <1>1. Settles(A, OrderStatusResting, Plain(<<"oid">>) \o Nullable(Plain(<<"cloid">>)))
    BY DEF OrderStatusResting
  <1>2. Settles(A, OrderStatusFilled,
           Plain(<<"totalSz", "avgPx", "oid">>) \o Nullable(Plain(<<"cloid">>)))
    BY DEF OrderStatusFilled
  <1> HIDE PendingRules, PendingForms, NamesOfTuples DEF Settles
  <1> USE EntryRules, ContentRules, SettlesNone, NamesAreSeqs
  <1>3. Content(A, parseSimpleResponse)
    BY Zenon DEF parseSimpleResponse
  <1>4. Entry(A, orderStatus)
    BY <1>1, <1>2, Zenon DEF orderStatus
  <1>5. Content(A, orderStatuses)
    BY <1>4, Zenon DEF orderStatuses
  <1>6. Content(A, parsePlaceOrder) /\ Content(A, parseModifyOrder)
    BY <1>5, Zenon DEF parsePlaceOrder, parseModifyOrder
  <1>7. Content(A, parseCancelOrder)
    BY Zenon DEF parseCancelOrder
  <1>8. Content(A, parseTwapOrder) /\ Content(A, parseTwapCancel)
    BY Zenon DEF parseTwapOrder, parseTwapCancel
  <1>9. Content(A, parseCreateSubAccount) /\ Content(A, parseCreateVault)
    BY Zenon DEF parseCreateSubAccount, parseCreateVault
  <1> HIDE EntryRules, ContentRules, SettlesNone, NamesAreSeqs
  <1> QED BY <1>3, <1>6, <1>7, <1>8, <1>9, RestBranches DEF ActionParsers

LEMMA SetMetadata ==
  ASSUME NEW A
  PROVE  /\ Content(A, parseOutcomeMeta) /\ Content(A, parsePerpDexs)
         /\ Content(A, parsePerpDexLimits) /\ Content(A, parsePerpDexStatus)
         /\ Content(A, parsePerpsAtOpenInterestCap) /\ Content(A, parsePredictedFundings)
         /\ Content(A, parsePerpAnnotation) /\ Content(A, parsePerpCategories)
         /\ Content(A, parsePerpConciseAnnotations) /\ Content(A, parsePerpDeployAuctionStatus)
         /\ Content(A, parseMeta) /\ Content(A, parseSpotMeta) /\ Content(A, parseMetaAndAssetCtxs)
         /\ Content(A, parseSpotMetaAndAssetCtxs) /\ Content(A, parseSpotDeployState)
         /\ Content(A, parseSpotPairDeployAuctionStatus) /\ Content(A, parseExchangeStatus)
  <1> DEFINE pair == Plain(<<"name">>) \o Each({}, Plain(<<"token">>))
                     \o Plain(<<"index", "isCanonical">>)
             spotCtx == Number(<<"dayNtlVlm", "prevDayPx", "markPx">>)
                        \o Soft(Number(<<"midPx">>))
                        \o Assign({"hasMidPx", "midPx", "circulatingSupply"})
                        \o Nullable(Number(<<"circulatingSupply">>))
  <1> USE PendingRules, PendingForms, NamesOfTuples DEF Settles
  <1>1. Settles(A, OutcomeStruct, parseOutcomeSpec)
    BY DEF OutcomeStruct, parseOutcomeSpec
  <1>2. Settles(A, AssetMeta, parseAssetMeta)
    BY DEF AssetMeta, parseAssetMeta
  <1>3. Settles(A, SpotAssetMeta, parseSpotAssetMeta)
    BY DEF SpotAssetMeta, parseSpotAssetMeta
  <1>4. Settles(A, PerpAssetCtx, parsePerpAssetCtx)
    BY DEF PerpAssetCtx, parsePerpAssetCtx
  <1>5. Settles(A, SpotUniversePair, pair) /\ Settles(A, SpotAssetCtx, spotCtx)
    BY DEF SpotUniversePair, SpotAssetCtx
  <1> HIDE PendingRules, PendingForms, NamesOfTuples DEF Settles
  <1> USE EntryRules, ContentRules, SettlesNone, NamesAreSeqs
  <1>6. Entry(A, parseOutcomeSpec)
    BY Zenon DEF parseOutcomeSpec
  <1>7. Content(A, parseOutcomeMeta)
    BY <1>1, <1>6, Zenon DEF parseOutcomeMeta
  <1>8. Content(A, parsePerpDexs)
    BY Zenon DEF parsePerpDexs, pairsOf
  <1>9. Content(A, parsePerpDexLimits) /\ Content(A, parsePerpCategories)
    BY Zenon DEF parsePerpDexLimits, parsePerpCategories, pairsOf
  <1>10. Content(A, parsePerpDexStatus) /\ Content(A, parsePerpsAtOpenInterestCap)
         /\ Content(A, parsePerpAnnotation)
    BY Zenon DEF parsePerpDexStatus, parsePerpsAtOpenInterestCap, parsePerpAnnotation
  <1>11. Content(A, parsePredictedFundings) /\ Content(A, parsePerpConciseAnnotations)
    BY Zenon DEF parsePredictedFundings, parsePerpConciseAnnotations
  <1>12. Content(A, deployAuctionStatus) /\ Entry(A, deployAuctionStatus)
    BY Zenon DEF deployAuctionStatus
  <1>13. Content(A, parsePerpDeployAuctionStatus) /\ Content(A, parseSpotPairDeployAuctionStatus)
    BY <1>12, Zenon DEF parsePerpDeployAuctionStatus, parseSpotPairDeployAuctionStatus,
                        parseSpotPairDeployAuctionStatusObj
  <1>14. Entry(A, parseAssetMeta) /\ Entry(A, parseSpotAssetMeta) /\ Entry(A, parsePerpAssetCtx)
    BY Zenon DEF parseAssetMeta, parseSpotAssetMeta, parsePerpAssetCtx
  <1>15. Content(A, parseMeta) /\ Content(A, parseSpotMeta) /\ Content(A, universe)
    BY <1>2, <1>3, <1>14, Zenon DEF parseMeta, parseSpotMeta, universe
  <1>16. Content(A, parseMetaAndAssetCtxs)
    BY <1>4, <1>14, <1>15, Zenon DEF parseMetaAndAssetCtxs
  <1>17. Content(A, parseSpotMetaAndAssetCtxs)
    BY <1>3, <1>5, <1>14, Zenon DEF parseSpotMetaAndAssetCtxs
  <1>18. Content(A, parseSpotDeployState)
    BY <1>12, Zenon DEF parseSpotDeployState, parseSpotPairDeployAuctionStatusObj, pairsOf
  <1>19. Content(A, parseExchangeStatus)
    BY Zenon DEF parseExchangeStatus
  <1> HIDE EntryRules, ContentRules, SettlesNone, NamesAreSeqs
  <1> QED BY <1>7, <1>8, <1>9, <1>10, <1>11, <1>13, <1>15, <1>16, <1>17, <1>18, <1>19

LEMMA SetTrading ==
  ASSUME NEW A
  PROVE  /\ Content(A, parseL2Book) /\ Content(A, parseCandleSnapshot) /\ Content(A, parseRecentTrades)
         /\ Content(A, parseAllMids) /\ Content(A, parseFundingHistory) /\ Content(A, parseUserFills)
         /\ Content(A, parseUserFillsByTime) /\ Content(A, parseUserTwapSliceFills)
         /\ Content(A, parseUserTwapSliceFillsByTime) /\ Content(A, parseOpenOrders)
         /\ Content(A, parseOrderStatus) /\ Content(A, parseFrontendOpenOrders)
         /\ Content(A, parseHistoricalOrders) /\ Content(A, parseTwapHistory)
  <1> DEFINE candle == Plain(<<"coin", "interval", "openTime", "closeTime">>)
                       \o Number(<<"open", "close", "high", "low", "volume">>)
                       \o Plain(<<"numTrades">>)
             trade == Plain(<<"coin", "side">>) \o Number(<<"px", "sz">>)
                      \o Plain(<<"time", "hash", "tid", "users">>)
                      \o Present(Plain(<<"users0">>)) \o Present(Plain(<<"users1">>))
  <1> USE PendingRules, PendingForms, NamesOfTuples DEF Settles
  <1>1. /\ Settles(A, RestBookLevel, Plain(<<"px", "sz", "n">>))
        /\ Settles(A, AllMidsEntry, Plain(<<"coin">>) \o Number(<<"mid">>))
    BY DEF RestBookLevel, AllMidsEntry
  <1>2. Settles(A, Candle, candle) /\ Settles(A, RecentTrade, trade)
    BY DEF Candle, RecentTrade
  <1>3. Settles(A, Fill, parseFillEntry)
    BY DEF Fill, parseFillEntry
  <1>4. Settles(A, OpenOrder, parseOpenOrderEntry)
    BY DEF OpenOrder, parseOpenOrderEntry
  <1>5. Settles(A, FrontendOrder, parseFrontendOrderEntry)
    BY DEF FrontendOrder, parseFrontendOrderEntry, parseOpenOrderEntry
  <1>6. Settles(A, TwapSliceFill,
            Plain(<<"fill">>) \o One(Fill, parseFillEntry) \o Plain(<<"twapId">>))
    BY DEF TwapSliceFill
  <1>7. Settles(A, OrderStatusOrder,
            Plain(<<"order">>) \o One(OpenOrder, parseOpenOrderEntry)
            \o Plain(<<"status", "statusTimestamp">>))
    BY DEF OrderStatusOrder
  <1>8. Settles(A, HistoricalOrder,
            Plain(<<"order">>) \o One(FrontendOrder, parseFrontendOrderEntry)
            \o Plain(<<"status", "statusTimestamp">>))
    BY DEF HistoricalOrder
  <1> HIDE PendingRules, PendingForms, NamesOfTuples DEF Settles
  <1> USE EntryRules, ContentRules, SettlesNone, NamesAreSeqs
  <1>9. Content(A, parseL2Book)
    BY <1>1, Zenon DEF parseL2Book
  <1>10. Content(A, parseCandleSnapshot) /\ Content(A, parseRecentTrades)
    BY <1>2, Zenon DEF parseCandleSnapshot, parseRecentTrades
  <1>11. Content(A, parseAllMids) /\ Content(A, parseFundingHistory)
    BY <1>1, Zenon DEF parseAllMids, parseFundingHistory
  <1>12. Entry(A, parseFillEntry)
    BY Zenon DEF parseFillEntry
  <1>13. Content(A, parseUserFills)
    BY <1>3, <1>12, Zenon DEF parseUserFills
  <1>14. Content(A, parseUserTwapSliceFills)
    BY <1>3, <1>6, <1>12, Zenon DEF parseUserTwapSliceFills
  <1>15. Content(A, parseUserFillsByTime) /\ Content(A, parseUserTwapSliceFillsByTime)
    BY <1>13, <1>14, Zenon DEF parseUserFillsByTime, parseUserTwapSliceFillsByTime
  <1>16. Entry(A, parseOpenOrderEntry)
    BY Zenon DEF parseOpenOrderEntry
  <1>17. Content(A, parseOpenOrders) /\ Content(A, parseOrderStatus)
    BY <1>4, <1>7, <1>16, Zenon DEF parseOpenOrders, parseOrderStatus
  <1>18. Entry(A, parseFrontendOrderEntry)
    BY <1>16, Zenon DEF parseFrontendOrderEntry
  <1>19. Content(A, parseFrontendOpenOrders) /\ Content(A, parseHistoricalOrders)
    BY <1>5, <1>8, <1>18, Zenon DEF parseFrontendOpenOrders, parseHistoricalOrders
  <1>20. Content(A, parseTwapHistory)
    BY Zenon DEF parseTwapHistory, parseTwapStateEntry
  <1> HIDE EntryRules, ContentRules, SettlesNone, NamesAreSeqs
  <1> QED BY <1>9, <1>10, <1>11, <1>13, <1>14, <1>15, <1>17, <1>19, <1>20

LEMMA SetAccounts ==
  ASSUME NEW A
  PROVE  /\ Content(A, parseSpotClearinghouseState) /\ Content(A, parseActiveAssetData)
         /\ Content(A, parseUserFees) /\ Content(A, parseMaxBuilderFee)
         /\ Content(A, parseApprovedBuilders) /\ Content(A, parseUserDexAbstractionState)
         /\ Content(A, parseUserAbstraction) /\ Content(A, parseUserRateLimit)
         /\ Content(A, parsePortfolio) /\ Content(A, parseVaultDetails)
         /\ Content(A, parseUserVaultEquities) /\ Content(A, parseReferral)
         /\ Content(A, parseUserRole) /\ Entry(A, parseSpotClearinghouseStateObj)
  <1> DEFINE period == Element(Plain(<<"period">>)) \o Element(Plain(<<"metrics">>))
                       \o pairsOf(Number(<<"second">>)) \o pairsOf(Number(<<"second">>))
                       \o Number(<<"vlm">>)
             follower == Plain(<<"user">>) \o Number(<<"vaultEquity", "pnl", "allTimePnl">>)
                         \o Plain(<<"daysFollowing", "vaultEntryTime", "lockupUntil">>)
             token == Element(Plain(<<"pair">>)) \o Element(Plain(<<"tokenIndex">>))
                      \o Element(Plain(<<"state">>)) \o rewards
             referred == Number(<<"cumVlm", "cumRewardedFeesSinceReferred",
                                  "cumFeesRewardedToReferrer">>)
                         \o Plain(<<"timeJoined", "user">>)
  <1> USE PendingRules, PendingForms, NamesOfTuples DEF Settles
  <1>1. Settles(A, SpotBalance,
            Plain(<<"coin", "token">>) \o Number(<<"hold", "total", "entryNtl">>))
    BY DEF SpotBalance
  <1>2. /\ Settles(A, DailyUserVolume,
               Plain(<<"date">>) \o Number(<<"userCross", "userAdd", "exchange">>))
        /\ Settles(A, FeeTierVip,
               Number(<<"ntlCutoff", "cross", "add", "spotCross", "spotAdd">>))
        /\ Settles(A, FeeTierMm, Number(<<"makerFractionCutoff", "add">>))
        /\ Settles(A, StakingDiscountTier, Number(<<"bpsOfMaxSupply", "discount">>))
        /\ Settles(A, ActiveStakingDiscount, Number(<<"bpsOfMaxSupply", "discount">>))
    BY DEF DailyUserVolume, FeeTierVip, FeeTierMm, StakingDiscountTier, ActiveStakingDiscount
  <1>3. Settles(A, PortfolioPeriodMetrics, period)
    BY DEF PortfolioPeriodMetrics, pairsOf
  <1>4. Settles(A, VaultFollower, follower)
    BY DEF VaultFollower
  <1>5. Settles(A, UserVaultEquity, Plain(<<"vaultAddress">>) \o Number(<<"equity">>))
    BY DEF UserVaultEquity
  <1>6. Settles(A, TokenRewardState, token)
    BY DEF TokenRewardState, rewards
  <1>7. Settles(A, ReferralState, referred)
    BY DEF ReferralState
  <1> HIDE PendingRules, PendingForms, NamesOfTuples DEF Settles
  <1> USE EntryRules, ContentRules, SettlesNone, NamesAreSeqs
  <1>8. Entry(A, parseSpotClearinghouseStateObj)
    BY <1>1, Zenon DEF parseSpotClearinghouseStateObj
  <1>9. Content(A, parseSpotClearinghouseState)
    BY <1>8, Zenon DEF parseSpotClearinghouseState
  <1>10. Content(A, parseActiveAssetData)
    BY Zenon DEF parseActiveAssetData
  <1>11. Content(A, parseUserFees)
    BY <1>2, Zenon DEF parseUserFees
  <1>12. Content(A, parseMaxBuilderFee) /\ Content(A, parseApprovedBuilders)
         /\ Content(A, parseUserDexAbstractionState)
    BY Zenon DEF parseMaxBuilderFee, parseApprovedBuilders, parseUserDexAbstractionState
  <1>13. Content(A, parseUserAbstraction) /\ Content(A, parseUserRateLimit)
    BY Zenon DEF parseUserAbstraction, parseUserRateLimit
  <1>14. Entry(A, pairsOf(Number(<<"second">>)))
    BY Zenon DEF pairsOf
  <1>15. Entry(A, parsePortfolioArray)
    BY <1>3, <1>14, Zenon DEF parsePortfolioArray
  <1>16. Content(A, parsePortfolio)
    BY <1>15, Zenon DEF parsePortfolio
  <1>17. Content(A, parseVaultDetails)
    BY <1>4, <1>15, Zenon DEF parseVaultDetails
  <1>18. Content(A, parseUserVaultEquities) /\ Content(A, parseUserRole)
    BY <1>5, Zenon DEF parseUserVaultEquities, parseUserRole
  <1>19. Entry(A, rewards) /\ Content(A, rewards)
    BY Zenon DEF rewards
  <1>20. Content(A, parseReferral)
    BY <1>6, <1>7, <1>19, Zenon DEF parseReferral
  <1> HIDE EntryRules, ContentRules, SettlesNone, NamesAreSeqs
  <1> QED BY <1>8, <1>9, <1>10, <1>11, <1>12, <1>13, <1>16, <1>17, <1>18, <1>20

LEMMA EntryLedgerDelta == ASSUME NEW A PROVE Entry(A, parseLedgerUpdateDelta)
  <1> DEFINE transfer == Number(<<"usdc">>) \o Plain(<<"user", "destination">>)
             a == Plain(<<"coin">>) \o Number(<<"fundingRate", "szi", "usdc">>)
                  \o Nullable(Number(<<"nSamples">>))
             b == Number(<<"usdc">>)
             c == Number(<<"usdc", "fee">>) \o Soft(Plain(<<"nonce">>))
             d == Number(<<"usdc">>) \o Soft(Plain(<<"toPerp">>))
             e == transfer \o Number(<<"fee">>)
             f == Plain(<<"token">>) \o Number(<<"amount", "usdcValue">>)
                  \o Plain(<<"user", "destination">>) \o Number(<<"fee", "nativeTokenFee">>)
             g == Soft(Plain(<<"rawJson">>))
             S == {a, b, c, d, e, transfer, f, g}
  <1>1. Entry(A, transfer) /\ Entry(A, a) /\ Entry(A, b) /\ Entry(A, c)
    BY EntryRules, NamesAreSeqs, Zenon
  <1>2. Entry(A, d) /\ Entry(A, e) /\ Entry(A, f) /\ Entry(A, g)
    BY EntryRules, NamesAreSeqs, Zenon
  <1>3. parseLedgerUpdateDelta = Plain(<<"type">>) \o Alt(<<a, b, c, d, e, transfer, f, g>>)
    BY DEF parseLedgerUpdateDelta
  <1> HIDE DEF transfer, a, b, c, d, e, f, g
  <1>4. \A s \in S : Entry(A, s)
    BY <1>1, <1>2, Zenon
  <1>5. <<a, b, c, d, e, transfer, f, g>> \in Seq(S)
    OBVIOUS
  <1> HIDE DEF S
  <1>6. Entry(A, Alt(<<a, b, c, d, e, transfer, f, g>>))
    BY <1>4, <1>5, AltObeys, Zenon DEF Entry
  <1>7. Entry(A, Plain(<<"type">>))
    BY EntryRules, NamesAreSeqs, Zenon
  <1> QED BY <1>3, <1>6, <1>7, EntryRules, Zenon

LEMMA SetLedgers ==
  ASSUME NEW A
  PROVE  /\ Content(A, parseDelegations) /\ Content(A, parseDelegatorSummary)
         /\ Content(A, parseDelegatorHistory) /\ Content(A, parseDelegatorRewards)
         /\ Content(A, parseBorrowLendReserveState) /\ Content(A, parseAllBorrowLendReserveStates)
         /\ Content(A, parseBorrowLendUserState) /\ Content(A, parseUserBorrowLendInterest)
         /\ Content(A, parseLiquidatable) /\ Content(A, parseUserFunding)
         /\ Content(A, parseUserNonFundingLedgerUpdates)
  <1> USE PendingRules, PendingForms, NamesOfTuples DEF Settles
  <1>1. Settles(A, Delegation,
            Plain(<<"validator">>) \o Number(<<"amount">>) \o Plain(<<"lockedUntilTimestamp">>))
    BY DEF Delegation
  <1>2. Settles(A, BorrowLendReserveEntry,
            Element(Plain(<<"token">>)) \o Element(Plain(<<"state">>))
            \o parseBorrowLendReserveStateFields)
    BY DEF BorrowLendReserveEntry, parseBorrowLendReserveStateFields
  <1> HIDE PendingRules, PendingForms, NamesOfTuples DEF Settles
  <1> USE EntryRules, ContentRules, SettlesNone, NamesAreSeqs
  <1>3. Content(A, parseDelegations) /\ Content(A, parseDelegatorSummary)
    BY <1>1, Zenon DEF parseDelegations, parseDelegatorSummary
  <1>4. Content(A, parseDelegatorHistory) /\ Content(A, parseDelegatorRewards)
    BY Zenon DEF parseDelegatorHistory, parseDelegatorRewards
  <1>5. Entry(A, parseBorrowLendReserveStateFields)
    BY Zenon DEF parseBorrowLendReserveStateFields
  <1>6. Content(A, parseBorrowLendReserveState) /\ Content(A, parseAllBorrowLendReserveStates)
    BY <1>2, <1>5, Zenon DEF parseBorrowLendReserveState, parseAllBorrowLendReserveStates
  <1>7. Content(A, parseBorrowLendUserState) /\ Content(A, parseUserBorrowLendInterest)
    BY Zenon DEF parseBorrowLendUserState, parseUserBorrowLendInterest
  <1>8. Content(A, parseLiquidatable)
    BY Zenon DEF parseLiquidatable
  <1>9. Content(A, parseUserFundingLedgerUpdateResponse)
    BY EntryLedgerDelta, Zenon DEF parseUserFundingLedgerUpdateResponse
  <1>10. Content(A, parseUserFunding) /\ Content(A, parseUserNonFundingLedgerUpdates)
    BY <1>9, Zenon DEF parseUserFunding, parseUserNonFundingLedgerUpdates
  <1> HIDE EntryRules, ContentRules, SettlesNone, NamesAreSeqs
  <1> QED BY <1>3, <1>4, <1>6, <1>7, <1>8, <1>10

\* The parsers that leave members unset leave no others than the ones listed.
LEMMA SetButOutcome == ASSUME NEW A, {"outcome"} \subseteq A PROVE Content(A, parseSettledOutcome)
  <1>1. OutcomeStruct \subseteq A
    BY DEF OutcomeStruct
  <1>2. Content(A, Declare(OutcomeStruct))
    BY <1>1, ContentRules
  <1>3. Content(A, parseOutcomeSpec)
    BY EntryRules, ContentRules, SettlesNone, NamesAreSeqs, Zenon DEF parseOutcomeSpec
  <1> QED BY <1>2, <1>3, EntryRules, ContentRules, SettlesNone, NamesAreSeqs, Zenon
          DEF parseSettledOutcome

LEMMA SetButPerpMetas ==
  ASSUME NEW A, {"szDecimals", "maxLeverage"} \subseteq A PROVE Content(A, parseAllPerpMetas)
  <1> DEFINE asset == Present(Plain(<<"name">>)) \o Present(Plain(<<"szDecimals">>))
                      \o Present(Plain(<<"maxLeverage">>))
             tier == Number(<<"lowerBound">>) \o Plain(<<"maxLeverage">>)
             table == Element(Plain(<<"id">>)) \o Element(Plain(<<"table">>))
                      \o Plain(<<"description">>) \o Each(MarginTier, tier)
             dex == Each(AssetMeta, asset) \o Soft(Each(MarginTableEntry, table))
                    \o Assign({"collateralToken"}) \o Nullable(Plain(<<"collateralToken">>))
  <1> USE PendingRules, PendingForms, NamesOfTuples DEF Settles
  <1>1. Settles(A, AssetMeta, asset)
    BY DEF AssetMeta
  <1>2. Settles(A, MarginTier, tier) /\ Settles(A, MarginTableEntry, table)
    BY DEF MarginTier, MarginTableEntry
  <1>3. Settles(A, PerpDexMeta, dex)
    BY DEF PerpDexMeta
  <1> HIDE PendingRules, PendingForms, NamesOfTuples DEF Settles
  <1> USE EntryRules, ContentRules, SettlesNone, NamesAreSeqs
  <1>4. Entry(A, asset) /\ Entry(A, tier)
    BY Zenon
  <1>5. Entry(A, table)
    BY <1>2, <1>4, Zenon
  <1>6. Entry(A, dex)
    BY <1>1, <1>2, <1>4, <1>5, Zenon
  <1> QED BY <1>3, <1>6, Zenon DEF parseAllPerpMetas

LEMMA SetButPositions ==
  ASSUME NEW A, {"marginUsed", "maxLeverage", "leverageType"} \subseteq A
  PROVE  Content(A, parseClearinghouseState) /\ Content(A, parseSubAccounts)
  <1> DEFINE position == Plain(<<"position", "coin">>)
                         \o Number(<<"szi", "entryPx", "positionValue", "unrealizedPnl",
                                     "returnOnEquity">>)
                         \o Soft(Number(<<"liquidationPx">>))
                         \o Assign({"hasLiquidationPx", "liquidationPx"})
  <1>1. Settles(A, AssetPosition, position)
    BY PendingRules, PendingForms, NamesOfTuples DEF Settles, AssetPosition
  <1> USE EntryRules, ContentRules, SettlesNone, NamesAreSeqs
  <1>2. Entry(A, marginSummary)
    BY Zenon DEF marginSummary
  <1>3. Entry(A, Plain(<<"marginSummary">>) \o marginSummary
        \o Nullable(One({}, marginSummary)) \o Soft(Number(<<"crossMaintenanceMarginUsed">>))
        \o Number(<<"withdrawable">>) \o Plain(<<"time">>)
        \o Each(AssetPosition, position))
    BY <1>1, <1>2, Zenon
  <1>4. Entry(A, parseClearinghouseStateObj) /\ Content(A, parseClearinghouseStateObj)
    BY <1>3, Zenon DEF parseClearinghouseStateObj
  <1>5. Content(A, parseClearinghouseState)
    BY <1>4, Zenon DEF parseClearinghouseState
  <1>6. Content(A, parseSubAccounts)
    BY <1>4, SetAccounts, Zenon DEF parseSubAccounts
  <1> HIDE EntryRules, ContentRules, SettlesNone, NamesAreSeqs
  <1> QED BY <1>5, <1>6

LEMMA EntryStreamDelta == ASSUME NEW A PROVE Entry(A, crackLedgerDelta)
  <1> DEFINE transfer == Decimal(<<"usdc">>) \o Plain(<<"user", "destination">>)
             a == Decimal(<<"usdc">>)
             b == Decimal(<<"usdc">>) \o Plain(<<"nonce">>) \o Decimal(<<"fee">>)
             c == transfer \o Decimal(<<"fee">>)
             position == Plain(<<"coin">>) \o Decimal(<<"szi">>)
             d == Decimal(<<"accountValue">>) \o Plain(<<"leverageType">>)
                  \o Soft(Each(LiquidatedPosition, position))
             e == Plain(<<"vault">>) \o Decimal(<<"usdc">>)
             f == Plain(<<"vault", "user">>)
                  \o Decimal(<<"requestedUsd", "commission", "closingCost", "basis",
                               "netWithdrawnUsd">>)
             g == Plain(<<"user">>) \o Decimal(<<"usdc">>)
             h == Plain(<<"token">>) \o Decimal(<<"amount", "usdcValue">>)
                  \o Plain(<<"user", "destination">>) \o Decimal(<<"fee">>)
             i == Plain(<<"user", "destination", "sourceDex", "destinationDex", "token">>)
                  \o Decimal(<<"amount", "usdcValue", "fee", "nativeTokenFee">>)
                  \o Plain(<<"nonce", "feeToken">>)
             j == Decimal(<<"usdc">>) \o Plain(<<"toPerp">>)
             k == Plain(<<"token">>) \o Decimal(<<"amount">>)
             l == Decimal(<<"amount">>)
             S == {a, b, c, transfer, d, e, f, g, h, i, j, k, l, <<>>}
  <1>1. Settles(A, LiquidatedPosition, position)
    BY PendingRules, PendingForms, NamesOfTuples DEF Settles, LiquidatedPosition
  <1>2. Entry(A, transfer) /\ Entry(A, a) /\ Entry(A, b)
    BY EntryRules, NamesAreSeqs, Zenon
  <1>3. Entry(A, c) /\ Entry(A, d) /\ Entry(A, e) /\ Entry(A, f)
    BY <1>1, EntryRules, NamesAreSeqs, Zenon
  <1>4. Entry(A, g) /\ Entry(A, h) /\ Entry(A, i)
    BY EntryRules, NamesAreSeqs, Zenon
  <1>5. Entry(A, j) /\ Entry(A, k) /\ Entry(A, l) /\ Entry(A, <<>>)
    BY EntryRules, NamesAreSeqs, Zenon
  <1>6. crackLedgerDelta =
          Plain(<<"type">>) \o Alt(<<a, b, c, transfer, d, e, f, g, h, i, j, k, l, <<>>>>)
    BY DEF crackLedgerDelta
  <1> HIDE DEF transfer, a, b, c, d, e, f, g, h, i, j, k, l
  <1>7. \A s \in S : Entry(A, s)
    BY <1>2, <1>3, <1>4, <1>5, Zenon
  <1>8. <<a, b, c, transfer, d, e, f, g, h, i, j, k, l, <<>>>> \in Seq(S)
    OBVIOUS
  <1> HIDE DEF S
  <1>9. Entry(A, Alt(<<a, b, c, transfer, d, e, f, g, h, i, j, k, l, <<>>>>))
    BY <1>7, <1>8, AltObeys, Zenon DEF Entry
  <1>10. Entry(A, Plain(<<"type">>))
    BY EntryRules, NamesAreSeqs, Zenon
  <1> QED BY <1>6, <1>9, <1>10, EntryRules, Zenon

LEMMA SetMarket ==
  ASSUME NEW A
  PROVE  /\ Content(A, crackL2Book) /\ Content(A, crackTrades) /\ Content(A, crackCandles)
         /\ Content(A, crackAllMids) /\ Content(A, crackActiveAssetCtx)
         /\ Content(A, crackAllDexsAssetCtxs) /\ Content(A, crackFastAssetCtxs)
         /\ Content(A, crackOutcomeMetaUpdates) /\ Content(A, crackSubscriptionResponse)
  <1> DEFINE level == Assign({"side"}) \o Plain(<<"px", "sz", "n">>)
             side == Present(EachCaught(PriceLevel, level))
             book == Plain(<<"coin", "time">>) \o Assign({"numBids", "numAsks"})
                     \o Plain(<<"levels">>) \o side \o side
             trade == Plain(<<"coin", "side", "px", "sz", "hash", "time", "tid">>)
                      \o Assign({"buyer", "seller"}) \o users
             candle == Plain(<<"coin", "interval", "openTime", "closeTime", "open", "close",
                               "high", "low", "volume", "numTrades">>)
             perp == Assign({"funding"}) \o perpCtx
             spot == Decimal(<<"dayNtlVlm", "prevDayPx", "markPx">>)
                     \o Soft(Decimal(<<"midPx">>))
                     \o Assign({"hasMidPx", "midPx"}) \o Decimal(<<"circulatingSupply">>)
  <1> USE PendingRules, PendingForms, NamesOfTuples DEF Settles
  <1>1. Settles(A, PriceLevel, level) /\ Settles(A, L2BookSnapshot, book)
    BY DEF PriceLevel, L2BookSnapshot
  <1>2. Settles(A, Trade, trade)
    BY DEF Trade, users
  <1>3. Settles(A, Candle, candle)
    BY DEF Candle
  <1>4. /\ Settles(A, AllMidsEntry, Plain(<<"coin">>) \o Decimal(<<"mid">>))
        /\ Settles(A, SubscriptionResponse, Plain(<<"method", "type">>))
    BY DEF AllMidsEntry, SubscriptionResponse
  <1>5. Settles(A, PerpAssetCtx, perp)
    BY DEF PerpAssetCtx, perpCtx
  <1>6. Settles(A, SpotAssetCtx, spot)
    BY DEF SpotAssetCtx
  <1> HIDE PendingRules, PendingForms, NamesOfTuples DEF Settles
  <1> USE EntryRules, ContentRules, SettlesNone, NamesAreSeqs
  <1>7. Entry(A, book)
    BY <1>1, Zenon
  <1>8. Content(A, crackL2Book)
    BY <1>1, <1>7, Zenon DEF crackL2Book
  <1>9. Entry(A, users)
    BY Zenon DEF users
  <1>10. Content(A, crackTrades)
    BY <1>2, <1>9, Zenon DEF crackTrades
  <1>11. Content(A, crackCandles) /\ Content(A, crackAllMids) /\ Content(A, crackSubscriptionResponse)
    BY <1>3, <1>4, Zenon DEF crackCandles, crackAllMids, crackSubscriptionResponse
  <1>12. Entry(A, perpCtx)
    BY Zenon DEF perpCtx
  <1>13. Entry(A, perp) /\ Entry(A, spot)
    BY <1>12, Zenon
  <1>14. Content(A, crackActiveAssetCtx)
    BY <1>5, <1>6, <1>13, Zenon DEF crackActiveAssetCtx
  <1>15. Content(A, crackAllDexsAssetCtxs) /\ Content(A, crackFastAssetCtxs)
    BY <1>12, Zenon DEF crackAllDexsAssetCtxs, crackFastAssetCtxs
  <1>16. Entry(A, parseOutcomeSpecForUpdate) /\ Entry(A, parseQuestionSpecForUpdate)
    BY Zenon DEF parseOutcomeSpecForUpdate, parseQuestionSpecForUpdate
  <1>17. Content(A, crackOutcomeMetaUpdates)
    BY <1>16, Zenon DEF crackOutcomeMetaUpdates
  <1> HIDE EntryRules, ContentRules, SettlesNone, NamesAreSeqs
  <1> QED BY <1>8, <1>10, <1>11, <1>14, <1>15, <1>17

LEMMA SetAccountStreams ==
  ASSUME NEW A
  PROVE  /\ Content(A, crackOrderUpdates) /\ Content(A, crackUserFills) /\ Content(A, crackUserEvents)
         /\ Content(A, crackUserFundings) /\ Content(A, crackUserNonFundingLedgerUpdates)
         /\ Content(A, crackOpenOrders) /\ Content(A, crackTwapStates)
         /\ Content(A, crackNotification) /\ Content(A, crackUserTwapSliceFills)
         /\ Content(A, crackUserTwapHistory) /\ Content(A, crackActiveAssetData)
         /\ Content(A, crackSpotState)
  <1> DEFINE update == Plain(<<"order">>) \o parseOrder
                       \o Plain(<<"status", "statusTimestamp">>)
             liquidation == Plain(<<"lid", "liquidator", "liquidatedUser">>)
                            \o Decimal(<<"liquidatedNtlPos", "liquidatedAccountValue">>)
             slice == Plain(<<"fill">>) \o One(Fill, parseFillObject) \o Plain(<<"twapId">>)
             balance == Plain(<<"coin", "token">>) \o Decimal(<<"hold", "total", "entryNtl">>)
  <1> USE PendingRules, PendingForms, NamesOfTuples DEF Settles
  <1>1. Settles(A, OrderUpdate, update)
    BY DEF OrderUpdate, parseOrder
  <1>2. Settles(A, OpenOrder, parseOrder)
    BY DEF OpenOrder, parseOrder
  <1>3. Settles(A, Fill, parseFillObject)
    BY DEF Fill, parseFillObject
  <1>4. Settles(A, UserFunding, funding)
    BY DEF UserFunding, funding
  <1>5. Settles(A, Liquidation, liquidation)
        /\ Settles(A, NonUserCancel, Plain(<<"coin", "oid">>))
    BY DEF Liquidation, NonUserCancel
  <1>6. Settles(A, TwapSliceFill, slice) /\ Settles(A, SpotBalance, balance)
    BY DEF TwapSliceFill, SpotBalance
  <1> HIDE PendingRules, PendingForms, NamesOfTuples DEF Settles
  <1> USE EntryRules, ContentRules, SettlesNone, NamesAreSeqs
  <1>7. Entry(A, parseFillObject)
    BY Zenon DEF parseFillObject
  <1>8. Entry(A, parseOrder) /\ Entry(A, funding) /\ Entry(A, crackTwapState)
    BY Zenon DEF parseOrder, funding, crackTwapState
  <1>9. Content(A, crackOrderUpdates) /\ Content(A, crackUserFills)
    BY <1>1, <1>3, <1>7, <1>8, Zenon DEF crackOrderUpdates, crackUserFills
  <1>10. Entry(A, liquidation)
    BY Zenon
  <1>11. Content(A, crackUserEvents)
    BY <1>3, <1>4, <1>5, <1>7, <1>8, <1>10, Zenon DEF crackUserEvents
  <1>12. Content(A, crackUserFundings)
    BY <1>4, <1>8, Zenon DEF crackUserFundings
  <1>13. Content(A, crackUserNonFundingLedgerUpdates)
    BY EntryStreamDelta, Zenon DEF crackUserNonFundingLedgerUpdates
  <1>14. Content(A, crackOpenOrders) /\ Content(A, crackNotification)
    BY <1>2, <1>8, Zenon DEF crackOpenOrders, crackNotification
  <1>15. Content(A, crackTwapStates) /\ Content(A, crackUserTwapHistory)
    BY <1>8, Zenon DEF crackTwapStates, crackUserTwapHistory
  <1>16. Entry(A, slice)
    BY <1>3, <1>7, Zenon
  <1>17. Content(A, crackUserTwapSliceFills) /\ Content(A, crackSpotState)
    BY <1>6, <1>16, Zenon DEF crackUserTwapSliceFills, crackSpotState
  <1>18. Content(A, crackActiveAssetData)
    BY Zenon DEF crackActiveAssetData
  <1> HIDE EntryRules, ContentRules, SettlesNone, NamesAreSeqs
  <1> QED BY <1>9, <1>11, <1>12, <1>13, <1>14, <1>15, <1>17, <1>18

LEMMA SetButLevels ==
  ASSUME NEW A, {"bid.side", "ask.side", "bid.n", "ask.n"} \subseteq A
  PROVE  Content(A, crackBbo)
  <1> DEFINE level(n) == Alt(<<<<>>, One({}, Plain(<<"px", "sz", "n">>)) \o Assign({n})>>)
             bbo == Plain(<<"coin", "time">>) \o Assign({"hasBid", "hasAsk"})
                    \o Plain(<<"bbo">>) \o level("bid.n") \o level("ask.n")
  <1>1. Settles(A, BboUpdate, bbo)
    BY PendingRules, PendingForms, NamesOfTuples DEF Settles, BboUpdate
  <1>2. Entry(A, bbo)
    BY EntryRules, SettlesNone, NamesAreSeqs, Zenon
  <1> QED BY <1>1, <1>2, ContentRules, Zenon DEF crackBbo

LEMMA SetButUserState ==
  ASSUME NEW A, WebData3UserState \subseteq A PROVE Content(A, crackWebData3)
  <1> DEFINE dex == Decimal(<<"totalVaultEquity">>) \o Soft(Each({}, Plain(<<"cap">>)))
                    \o Soft(Each({}, Plain(<<"address", "name">>)))
  <1>1. Settles(A, PerpDexState, dex)
    BY PendingRules, PendingForms, NamesOfTuples DEF Settles, PerpDexState
  <1>2. \A s : Settles(A, WebData3UserState, s)
    BY DEF Settles
  <1>3. Entry(A, dex)
    BY EntryRules, SettlesNone, NamesAreSeqs, Zenon
  <1> QED BY <1>1, <1>2, <1>3, EntryRules, ContentRules, SettlesNone, NamesAreSeqs, Zenon
          DEF crackWebData3

LEMMA EntryClearinghouse ==
  ASSUME NEW A, {"leverageType"} \subseteq A PROVE Entry(A, crackInnerClearinghouseState)
  <1> DEFINE position == Plain(<<"position", "coin">>)
                         \o Decimal(<<"szi", "entryPx", "positionValue", "unrealizedPnl",
                                      "returnOnEquity", "marginUsed">>)
                         \o Plain(<<"maxLeverage">>) \o Soft(Decimal(<<"liquidationPx">>))
                         \o Assign({"hasLiquidationPx", "liquidationPx"})
                         \o Alt(<<<<>>, Plain(<<"leverageType">>)>>)
  <1>1. Settles(A, AssetPosition, position)
    BY PendingRules, PendingForms, NamesOfTuples DEF Settles, AssetPosition
  <1>2. Entry(A, position)
    BY EntryRules, NamesAreSeqs, Zenon
  <1> QED BY <1>1, <1>2, EntryRules, NamesAreSeqs, Zenon DEF crackInnerClearinghouseState

LEMMA SetButLeverage ==
  ASSUME NEW A, {"leverageType"} \subseteq A
  PROVE  /\ Content(A, crackAllDexsClearinghouseState)
         /\ {"time"} \subseteq A => Content(A, crackClearinghouseState)
  <1> DEFINE state == Soft(Plain(<<"dex">>)) \o Plain(<<"user", "clearinghouseState">>)
                      \o crackInnerClearinghouseState
  <1>1. Entry(A, crackInnerClearinghouseState)
    BY EntryClearinghouse
  <1>2. Content(A, crackAllDexsClearinghouseState)
    BY <1>1, EntryRules, ContentRules, SettlesNone, NamesAreSeqs, Zenon
       DEF crackAllDexsClearinghouseState
  <1>3. ASSUME {"time"} \subseteq A PROVE Settles(A, ClearinghouseState, state)
    BY <1>3, PendingRules, PendingForms, NamesOfTuples
       DEF Settles, ClearinghouseState, crackInnerClearinghouseState
  <1>4. Entry(A, state)
    BY <1>1, EntryRules, NamesAreSeqs, Zenon
  <1>5. ASSUME {"time"} \subseteq A PROVE Content(A, crackClearinghouseState)
    BY <1>3, <1>4, <1>5, ContentRules, Zenon DEF crackClearinghouseState
  <1> QED BY <1>2, <1>5

-----------------------------------------------------------------------------
(* Members that an object under way still has to be given. *)

LEMMA HeadAndTail ==
  ASSUME NEW s, IsSeq(s), s # <<>>
  PROVE  IsSeq(Tail(s)) /\ s = <<Head(s)>> \o Tail(s)
  <1>1. PICK S : s \in Seq(S)
    BY DEF IsSeq
  <1>2. PICK x : x = Head(s)
    OBVIOUS
  <1>3. PICK r : r = Tail(s)
    OBVIOUS
  <1>4. /\ x \in S /\ x = s[1] /\ r \in Seq(S) /\ Len(s) = 1 + Len(r)
        /\ \A i \in 1 .. Len(r) : r[i] = s[i + 1]
    BY <1>1, <1>2, <1>3
  <1>5. PICK t : t = <<x>> \o r
    OBVIOUS
  <1>6. /\ t \in Seq(S) /\ Len(t) = 1 + Len(r) /\ t[1] = x
        /\ \A i \in 1 .. Len(r) : t[i + 1] = r[i]
    BY <1>4, <1>5
  <1>7. Len(r) \in Nat
    BY <1>4
  <1>8. ASSUME NEW i \in 1 .. Len(s) PROVE s[i] = t[i]
    <2>1. CASE i = 1
      BY <1>4, <1>6, <2>1
    <2>2. CASE i # 1
      <3>1. PICK j \in 1 .. Len(r) : i = j + 1
        <4>1. i - 1 \in 1 .. Len(r) /\ i = (i - 1) + 1
          BY <1>4, <1>7, <2>2
        <4> QED BY <4>1
      <3> QED BY <1>4, <1>6, <3>1
    <2> QED BY <2>1, <2>2
  <1>9. s = t
    BY <1>1, <1>4, <1>6, <1>8, SeqEqual
  <1>10. IsSeq(r)
    BY <1>4 DEF IsSeq
  <1> QED BY <1>2, <1>3, <1>5, <1>9, <1>10

LEMMA PendingHead ==
  ASSUME NEW x, NEW r, IsSeq(r)
  PROVE  Pending(<<x>> \o r) = Assured(x) \cup Pending(r)
  <1>1. IsSeq(<<x>>) /\ Pending(<<x>>) = Assured(x)
    BY PendingOne, Zenon
  <1>2. Pending(<<x>> \o r) = Pending(<<x>>) \cup Pending(r)
    BY <1>1, PendingJoin, Zenon
  <1> QED BY <1>1, <1>2

LEMMA RunsAreSeqs ==
  ASSUME NEW kind, NEW A, NEW s, Runs(kind, A, s), s # <<>>
  PROVE  IsSeq(Tail(s)) /\ Pending(s) = Assured(Head(s)) \cup Pending(Tail(s))
  <1>1. IsSeq(s)
    BY Zenon DEF Runs, IsSeq
  <1>2. IsSeq(Tail(s)) /\ s = <<Head(s)>> \o Tail(s)
    BY <1>1, HeadAndTail
  <1>3. Pending(<<Head(s)>> \o Tail(s)) = Assured(Head(s)) \cup Pending(Tail(s))
    BY <1>2, PendingHead, Zenon
  <1> QED BY <1>2, <1>3

LEMMA NothingAssured ==
  /\ \A h : h.op \notin {"field", "assign"} => Assured(h) = {}
  /\ \A h, n : Assured(Entries(h, n)) = {}
  <1>1. ASSUME NEW h, h.op \notin {"field", "assign"} PROVE Assured(h) = {}
    BY <1>1 DEF Assured
  <1>2. ASSUME NEW h, NEW n PROVE Assured(Entries(h, n)) = {}
    <2>1. Entries(h, n).op = "entries"
      BY EntriesMembers
    <2> QED BY <1>1, <2>1
  <1> QED BY <1>1, <1>2, Zenon

\* Of a look-up by several names, what is not assigned yet is left.
LEMMA LeftPending ==
  ASSUME NEW h, h.op = "field", IsLookUp(h), NEW r, IsSeq(r)
  PROVE  /\ Pending(r) \subseteq Pending(LeftOf(h, r))
         /\ Assured(h) \subseteq {Head(h.names)} \cup Pending(LeftOf(h, r))
  <1>1. PICK names : names = h.names
    OBVIOUS
  <1>2. PICK S : names \in Seq(S)
    BY <1>1 DEF IsLookUp, IsSeq
  <1>3. Len(names) \in Nat
    BY <1>2
  <1>4. CASE Len(names) > 1
    <2>1. PICK x : x = [h EXCEPT !.names = Tail(@)]
      OBVIOUS
    <2>2. x = FieldStep(Tail(names), h.mode, h.conv)
      BY <1>1, <2>1 DEF IsLookUp, FieldStep
    <2>3. x.op = "field" /\ x.mode = h.mode /\ x.names = Tail(names)
      BY <2>2 DEF FieldStep
    <2>4. LeftOf(h, r) = <<x>> \o r
      BY <1>1, <1>4, <2>1 DEF LeftOf
    <2>5. Pending(<<x>> \o r) = Assured(x) \cup Pending(r)
      BY PendingHead, Zenon
    <2>6. Assured(h) \subseteq {Head(names)} \cup Assured(x)
      <3>1. CASE h.mode \in {"required", "element"}
        <4>1. Assured(h) = {names[i] : i \in 1 .. Len(names)}
          BY <1>1, <3>1 DEF Assured
        <4>2. Assured(x) = {Tail(names)[i] : i \in 1 .. Len(Tail(names))}
          BY <2>3, <3>1 DEF Assured
        <4>3. ASSUME NEW i \in 1 .. Len(names) PROVE names[i] \in {Head(names)} \cup Assured(x)
          <5>1. CASE i = 1
            BY <1>2, <1>4, <5>1
          <5>2. CASE i # 1
            <6>1. i - 1 \in 1 .. Len(Tail(names)) /\ Tail(names)[i - 1] = names[i]
              BY <1>2, <1>3, <1>4, <5>2
            <6> QED BY <4>2, <6>1
          <5> QED BY <5>1, <5>2
        <4> QED BY <4>1, <4>3
      <3>2. CASE h.mode \notin {"required", "element"}
        BY <3>2 DEF Assured
      <3> QED BY <3>1, <3>2
    <2> QED BY <1>1, <2>4, <2>5, <2>6
  <1>5. CASE ~(Len(names) > 1)
    <2>1. LeftOf(h, r) = r
      BY <1>1, <1>5 DEF LeftOf
    <2>2. Assured(h) \subseteq {Head(names)}
      <3>1. Assured(h) \subseteq {names[i] : i \in 1 .. Len(names)}
        BY <1>1 DEF Assured
      <3>2. \A i \in 1 .. Len(names) : names[i] = Head(names)
        BY <1>2, <1>3, <1>5
      <3> QED BY <3>1, <3>2
    <2> QED BY <1>1, <2>1, <2>2
  <1> QED BY <1>4, <1>5

-----------------------------------------------------------------------------
(* No member outside the list is delivered without a value. *)

\* The members that the parser at work may leave unset.
Left(c) == IF c.parser \in DOMAIN LeftUnset THEN LeftUnset[c.parser] ELSE {}

\* The document, and the objects inside it.
Outer(A, f) == Runs("body", A, f.steps) /\ f.unset \subseteq A /\ f.holes \subseteq A

Inner(A, f) ==
    /\ Runs("entry", A, f.steps)
    /\ f.unset \subseteq A \cup Pending(f.steps)
    /\ f.on = "keep" => f.unset \subseteq A
    /\ f.holes \subseteq A

SetStack(A, fs) ==
    /\ Len(fs) > 0 => Outer(A, fs[1])
    /\ \A i \in 2 .. Len(fs) : Inner(A, fs[i])

SetInv == SetStack(Left(call), frames) /\ result.holes \subseteq Left(call)

LEMMA OuterAdvance ==
  ASSUME NEW A, NEW f, NEW g, Outer(A, f), Advance(f, g)
  PROVE  Outer(A, g)
  <1>1. Runs("body", A, f.steps) /\ f.unset \subseteq A /\ f.holes \subseteq A
    BY DEF Outer
  <1>2. Obeys("body", A, g.steps)
    BY <1>1, RunsAdvance
  <1>3. Runs("body", A, g.steps)
    BY <1>2, RunsFromStart
  <1>4. PICK h : h = Head(f.steps)
    OBVIOUS
  <1>5. f.steps # <<>> /\ g.holes = f.holes
    BY DEF Advance, SameObject
  <1>6. PICK D, E : /\ Sound("body", A, D, E)
                    /\ \/ h \in D
                       \/ \E d \in D, n \in Nat : h = Entries(d, n)
    BY <1>1, <1>4, <1>5, RunsHead
  <1>7. h.op = "declare" => h.members \subseteq A
    <2>1. h.op = "declare" => h \in D
      BY <1>6, EntriesMembers
    <2> QED BY <1>6, <2>1 DEF Sound, Allows
  <1>8. \/ g.unset \subseteq f.unset
        \/ h.op = "declare" /\ g.unset = f.unset \cup h.members
    BY <1>4 DEF Advance
  <1>9. g.unset \subseteq A
    BY <1>1, <1>7, <1>8
  <1> QED BY <1>1, <1>3, <1>5, <1>9 DEF Outer

LEMMA InnerAdvance ==
  ASSUME NEW A, NEW f, NEW g, Inner(A, f), Advance(f, g)
  PROVE  Inner(A, g)
  <1>1. /\ Runs("entry", A, f.steps) /\ f.unset \subseteq A \cup Pending(f.steps)
        /\ f.on = "keep" => f.unset \subseteq A
        /\ f.holes \subseteq A
    BY DEF Inner
  <1>2. Obeys("entry", A, g.steps)
    BY <1>1, RunsAdvance
  <1>3. Runs("entry", A, g.steps)
    BY <1>2, RunsFromStart
  <1>4. PICK h : h = Head(f.steps)
    OBVIOUS
  <1>5. PICK r : r = Tail(f.steps)
    OBVIOUS
  <1>6. f.steps # <<>> /\ g.holes = f.holes /\ g.on = f.on
    BY DEF Advance, SameObject
  <1>7. IsSeq(r) /\ Pending(f.steps) = Assured(h) \cup Pending(r)
    BY <1>1, <1>4, <1>5, <1>6, RunsAreSeqs
  <1>8. PICK D, E : /\ Sound("entry", A, D, E) /\ r \in Seq(D)
                    /\ \/ h \in D /\ h.op # "entries"
                       \/ \E d \in D, n \in Nat : d.op = "each" /\ h = Entries(d, n)
    BY <1>1, <1>4, <1>5, <1>6, RunsHead
  <1>9. h.op # "entries" => h \in D
    BY <1>8, EntriesMembers
  <1>10. h.op \notin {"declare", "return", "status"}
    BY <1>8, <1>9, EntriesMembers DEF Sound, Allows
  <1>11. CASE h.op = "field"
    <2>1. IsLookUp(h)
      BY <1>8, <1>9, <1>11 DEF Sound, Closed
    <2>2. /\ Pending(r) \subseteq Pending(LeftOf(h, r))
          /\ Assured(h) \subseteq {Head(h.names)} \cup Pending(LeftOf(h, r))
      BY <1>7, <1>11, <2>1, LeftPending
    <2>3. g.steps = LeftOf(h, r)
      BY <1>4, <1>5, <1>11 DEF Advance
    <2>4. \/ g.unset = f.unset \ {Head(h.names)}
          \/ g.unset = f.unset /\ h.mode \notin {"required", "element"}
      BY <1>4, <1>11 DEF Advance
    <2>5. h.mode \notin {"required", "element"} => Assured(h) = {}
      BY <1>11 DEF Assured
    <2> QED BY <1>1, <1>3, <1>6, <1>7, <2>2, <2>3, <2>4, <2>5 DEF Inner
  <1>12. CASE h.op \in {"each", "entries"}
    <2>1. g.steps = r /\ g.unset = f.unset
      BY <1>4, <1>5, <1>12 DEF Advance
    <2>2. Assured(h) = {}
      BY <1>12, NothingAssured
    <2> QED BY <1>1, <1>3, <1>6, <1>7, <2>1, <2>2 DEF Inner
  <1>13. CASE h.op = "assign"
    <2>1. g.steps = r /\ g.unset = f.unset \ h.members
      BY <1>4, <1>5, <1>13 DEF Advance
    <2>2. Assured(h) = h.members
      BY <1>13 DEF Assured
    <2> QED BY <1>1, <1>3, <1>6, <1>7, <2>1, <2>2 DEF Inner
  <1>14. CASE h.op = "alt"
    <2>1. g.unset = f.unset /\ \E i \in DOMAIN h.alternatives : g.steps = h.alternatives[i] \o r
      BY <1>4, <1>5, <1>14 DEF Advance
    <2>2. PICK i \in DOMAIN h.alternatives : g.steps = h.alternatives[i] \o r
      BY <2>1
    <2>3. PICK a : a = h.alternatives[i]
      OBVIOUS
    <2>4. a \in Seq(D)
      BY <1>8, <1>9, <1>14, <2>3 DEF Sound, Closed
    <2>5. IsSeq(a)
      BY <2>4, Zenon DEF IsSeq
    <2>6. Pending(a \o r) = Pending(a) \cup Pending(r)
      BY <1>7, <2>5, PendingJoin
    <2>7. Assured(h) = {}
      BY <1>14, NothingAssured
    <2>8. Pending(g.steps) = Pending(a) \cup Pending(r)
      BY <2>2, <2>3, <2>6
    <2> QED BY <1>1, <1>3, <1>6, <1>7, <2>1, <2>7, <2>8 DEF Inner
  <1> QED BY <1>4, <1>10, <1>11, <1>12, <1>13, <1>14 DEF Advance

LEMMA OuterOpens ==
  ASSUME NEW A, NEW f, NEW g, Outer(A, f), Opens(f, g)
  PROVE  Outer(A, g)
  <1>1. Runs("body", A, f.steps) /\ f.unset \subseteq A /\ f.holes \subseteq A
    BY DEF Outer
  <1>2. Runs("body", A, g.steps)
    BY <1>1, RunsOpens
  <1>3. g.unset = f.unset /\ g.holes = f.holes
    BY DEF Opens, SameObject
  <1> QED BY <1>1, <1>2, <1>3 DEF Outer

LEMMA InnerOpens ==
  ASSUME NEW A, NEW f, NEW g, Inner(A, f), Opens(f, g)
  PROVE  Inner(A, g)
  <1>1. /\ Runs("entry", A, f.steps) /\ f.unset \subseteq A \cup Pending(f.steps)
        /\ f.on = "keep" => f.unset \subseteq A
        /\ f.holes \subseteq A
    BY DEF Inner
  <1>2. Runs("entry", A, g.steps)
    BY <1>1, RunsOpens
  <1>3. /\ f.steps # <<>> /\ Head(f.steps).op = "each"
        /\ g.unset = f.unset /\ g.holes = f.holes /\ g.on = f.on
        /\ g.steps = <<Entries(Head(f.steps), 0)>> \o Tail(f.steps)
    BY DEF Opens, SameObject
  <1>4. IsSeq(Tail(f.steps)) /\ Pending(f.steps) = Assured(Head(f.steps)) \cup Pending(Tail(f.steps))
    BY <1>1, <1>3, RunsAreSeqs
  <1>5. Pending(g.steps) = Assured(Entries(Head(f.steps), 0)) \cup Pending(Tail(f.steps))
    BY <1>3, <1>4, PendingHead
  <1>6. Assured(Entries(Head(f.steps), 0)) = {} /\ Assured(Head(f.steps)) = {}
    BY <1>3, NothingAssured
  <1> QED BY <1>1, <1>2, <1>3, <1>4, <1>5, <1>6 DEF Inner

LEMMA OuterEnters ==
  ASSUME NEW A, NEW f, NEW g, NEW e, Outer(A, f), Enters(f, g, e)
  PROVE  Outer(A, g) /\ Inner(A, e)
  <1>1. Runs("body", A, f.steps) /\ f.unset \subseteq A /\ f.holes \subseteq A
    BY DEF Outer
  <1>2. Runs("body", A, g.steps)
    BY <1>1, RunsEnters
  <1>3. g.unset = f.unset /\ g.holes = f.holes
    BY DEF Enters, SameObject
  <1>4. PICK D, E, h, n : Sound("body", A, D, E) /\ h \in D /\ IsEntry(f, g, e, h, n)
    BY <1>1, RunsEnters, Zenon
  <1>5. h.steps \in Seq(E) /\ OwnSettled(h, A)
    BY <1>4 DEF Sound, Allows, IsEntry
  <1>6. Sound("entry", A, E, {})
    <2>1. Closed({})
      BY DEF Closed
    <2> QED BY <1>4, <2>1 DEF Sound, Below
  <1>7. Obeys("entry", A, h.steps)
    BY <1>5, <1>6, Zenon DEF Obeys
  <1>8. Runs("entry", A, h.steps)
    BY <1>7, RunsFromStart
  <1>9. e.on = h.on /\ e.unset = h.own /\ e.holes = {} /\ e.steps = h.steps
    BY <1>4 DEF IsEntry
  <1>10. Inner(A, e)
    BY <1>5, <1>8, <1>9 DEF Inner, OwnSettled
  <1> QED BY <1>1, <1>2, <1>3, <1>10 DEF Outer

LEMMA InnerEnters ==
  ASSUME NEW A, NEW f, NEW g, NEW e, Inner(A, f), Enters(f, g, e)
  PROVE  Inner(A, g) /\ Inner(A, e)
  <1>1. /\ Runs("entry", A, f.steps) /\ f.unset \subseteq A \cup Pending(f.steps)
        /\ f.on = "keep" => f.unset \subseteq A
        /\ f.holes \subseteq A
    BY DEF Inner
  <1>2. Runs("entry", A, g.steps) /\ g.steps # <<>>
    BY <1>1, RunsEnters
  <1>3. PICK D, E, h, n : Sound("entry", A, D, E) /\ h \in D /\ IsEntry(f, g, e, h, n)
    BY <1>1, RunsEnters, Zenon
  <1>4. h.steps \in Seq(D) /\ OwnSettled(h, A)
    BY <1>3 DEF Sound, Allows, IsEntry
  <1>5. Obeys("entry", A, h.steps)
    BY <1>3, <1>4, Zenon DEF Obeys
  <1>6. Runs("entry", A, h.steps)
    BY <1>5, RunsFromStart
  <1>7. e.on = h.on /\ e.unset = h.own /\ e.holes = {} /\ e.steps = h.steps
    BY <1>3 DEF IsEntry
  <1>8. Inner(A, e)
    BY <1>4, <1>6, <1>7 DEF Inner, OwnSettled
  <1>9. PICK x : x = Head(f.steps)
    OBVIOUS
  <1>10. PICK y : y = [x EXCEPT !.taken = x.taken + 1]
    OBVIOUS
  <1>11. PICK r : r = Tail(f.steps)
    OBVIOUS
  <1>12. /\ f.steps # <<>> /\ g.unset = f.unset /\ g.holes = f.holes /\ g.on = f.on
         /\ g.steps = <<y>> \o r
    BY <1>9, <1>10, <1>11 DEF Enters, SameObject
  <1>13. IsSeq(r) /\ Pending(f.steps) = Assured(x) \cup Pending(r)
    BY <1>1, <1>9, <1>11, <1>12, RunsAreSeqs
  <1>14. Pending(g.steps) = Assured(y) \cup Pending(r)
    BY <1>12, <1>13, PendingHead
  <1>15. Assured(x) = {}
    BY <1>3, <1>9, NothingAssured DEF IsEntry
  <1>16. Inner(A, g)
    BY <1>1, <1>2, <1>12, <1>13, <1>14, <1>15 DEF Inner
  <1> QED BY <1>8, <1>16

LEMMA SetReads ==
  ASSUME NEW A, IsStack(frames), frames # <<>>, IsStack(frames'), Shapes,
         result.holes \subseteq A, SetStack(A, frames)
  PROVE  SetStack(A, frames') /\ result'.holes \subseteq A
  <1>1. PICK n : n = Len(frames)
    OBVIOUS
  <1>2. n \in Nat /\ n > 0
    BY <1>1, StackLength
  <1>3. Outer(A, frames[1]) /\ \A i \in 2 .. n : Inner(A, frames[i])
    BY <1>1, <1>2 DEF SetStack
  <1>4. PICK f : f = frames[n]
    OBVIOUS
  <1>5. (n = 1 => Outer(A, f)) /\ (n # 1 => Inner(A, f))
    BY <1>2, <1>3, <1>4
  <1>6. PICK g : g = frames'[n]
    OBVIOUS
  \* The innermost frame changes, and the stack may be shorter.
  <1>7. ASSUME NEW k \in 1 .. n, Len(frames') = k, Same(k - 1),
               k = 1 => Outer(A, frames'[k]), k # 1 => Inner(A, frames'[k])
        PROVE  SetStack(A, frames')
    <2>1. \A i \in 1 .. k - 1 : frames'[i] = frames[i]
      BY <1>7 DEF Same
    <2> QED BY <1>2, <1>3, <1>7, <2>1 DEF SetStack
  <1>8. ASSUME NEW k \in 0 .. n, Len(frames') = k, Same(k) PROVE SetStack(A, frames')
    <2>1. \A i \in 1 .. k : frames'[i] = frames[i]
      BY <1>8 DEF Same
    <2> QED BY <1>2, <1>3, <1>8, <2>1 DEF SetStack
  <1>9. CASE ToAdvance
    <2>1. Len(frames') = n /\ Same(n - 1) /\ Advance(f, g) /\ result' = result
      BY <1>1, <1>4, <1>6, <1>9 DEF ToAdvance
    <2>2. n = 1 => Outer(A, g)
      BY <1>5, <2>1, OuterAdvance
    <2>3. n # 1 => Inner(A, g)
      BY <1>5, <2>1, InnerAdvance
    <2> QED BY <1>2, <1>6, <1>7, <2>1, <2>2, <2>3
  <1>10. CASE ToOpen
    <2>1. Len(frames') = n /\ Same(n - 1) /\ Opens(f, g) /\ result' = result
      BY <1>1, <1>4, <1>6, <1>10 DEF ToOpen
    <2>2. n = 1 => Outer(A, g)
      BY <1>5, <2>1, OuterOpens
    <2>3. n # 1 => Inner(A, g)
      BY <1>5, <2>1, InnerOpens
    <2> QED BY <1>2, <1>6, <1>7, <2>1, <2>2, <2>3
  <1>11. CASE ToEnter
    <2>1. PICK e : e = frames'[n + 1]
      OBVIOUS
    <2>2. Len(frames') = n + 1 /\ Same(n - 1) /\ Enters(f, g, e) /\ result' = result
      BY <1>1, <1>4, <1>6, <1>11, <2>1 DEF ToEnter
    <2>3. n = 1 => Outer(A, g) /\ Inner(A, e)
      BY <1>5, <2>2, OuterEnters
    <2>4. n # 1 => Inner(A, g) /\ Inner(A, e)
      BY <1>5, <2>2, InnerEnters
    <2>5. \A i \in 1 .. n - 1 : frames'[i] = frames[i]
      BY <2>2 DEF Same
    <2>6. Outer(A, frames'[1])
      BY <1>2, <1>3, <1>6, <2>3, <2>5
    <2>7. \A i \in 2 .. n + 1 : Inner(A, frames'[i])
      BY <1>2, <1>3, <1>6, <2>1, <2>3, <2>4, <2>5
    <2> QED BY <1>2, <2>2, <2>6, <2>7 DEF SetStack
  <1>12. CASE ToTake
    <2>1. PICK p : p = frames[n - 1]
      OBVIOUS
    <2>2. PICK q : q = frames'[n - 1]
      OBVIOUS
    <2>3. /\ n > 1 /\ f.steps = <<>> /\ Len(frames') = n - 1 /\ Same(n - 2)
          /\ q.on = p.on /\ q.unset = p.unset /\ q.steps = p.steps
          /\ q.holes = p.holes \cup f.unset \cup f.holes /\ result' = result
      BY <1>1, <1>4, <1>12, <2>1, <2>2 DEF ToTake
    <2>4. f.unset \cup f.holes \subseteq A
      <3>1. f.unset \subseteq A \cup Pending(<<>>) /\ f.holes \subseteq A
        BY <1>5, <2>3 DEF Inner
      <3> QED BY <3>1, PendingEmpty
    <2>5. (n - 1 = 1 => Outer(A, p)) /\ (n - 1 # 1 => Inner(A, p))
      BY <1>2, <1>3, <2>1, <2>3
    <2>6. n - 1 = 1 => Outer(A, q)
      BY <2>3, <2>4, <2>5 DEF Outer
    <2>7. n - 1 # 1 => Inner(A, q)
      BY <2>3, <2>4, <2>5 DEF Inner
    <2>8. n - 1 \in 1 .. n /\ (n - 1) - 1 = n - 2
      BY <1>2, <2>3
    <2> QED BY <1>7, <2>2, <2>3, <2>6, <2>7, <2>8
  <1>13. CASE ToSkip
    <2>1. Len(frames') = n - 1 /\ Same(n - 1) /\ result' = result
      BY <1>1, <1>13 DEF ToSkip
    <2> QED BY <1>2, <1>8, <2>1
  <1>14. CASE ToDrop
    <2>1. PICK c \in 1 .. n : Len(frames') = c - 1 /\ Same(c - 1) /\ result' = result
      BY <1>1, <1>14 DEF ToDrop
    <2>2. c - 1 \in 0 .. n
      BY <1>2
    <2> QED BY <1>8, <2>1, <2>2
  <1>15. CASE ToKeep
    <2>1. PICK c \in 1 .. n :
            /\ frames[c].on = "keep" /\ Len(frames') = c /\ Same(c - 1)
            /\ frames'[c].on = frames[c].on /\ frames'[c].holes = frames[c].holes
            /\ frames'[c].unset = frames[c].unset /\ frames'[c].steps = <<>> /\ result' = result
      BY <1>1, <1>15 DEF ToKeep, SameObject
    <2>2. c = 1 => Outer(A, frames'[c])
      BY <1>3, <2>1, EmptyRuns DEF Outer
    <2>3. c # 1 => Inner(A, frames'[c])
      <3>1. c # 1 => Inner(A, frames[c])
        BY <1>2, <1>3
      <3> QED BY <2>1, <3>1, EmptyRuns DEF Inner
    <2> QED BY <1>7, <2>1, <2>2, <2>3
  <1>16. CASE ToEnd
    <2>1. frames' = <<>> /\ result'.holes = frames[1].unset \cup frames[1].holes
      BY <1>16 DEF ToEnd
    <2>2. result'.holes \subseteq A
      BY <1>3, <2>1 DEF Outer
    <2> QED BY <2>1, <2>2 DEF SetStack
  <1> QED BY <1>9, <1>10, <1>11, <1>12, <1>13, <1>14, <1>15, <1>16 DEF Shapes

LEMMA LeftOnly ==
  /\ DOMAIN LeftUnset = {"SettledOutcome", "AllPerpMetas", "ClearinghouseState", "SubAccounts",
                         "bbo", "clearinghouseState", "allDexsClearinghouseState", "webData3"}
  /\ LeftUnset["SettledOutcome"] = {"outcome"}
  /\ LeftUnset["AllPerpMetas"] = {"szDecimals", "maxLeverage"}
  /\ LeftUnset["ClearinghouseState"] = {"marginUsed", "maxLeverage", "leverageType"}
  /\ LeftUnset["SubAccounts"] = {"marginUsed", "maxLeverage", "leverageType"}
  /\ LeftUnset["bbo"] = {"bid.side", "ask.side", "bid.n", "ask.n"}
  /\ LeftUnset["clearinghouseState"] = {"leverageType", "time"}
  /\ LeftUnset["allDexsClearinghouseState"] = {"leverageType"}
  /\ LeftUnset["webData3"] = WebData3UserState
  BY DEF LeftUnset

LEMMA SetAnswers ==
  ASSUME NEW c, c.parser \in DOMAIN Parsers PROVE Content(Left(c), Parsers[c.parser])
  <1>1. PICK A : A = Left(c)
    OBVIOUS
  <1>2. PICK parser : parser = c.parser
    OBVIOUS
  <1>3. parser \in DOMAIN LeftUnset => A = LeftUnset[parser]
    BY <1>1, <1>2 DEF Left
  <1>4. CASE parser \in ActionParsers
    BY <1>1, <1>2, <1>4, SetActions
  <1>5. CASE parser = "SettledOutcome"
    <2>1. Content(A, parseSettledOutcome)
      BY <1>3, <1>5, LeftOnly, SetButOutcome
    <2> QED BY <1>1, <1>2, <1>5, <2>1, RestBranches
  <1>6. CASE parser = "AllPerpMetas"
    <2>1. Content(A, parseAllPerpMetas)
      BY <1>3, <1>6, LeftOnly, SetButPerpMetas
    <2> QED BY <1>1, <1>2, <1>6, <2>1, RestBranches
  <1>7. CASE parser \in {"ClearinghouseState", "SubAccounts"}
    <2>1. Content(A, parseClearinghouseState) /\ Content(A, parseSubAccounts)
      BY <1>3, <1>7, LeftOnly, SetButPositions
    <2> QED BY <1>1, <1>2, <1>7, <2>1, RestBranches
  <1>8. CASE parser \notin ActionParsers \cup {"SettledOutcome", "AllPerpMetas",
                                               "ClearinghouseState", "SubAccounts"}
    BY <1>1, <1>2, <1>8, RestBranches, SetMetadata, SetTrading, SetAccounts, SetLedgers
       DEF ActionParsers
  <1> QED BY <1>4, <1>5, <1>6, <1>7, <1>8

LEMMA SetStreams ==
  ASSUME NEW c, c.parser \in DOMAIN crack PROVE Content(Left(c), crack[c.parser])
  <1>1. PICK A : A = Left(c)
    OBVIOUS
  <1>2. PICK channel : channel = c.parser
    OBVIOUS
  <1>3. channel \in DOMAIN LeftUnset => A = LeftUnset[channel]
    BY <1>1, <1>2 DEF Left
  <1>4. \A s : Content(A, s) => Content(A, Data \o s)
    BY ContentRules, NamesAreSeqs, Zenon DEF Data
  <1>5. CASE channel \in DOMAIN marketBranches
    <2>1. crack[channel] = marketBranches[channel]
      BY <1>5 DEF crack
    <2>2. CASE channel = "bbo"
      <3>1. Content(A, crackBbo)
        BY <1>3, <2>2, LeftOnly, SetButLevels
      <3> QED BY <1>1, <1>2, <1>4, <2>1, <2>2, <3>1, MarketBranches
    <2>3. CASE channel # "bbo"
      <3>1. \E s : Content(A, s) /\ marketBranches[channel] = Data \o s
        BY <1>5, <2>3, MarketBranches, SetMarket, SetAccountStreams
      <3> QED BY <1>1, <1>2, <1>4, <2>1, <3>1
    <2> QED BY <2>2, <2>3
  <1>6. CASE channel \in DOMAIN accountBranches
    <2>1. crack[channel] = accountBranches[channel]
      <3>1. channel \notin DOMAIN marketBranches
        BY <1>6, MarketBranches, AccountBranches
      <3> QED BY <1>6, <3>1 DEF crack
    <2>2. CASE channel = "webData3"
      <3>1. Content(A, crackWebData3)
        BY <1>3, <2>2, LeftOnly, SetButUserState
      <3> QED BY <1>1, <1>2, <1>4, <2>1, <2>2, <3>1, AccountBranches
    <2>3. CASE channel = "clearinghouseState"
      <3>1. Content(A, crackClearinghouseState)
        BY <1>3, <2>3, LeftOnly, SetButLeverage
      <3> QED BY <1>1, <1>2, <1>4, <2>1, <2>3, <3>1, AccountBranches
    <2>4. CASE channel = "allDexsClearinghouseState"
      <3>1. Content(A, crackAllDexsClearinghouseState)
        BY <1>3, <2>4, LeftOnly, SetButLeverage
      <3> QED BY <1>1, <1>2, <1>4, <2>1, <2>4, <3>1, AccountBranches
    <2>5. CASE channel \notin {"webData3", "clearinghouseState", "allDexsClearinghouseState"}
      <3>1. \E s : Content(A, s) /\ accountBranches[channel] = Data \o s
        BY <1>6, <2>5, AccountBranches, SetMarket, SetAccountStreams
      <3> QED BY <1>1, <1>2, <1>4, <2>1, <3>1
    <2> QED BY <2>2, <2>3, <2>4, <2>5
  <1> QED BY <1>2, <1>5, <1>6 DEF crack

LEMMA SetStep ==
  ASSUME CallInv, FreshInv, ReadInv, SetInv, [Next]_vars PROVE SetInv'
  <1>1. CASE UNCHANGED vars
    BY <1>1 DEF vars, SetInv
  <1>2. CASE Reads
    <2>1. IsStack(frames) /\ frames # <<>> /\ IsStack(frames') /\ Shapes /\ call' = call
      BY <1>2, ReadsShape, ReadsLeave DEF ReadInv
    <2>2. PICK A : A = Left(call)
      OBVIOUS
    <2>3. SetStack(A, frames) /\ result.holes \subseteq A
      BY <2>2 DEF SetInv
    <2>4. SetStack(A, frames') /\ result'.holes \subseteq A
      BY <2>1, <2>3, SetReads
    <2>5. Left(call') = A
      BY <2>1, <2>2
    <2> QED BY <2>4, <2>5 DEF SetInv
  <1>3. CASE Begins
    <2>1. Sourced(call') /\ result' = NoResult
      BY <1>3 DEF Begins
    <2>2. Content(Left(call'), Document(call'))
      <3>1. CASE call'.via = "stream"
        BY <2>1, <3>1, SetStreams DEF Sourced, Document, Methods
      <3>2. CASE call'.via # "stream"
        BY <2>1, <3>2, SetAnswers DEF Sourced, Document
      <3> QED BY <3>1, <3>2
    <2>3. Runs("body", Left(call'), Document(call'))
      BY <2>2, RunsFromStart DEF Content
    <2>4. /\ Len(frames') = 1 /\ frames'[1].steps = Document(call')
          /\ frames'[1].unset = {} /\ frames'[1].holes = {}
      BY <1>3, FirstFrame DEF Begins
    <2>5. SetStack(Left(call'), frames')
      BY <2>3, <2>4 DEF SetStack, Outer
    <2>6. result'.holes = {}
      BY <2>1, EmptyResult
    <2> QED BY <2>5, <2>6 DEF SetInv
  <1>4. CASE Idles
    BY <1>4 DEF Idles, SetInv, SetStack
  <1> QED BY <1>1, <1>2, <1>3, <1>4, Around

\* Whatever an answer or a message leaves out, each member of a struct that the
\* application is given has been assigned in that struct: the look-ups that a
\* parser lets fail (the optional ones, and those cut short by a catch inside a
\* loop) are of members with an initializer or an assignment of their own.  The
\* exceptions are the members in LeftUnset.
THEOREM MembersAreSet == Spec => []MembersSet
  <1>1. Init => SetInv
    <2> SUFFICES ASSUME Init PROVE SetInv
      OBVIOUS
    <2>1. frames = <<>> /\ result = NoResult
      BY DEF Init
    <2> QED BY <2>1, EmptyResult DEF SetInv, SetStack
  <1>2. CallInv /\ FreshInv /\ ReadInv /\ SetInv /\ [Next]_vars => SetInv'
    BY SetStep
  <1>3. SetInv => MembersSet
    BY DEF SetInv, MembersSet, Left
  <1> QED BY <1>1, <1>2, <1>3, CallInvariant, SimpleInvariant, ReadInvariant, PTL DEF Spec
=============================================================================
