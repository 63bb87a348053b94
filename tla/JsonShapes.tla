----------------------------- MODULE JsonShapes -----------------------------
(***************************************************************************)
(* How the parsers read a JSON document.  A parser is the sequence of steps  *)
(* it takes, in order; what a step does depends on what the document has in  *)
(* its place, and that is the exchange's choice.  Values are left out.  What *)
(* is kept is where an error stops the reading, who catches it, which        *)
(* members of the result are assigned, and which entries are delivered.      *)
(*                                                                         *)
(* simdjson is external: a look-up fails with an error code, and value()     *)
(* turns that code into a simdjson_error.                                   *)
(***************************************************************************)
EXTENDS Naturals, Sequences

\* x = obj["a"].get_string().value() and the like, for each name in turn.
Plain(names) ==
    <<[op |-> "field", names |-> names, mode |-> "required", conv |-> "none"]>>

\* The same for a number that may come as a string: converted with std::stod
\* by RestApiMessageParser, with std::from_chars by WebsocketMessageParser.
Number(names) ==
    <<[op |-> "field", names |-> names, mode |-> "required", conv |-> "stod"]>>

Decimal(names) ==
    <<[op |-> "field", names |-> names, mode |-> "required", conv |-> "from_chars"]>>

\* A description with an expiry in it: parseOutcomeExpiry() uses std::stoi.
Expiry(names) ==
    <<[op |-> "field", names |-> names, mode |-> "required", conv |-> "stoi"]>>

\* Members of the result itself that nothing initialises, and an assignment
\* that depends on nothing in the document.
Declare(members) == <<[op |-> "declare", members |-> members]>>

Assign(members) == <<[op |-> "assign", members |-> members]>>

\* An array whose entries are read one by one into a local object and then
\* pushed or passed to the listener.  own: the object's members that stay
\* indeterminate, or keep the last entry's value, until they are assigned.
Each(own, steps) ==
    <<[op |-> "each", count |-> "many", mode |-> "required", on |-> "raise",
       own |-> own, steps |-> steps]>>

\* The same with a try block around the body of the loop.
EachCaught(own, steps) == <<[Each(own, steps)[1] EXCEPT !.on = "drop"]>>

\* One object, read into a local and then moved to its place.
One(own, steps) == <<[Each(own, steps)[1] EXCEPT !.count = "one"]>>

\* The same by a function that catches errors itself and returns what it has.
OneCaught(own, steps) == <<[One(own, steps)[1] EXCEPT !.on = "keep"]>>

\* The document decides which of the alternatives is read.
Alt(alternatives) == <<[op |-> "alt", alternatives |-> alternatives]>>

Return == <<[op |-> "return"]>>

\* Whether the document makes the parser return here (a null document, the
\* end of a pair).
MayReturn == Alt(<<Return, <<>>>>)

\* doc["status"], and what is read when it is not "ok".
Status(otherwise) == <<[op |-> "status", otherwise |-> otherwise]>>

-----------------------------------------------------------------------------
(* Modes other than "required", of a one-step sequence. *)

\* if (obj["a"].get(v) == SUCCESS) ... v.get_string().value()
Present(step) == <<[step[1] EXCEPT !.mode = "present"]>>

\* if (obj["a"].get(v) == SUCCESS && !v.is_null()) ... v.get_string().value()
Nullable(step) == <<[step[1] EXCEPT !.mode = "nullable"]>>

\* if (!obj["a"].get_string().get(v)) ...
Soft(step) == <<[step[1] EXCEPT !.mode = "soft"]>>

\* if (iter == pair.end()) continue; ... (*iter).get_string().value()
Element(step) == <<[step[1] EXCEPT !.mode = "element"]>>

\* What a mode takes for "not there".
Tolerated ==
    [required |-> {}, element |-> {}, present |-> {"missing"},
     nullable |-> {"missing", "null"}, soft |-> {"missing", "null", "otherType"}]

-----------------------------------------------------------------------------
(* What the document has where a step looks, and what comes of it. *)

Found == {"good", "missing", "null", "otherType"}

FoundBy(step) ==
    IF step.op = "field" /\ step.conv # "none" THEN Found \cup {"notNumber"} ELSE Found

\* Wrong variant: every conversion throws.
ConversionThrows(conv) == "thrown"

\* std::stod and std::stoi throw std::invalid_argument; std::from_chars leaves
\* the NaN that was there.
Conversion(conv) == IF conv = "from_chars" THEN "assigned" ELSE "thrown"

Outcome(step, found) ==
    CASE found = "good" -> "assigned"
      [] found = "notNumber" -> Conversion(step.conv)
      [] found \in Tolerated[step.mode] -> "absent"
      [] found = "missing" /\ step.mode = "element" -> "skipped"
      [] OTHER -> "error"
=============================================================================
