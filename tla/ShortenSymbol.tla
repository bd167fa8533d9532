---------------------------- MODULE ShortenSymbol ----------------------------
(***************************************************************************)
(* shorten_symbol (lib/shorten_symbol.cpp): the name that a C++ symbol is  *)
(* shown under.  A symbol is the sequence of its tokens: each bracket is   *)
(* one, "operator" stands for any text that ends so, and the text between  *)
(* is opaque.                                                              *)
(***************************************************************************)
EXTENDS Integers, Sequences, FiniteSetsExt, SequencesExt

\* preceded_by_operator, for what would come after the tokens s.
PrecededByOperator(s) == IsSuffix(<<"operator">>, s)

\* '<' belongs to the name: operator< or the second one of operator<<.
InOperatorName(s) ==
  PrecededByOperator(s) \/ IsSuffix(<<"operator", "<">>, s)

\* Mutant: a list within a list is not counted.
CollapseFlat(r, c) ==
  IF c = "<" /\ r.angle_depth = 0 /\ ~InOperatorName(r.result)
  THEN [result |-> r.result \o <<"<", "...", ">">>, angle_depth |-> 1]
  ELSE IF r.angle_depth = 0 THEN [r EXCEPT !.result = Append(@, c)]
  ELSE IF c = ">" THEN [r EXCEPT !.angle_depth = 0]
  ELSE r

\* The loop of collapse_templates, for one token.
Collapse(r, c) ==
  CASE r.angle_depth = 0 /\ c = "<" /\ ~InOperatorName(r.result) ->
         [result |-> r.result \o <<"<", "...", ">">>, angle_depth |-> 1]
    [] r.angle_depth = 0 /\ (c # "<" \/ InOperatorName(r.result)) ->
         [r EXCEPT !.result = Append(@, c)]
    [] r.angle_depth > 0 /\ c = "<" -> [r EXCEPT !.angle_depth = @ + 1]
    [] r.angle_depth > 0 /\ c = ">" -> [r EXCEPT !.angle_depth = @ - 1]
    [] OTHER -> r

CollapseTemplates(sym) ==
  FoldLeft(Collapse, [result |-> <<>>, angle_depth |-> 0], sym).result

\* The braces and square brackets that are open before sym[i].
DepthAt(sym, i) ==
  LET before(tokens) == Quantify(1..(i - 1), LAMBDA j : sym[j] \in tokens)
  IN  before({"{", "["}) - before({"}", "]"})

\* Where a parameter list may begin.
OpenParens(sym) ==
  {i \in DOMAIN sym : /\ sym[i] = "("
                      /\ DepthAt(sym, i) = 0
                      /\ ~PrecededByOperator(SubSeq(sym, 1, i - 1))}

StripParameters(sym) ==
  IF OpenParens(sym) = {} THEN sym
  ELSE SubSeq(sym, 1, Max(OpenParens(sym)) - 1)

Shorten(symbol) == StripParameters(CollapseTemplates(symbol))

-----------------------------------------------------------------------------
(* The grammar of names, to compare with.  A part is a name and its template *)
(* arguments, a declaration the parts of its path and what follows them.     *)

\* The demangler separates operator< from its arguments.
Arguments(part) ==
  IF part.arguments = <<>> THEN <<>>
  ELSE (IF Last(part.name) = "<" THEN <<" ">> ELSE <<>>)
       \o <<"<">> \o part.arguments \o <<">">>

Joined(parts, Text(_)) ==
  FlattenSeq([i \in DOMAIN parts |->
                (IF i = 1 THEN <<>> ELSE <<"::">>) \o Text(parts[i])])

Demangled(decl) ==
  Joined(decl.path, LAMBDA p : p.name \o Arguments(p)) \o decl.suffix

\* The template brackets that are open after c, when depth of them were before it.
OpenAngles(depth, c) ==
  IF c = "<" THEN depth + 1
  ELSE IF c = ">" /\ depth > 0 THEN depth - 1
  ELSE depth

AnglesAfter(depth, tokens) == FoldLeft(OpenAngles, depth, tokens)

\* A name has brackets of its own after "operator" and in braces only.
IsName(name) ==
  /\ name # <<>>
  /\ ~PrecededByOperator(name)
  /\ DepthAt(name, Len(name) + 1) = 0
  /\ \A i \in DOMAIN name :
       LET before == SubSeq(name, 1, i - 1)
       IN  /\ name[i] = "<" => InOperatorName(before)
           /\ name[i] = "(" => DepthAt(name, i) # 0 \/ PrecededByOperator(before)

\* Template arguments leave open the bracket that they stand in.
AreArguments(arguments) ==
  /\ \A i \in DOMAIN arguments : AnglesAfter(1, SubSeq(arguments, 1, i)) > 0
  /\ AnglesAfter(1, arguments) = 1

\* A parameter list has other parentheses only in template arguments.
IsParameterList(tokens) ==
  /\ tokens \in Seq(STRING \ {"operator"}) \ {<<>>}
  /\ \A i \in DOMAIN tokens :
       tokens[i] = "(" => i = 1 \/ AnglesAfter(0, SubSeq(tokens, 1, i - 1)) > 0
  /\ tokens[1] = "("

IsDeclaration(decl) ==
  /\ decl.path \in Seq([name : Seq(STRING), arguments : Seq(STRING)]) \ {<<>>}
  /\ \A i \in DOMAIN decl.path :
       IsName(decl.path[i].name) /\ AreArguments(decl.path[i].arguments)
  /\ decl.suffix = <<>> \/ IsParameterList(decl.suffix)

\* What shorten_symbol.hpp promises of it: the path with collapsed arguments.
ShortName(decl) ==
  Joined(decl.path, LAMBDA p :
    IF p.arguments = <<>> THEN p.name
    ELSE p.name \o Arguments([p EXCEPT !.arguments = <<"...">>]))
=============================================================================
