--------------------------- MODULE MCTracePipeline ---------------------------
(* Values for the constants of TracePipelineRegions.  The symbols vec_int    *)
(* and vec_str are shortened to the same string, anonymous to the empty one. *)
EXTENDS TracePipelineRegions

f         == <<"f">>
vec_int   == <<"vec", "<", "int", ">">>
vec_str   == <<"vec", "<", "str", ">", "(", ")">>
anonymous == <<"(", "anonymous namespace", ")", "::g">>
untraced  == <<"[", "untraced", "]">>
unknown   == <<"[", "unknown", "]">>
process   == <<"process">>
trace     == <<"trace">>

MCSymbols == {f, vec_int, vec_str, anonymous}
MCStart   == {vec_int}
MCEnd     == {vec_str}
MCEmpty   == <<>>

MCThreads   == [pid : {1}, tid : {1, 2}]
MCPidName   == [p \in {1} |-> <<"pid=1">>]
MCTidName   == [t \in {1, 2} |-> << <<"tid=1">>, <<"tid=2">> >>[t]]
MCStrings   == {Shorten(s) : s \in MCSymbols \cup {untraced, unknown}}
                 \cup {MCEmpty, trace, process, <<"pid=1">>, <<"tid=1">>, <<"tid=2">>}
MCEffective == [s \in MCStrings |-> s]

MCBranch(kind, state, src, dst) ==
  [kind |-> kind, trace_state |-> state, src |-> src, dst |-> dst]

MCBranches ==
  {MCBranch("Call", "None", f, vec_int), MCBranch("Call", "None", vec_int, vec_str),
   MCBranch("Return", "None", vec_int, f), MCBranch("None", "End", f, unknown),
   MCBranch("None", "Start", unknown, f)}
MCAnonymousCall == {MCBranch("Call", "None", f, anonymous)}
MCSamples == {<<vec_str, anonymous>>}

MCOrdered == {3}

\* Everything passes; slices from vec_int to vec_str, once or again and again.
MCNoFilter == {[has_start |-> FALSE, has_end |-> FALSE, multi_slice |-> FALSE]}
MCSlices == [has_start : {TRUE}, has_end : {TRUE}, multi_slice : BOOLEAN]
MCConfigs == MCNoFilter \cup MCSlices

\* Paths of one or two parts, with operators, lambdas and nested templates.
MCParts ==
  [name : {f, <<"operator", "<">>, <<"operator", "<", "<">>, <<"operator", ">">>,
           <<"operator", "(", ")">>, <<"{", "lambda", "(", "int", ")", "}">>},
   arguments : {<<>>, <<"int">>, <<"vec", "<", "vec", "<", "int", ">", ">", ",int">>}]
MCDeclarations ==
  [path : {<<p>> : p \in MCParts} \cup (MCParts \X MCParts),
   suffix : {<<>>, <<"(", ")">>, <<"(", "vec", "<", "int", ">", ")", " const">>,
             <<"(", "int", ")", " ", "[", "clone", "]">>}]
=============================================================================
