--------------------------- MODULE MCDecodeSession ---------------------------
(* Values for the constants of DecodeSession: a line of each form, and two    *)
(* different frames.                                                         *)
EXTENDS DecodeSession

MCUnknown == <<"[unknown]">>
MCTime(lo) == [hi |-> 1, lo |-> lo]

MCHeader(name, lo, rest) ==
  [form |-> "header", pid |-> 1, tid |-> 1, time |-> MCTime(lo),
   event_name |-> name, rest |-> rest]

MCSymbol(s) == <<s, "+0x", "1f">>

MCCall ==
  MCHeader("branches", <<1, 5, 9>>,
           [arrow |-> TRUE, src_hex |-> TRUE, prefixes |-> {"tr end"}, word |-> "call",
            src |-> MCSymbol("f"), dst |-> MCSymbol("g")])
MCSample == MCHeader("cycles", <<2>>, [freq |-> FALSE])
MCPower  == MCHeader("cbr", <<2>>, [freq |-> TRUE])
MCError  == [form |-> "error", time |-> <<MCTime(<<2>>)>>, pid |-> 1, tid |-> 1]
MCFrame(s) == [form |-> "frame", hex |-> TRUE, name |-> MCSymbol(s)]
MCBlank  == [form |-> "blank"]

MCLines ==
  {MCCall, MCSample, MCPower, MCFrame("f"), MCFrame("g"), MCBlank, MCError}
=============================================================================
