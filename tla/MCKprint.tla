------------------------------ MODULE MCKprint ------------------------------
EXTENDS Console

Call(fmt, args) == [fmt |-> fmt, args |-> args]
Text(s) == Call(s, <<>>)

Script(init, second) == [t \in Tasks |-> IF t = "init" THEN init ELSE second]

(* Every number in every conversion, printed alone.                        *)
Conversions ==
  {<<"%", "d">>, <<"%", "3", "d">>, <<"%", "-", "4", "d">>, <<"%", "0", "4", "i">>, <<"%", ".", "3", "d">>,
   <<"%", "u">>, <<"%", "x">>, <<"%", "#", "x">>, <<"%", "0", "4", "X">>, <<"%", "#", "o">>,
   <<"%", "+", "5", "d">>, <<"%", "l", "l", "u">>}
Numbers ==
  {Script(<<Call(fmt, <<n>>)>>, <<>>) : fmt \in Conversions, n \in 0..Word - 1}
  \cup {Script(<<Call(<<"%", "*", ".", "*", "d">>, <<w, p, n>>)>>, <<>>) :
          w \in {-3, 0, 4}, p \in {-2, 2}, n \in {0, 7, Word - 3}}

(* All that has a form of its own.                                         *)
Others ==
  {Script(<<c>>, <<>>) :
     c \in {Call(<<"%", "h", "d", "%", " ", "d">>, <<Word - 1, 1>>), Call(<<"%", "p">>, <<10>>),
            Call(<<"%", "3", "c", "%", "%", "%", "y", "%">>, <<"a">>),
            Call(<<"%", "-", "3", "s", "%", ".", "1", "s">>, <<<<"a", "b">>, <<"c", "d">>>>)}}

(* Prints one behind the other, up to the bottom line and across it.       *)
Lines == {Text(<<"a", "b", "\n">>), Text(<<"a", "\t", "b", "c", "BS", "d">>), Text(<<"x", "y", "z", "\r", "w">>),
          Text(<<"\n", "\n">>), Clear}
Sequences == {Script(<<a, b, c>>, <<>>) : a \in Lines, b \in Lines, c \in Lines}

(* Two tasks, as when the scheduler's second test task runs.               *)
Overlaps ==
  {Script(<<a, b>>, <<Text(<<"1">>)>>) :
     a \in {Clear, Text(<<"a", "b", "c">>), Text(<<"\n", "\n">>)}, b \in {Text(<<"d", "\n">>), Clear}}
  \cup {Script(<<Text(<<"a", "b", "c", "d">>)>>, <<Text(<<"2", "\n">>), Clear>>)}

(* The message is a format, too.  With its place it scrolls by a line.     *)
MCPanicMessage == Text(<<"!">>)
MCPanicPlace == Call(<<"(", "%", "s", ":", "%", "d", "\n">>, <<<<"f">>, 7>>)
MCScripts == Numbers \cup Others \cup Sequences \cup Overlaps
=============================================================================
