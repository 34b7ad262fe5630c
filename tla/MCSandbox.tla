----------------------------- MODULE MCSandbox -----------------------------
EXTENDS Sandbox
CONSTANTS e1, e2

\* Two executions of one C++ job.
OnePath == [e \in Execs |-> "main.cpp"]

a == 97
b == 98
Out(text) == [type |-> 1, payload |-> text]
Err(text) == [type |-> 2, payload |-> text]
MCCompileFrames == {<<>>, <<Err(<<a, b>>), Out(<<a>>)>>}
\* CR LF to be cut in two, one with a NUL in it, and output shorter than a header.
MCRunTexts == {<<CR, LF, CR, NUL, LF>>, <<a, b>>}
=============================================================================
