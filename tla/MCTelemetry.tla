----------------------------- MODULE MCTelemetry -----------------------------
EXTENDS Telemetry

\* Names with the characters that are escaped: a backslash and an n, a line's end.
MCGpuNames    == {<<"g", "p", "u">>}
MCSensorNames == MCGpuNames \union {<<"\\", "n">>, <<"\n">>}
=============================================================================
