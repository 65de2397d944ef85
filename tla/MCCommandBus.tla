------------------------------ MODULE MCCommandBus ------------------------------
(* A small instance of CommandBus for TLC. *)
EXTENDS CommandBus
CONSTANTS a, b, d, w1, p1, x1, x2

Envelope(session, id, origin, expected, kind, value) ==
    [instrument |-> "vna", session |-> session, id |-> id, origin |-> origin,
     expected |-> expected, payload |-> [kind |-> kind, value |-> value]]

\* A command, one that expects revision 1, a Restart that does too, a refused and
\* an invalid one under one key, two of a session, and a misdirected one.
MCCommands ==
    {Envelope("tab", 1, "Web", AnyRevision, "Configure", b),
     Envelope("tab", 2, "Web", 1, "Configure", a),
     Envelope("tab", 3, "Web", 1, "Restart", a),
     Envelope("tab", 4, "Web", AnyRevision, "Configure", d),
     Envelope("tab", 4, "Web", AnyRevision, "Invalid", a),
     Envelope(x1, 1, "Scpi", AnyRevision, "Configure", b),
     Envelope(x1, 1, "Scpi", AnyRevision, "Restart", d),
     [Envelope("tab", 1, "Web", AnyRevision, "Restart", a)
         EXCEPT !.instrument = "other"]}
===============================================================================
