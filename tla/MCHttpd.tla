------------------------------- MODULE MCHttpd -------------------------------
(* Instances of Httpd: a build that kills its oldest connection, one that   *)
(* sends its own headers, and one with everything that POST can do.         *)
EXTENDS Httpd

Plain == [post |-> FALSE, manual |-> FALSE, keepalive |-> FALSE, persistent |-> FALSE,
          headers |-> FALSE, kill |-> FALSE, page404 |-> TRUE, conns |-> 1, states |-> 1,
          requests |-> 1, header |-> 2]

Killing == [Plain EXCEPT !.kill = TRUE, !.keepalive = TRUE, !.persistent = TRUE,
                         !.conns = 3, !.states = 2]

Dynamic == [Plain EXCEPT !.headers = TRUE, !.keepalive = TRUE, !.persistent = TRUE,
                         !.page404 = FALSE, !.post = TRUE, !.header = 3]

Posting == [Plain EXCEPT !.post = TRUE, !.manual = TRUE, !.keepalive = TRUE,
                         !.persistent = TRUE, !.requests = 2, !.header = 3]

AllBuilds == {Killing, Dynamic, Posting}

=============================================================================
