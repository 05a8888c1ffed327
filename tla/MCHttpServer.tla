---------------------------- MODULE MCHttpServer ----------------------------
(* Requests for every handler, a request line that is not understood, and a *)
(* Content-Length that is no number.                                        *)
EXTENDS HttpServer

Kind(method, target, version, len) ==
  [method |-> method, target |-> target, version |-> version, len |-> len, number |-> TRUE]

AllKinds ==
  {Kind("GET", "method", "Http11", 0), Kind("POST", "method", "Http11", 3),
   Kind("GET", "file", "Http11", 0), Kind("GET", "file", "Http10", 0),
   Kind("GET", "nowhere", "Http11", 0), Kind("GET", "file", "Unknown", 0),
   Kind("PUT", "file", "Http11", 0), Kind("PUT", "file", "Http11", 2),
   Kind("PUT", "nowhere", "Http11", 1), Kind("HEAD", "file", "Http10", 0),
   Kind("DELETE", "file", "Http11", 0), Kind("DELETE", "nowhere", "Http11", 0),
   [Kind("POST", "method", "Http11", 0) EXCEPT !.number = FALSE]}

\* Methods alone, and with either callback; an application without methods
MCSetups ==
  {{"methods"}, {"methods", "httpCallback"}, {"methods", "readyReadCallback"},
   {"readyReadCallback"}}

MCDisk == <<"zero", "block">>
=============================================================================
