--------------------------- MODULE MC_Dispatcher ---------------------------
(* Model-checking instance of Dispatcher: three requests, each of which   *)
(* the cloud may send as one of a few variants.                           *)
EXTENDS Dispatcher

CONSTANTS i1, i2, i3

MC_Ids == {i1, i2, i3}

Req(i, d, a, sn, da, u) == [id |-> i, decodes |-> d, action |-> a,
                            snap |-> sn, data |-> da, url |-> u]

(* i1: a list, an unknown action or a payload that does not decode;       *)
(* i2: an unregister; i3: a start whose services may be invalid, an       *)
(* install without a snap name, or a logs upload to a URL that does not   *)
(* parse.                                                                  *)
MC_Requests ==
    { Req(i1, TRUE, "list", FALSE, FALSE, TRUE),
      Req(i1, TRUE, "unknown", FALSE, FALSE, TRUE),
      Req(i1, FALSE, "list", FALSE, FALSE, TRUE),
      Req(i2, TRUE, "unregister", FALSE, FALSE, TRUE),
      Req(i3, TRUE, "start", TRUE, FALSE, TRUE),
      Req(i3, TRUE, "start", TRUE, TRUE, TRUE),
      Req(i3, TRUE, "install", FALSE, FALSE, TRUE),
      Req(i3, TRUE, "logs", FALSE, TRUE, FALSE) }
=============================================================================
