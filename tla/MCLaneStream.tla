---------------------------- MODULE MCLaneStream ----------------------------
(***************************************************************************)
(* Events of one or two lines of every kind for TLC.                       *)
(***************************************************************************)
EXTENDS LaneStream

MCEvents == {<<Line("token", 0)>>, <<Line("usage", 2)>>, <<Line("nullUsage", 0)>>,
             <<Line("done", 0)>>, <<Line("comment", 0)>>,
             <<Line("comment", 0), Line("token", 0)>>,
             <<Line("garbled", 0), Line("usage", 1)>>}
=============================================================================
