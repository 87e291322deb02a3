--------------------------- MODULE MCComposeSerial ---------------------------
(* One request at a time, with the people of MCComposeWorkflow. *)
EXTENDS MCComposeWorkflow, ComposeSerial
=============================================================================
