---------------------------- MODULE Concurrency ----------------------------
(***************************************************************************)
(* The requests a component may have in flight at once.  The Node.js       *)
(* process interleaves them at every await, and PostgreSQL at every        *)
(* statement.                                                              *)
(***************************************************************************)
CONSTANTS Requests, None   \* None is held by nobody
ASSUME NoneAssumption == None \notin Requests
============================================================================
