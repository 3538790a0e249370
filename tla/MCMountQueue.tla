---------------------------- MODULE MCMountQueue ----------------------------
(* Two slots and five mounts for two places: up to three wait, all but one for each slot
   cancelled, and a slot that is shown again may queue behind its own cancelled mounts. *)
EXTENDS MountQueue
=============================================================================
