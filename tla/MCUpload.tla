------------------------------ MODULE MCUpload ------------------------------
(* Instances of Upload for TLC. *)
EXTENDS Upload

AllOpts ==
  {o \in [pieces : 0 .. 3, kind : {"local", "gcs", "azblob"}, compress : BOOLEAN,
          lateErrors : BOOLEAN] : o.lateErrors => o.kind = "local"}
==============================================================================
