------------------------------ MODULE UnitOfWork ------------------------------
(***************************************************************************)
(* The part of the object-relational mapper that every service of the      *)
(* application relies on and never mentions: what a session writes when it *)
(* commits.  app/db/session.py builds its sessions with autoflush and      *)
(* autocommit off and expire_on_commit on, over READ COMMITTED.  A row is  *)
(* loaded into the session once and may be changed in the database by      *)
(* others while the service works on its copy; the commit then updates     *)
(* only the columns whose value differs from the one that was loaded.      *)
(***************************************************************************)

(* One column at commit: `stored` is in the database now, `loaded` was     *)
(* there when the session read the row, `edited` is what the service       *)
(* assigned.  An assignment that restores the loaded value is no change    *)
(* and leaves the stored value, whoever wrote it since.                    *)
Flush(stored, loaded, edited) == IF edited = loaded THEN stored ELSE edited

===============================================================================
