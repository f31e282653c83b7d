------------------------------ MODULE OtaUpdate ------------------------------
(***************************************************************************)
(* The ota process: ota/ota_version.c over ota/ota_http.c.  Once a day it  *)
(* fetches the version the server announces, downloads the firmware if it  *)
(* is newer, compares its hash with the announced one and reboots the      *)
(* board.  The server announces a version in one file and offers the       *)
(* firmware in another, and changes either at any moment.  The firmware of *)
(* release r hashes to what the announcement of r says, and to nothing     *)
(* else.                                                                   *)
(***************************************************************************)
EXTENDS Naturals, Sequences

CONSTANTS
  Releases,   (* the versions <<major, minor, patch>> there are, oldest first *)
  Current     (* the one that is running: VERSION_MAJOR, MINOR, PATCH         *)

(* The order of versions. *)
Older(v, w) ==
  \/ v[1] < w[1]
  \/ v[1] = w[1] /\ v[2] < w[2]
  \/ v[1] = w[1] /\ v[2] = w[2] /\ v[3] < w[3]

ASSUME OtaAssumption ==
  /\ Releases \in Seq(Nat \X Nat \X Nat)
  /\ \A r, s \in DOMAIN Releases : r < s => Older(Releases[r], Releases[s])
  /\ Current \in DOMAIN Releases

VARIABLES
  ota,      (* the step ota is at: "off" before its first start, "crashed"    *)
            (* after a segmentation fault, "killed" by somebody else          *)
  info,     (* the announcement that was fetched, 0 for none                  *)
  file,     (* what is at OTA_LOCAL_FILE_PATH: nothing, the beginning of a    *)
            (* firmware, or all of it                                         *)
  server,   (* what the server announces and what it offers                   *)
  board     (* "up", or why it went down                                      *)

otaVars == <<ota, info, file, server, board>>

NoFile == [has |-> "nothing", release |-> 0]
PartOf(r) == [has |-> "part", release |-> r]
AllOf(r)  == [has |-> "all", release |-> r]

OtaInit ==
  /\ ota = "off"
  /\ info = 0
  /\ file = NoFile
  /\ server \in [announced : DOMAIN Releases, offered : DOMAIN Releases]
  /\ board = "up"

------------------------------------------------------------------------------
(* ota_version_checkUpdata_day and ota_version_checkUpdata *)

(* The process starts, as often as somebody starts it. *)
Begin ==
  /\ ota \in {"off", "crashed", "killed"}
  /\ board = "up"
  /\ ota' = "fetch"
  /\ info' = 0
  /\ UNCHANGED <<file, server, board>>

Fetch ==
  /\ ota = "fetch"
  /\ info' = server.announced
  /\ ota' = "compare"
  /\ UNCHANGED <<file, server, board>>

(* ota_http_get_json returns NULL, or a page that is no JSON, and            *)
(* cJSON_GetObjectItem(...)->valueint reads through a null pointer.          *)
FetchFails ==
  /\ ota = "fetch"
  /\ ota' = "crashed"
  /\ UNCHANGED <<info, file, server, board>>

UpToDate(r) ==
  LET v == Releases[r]  here == Releases[Current] IN
  \/ v[1] < here[1]
  \/ v[1] = here[1] /\ v[2] < here[2]
  \/ v[1] = here[1] /\ v[2] = here[2] /\ v[3] <= here[3]

Compare ==
  /\ ota = "compare"
  /\ ota' = IF UpToDate(info) THEN "sleep" ELSE "download"
  /\ UNCHANGED <<info, file, server, board>>

(* fopen(file_path, "wb") empties the file before the request is made. *)
Download ==
  /\ ota = "download"
  /\ file' = PartOf(server.offered)
  /\ ota' = "transfer"
  /\ UNCHANGED <<info, server, board>>

Downloaded ==
  /\ ota = "transfer"
  /\ file' = AllOf(file.release)
  /\ ota' = "verify"
  /\ UNCHANGED <<info, server, board>>

(* What was received so far stays where it is. *)
DownloadFails ==
  /\ ota = "transfer"
  /\ ota' = "sleep"
  /\ UNCHANGED <<info, file, server, board>>

(* Mutant: the announcement is fetched once more for its hash. *)
VerifyFreshInfo ==
  /\ ota = "verify"
  /\ info' = server.announced
  /\ IF file.release = server.announced
     THEN /\ ota' = "reboot"
          /\ UNCHANGED file
     ELSE /\ ota' = "sleep"
          /\ file' = NoFile
  /\ UNCHANGED <<server, board>>

(* The hash of the file is compared with the announced one. *)
Verify ==
  /\ ota = "verify"
  /\ IF file.release = info
     THEN /\ ota' = "reboot"
          /\ UNCHANGED file
     ELSE /\ ota' = "sleep"
          /\ file' = NoFile
  /\ UNCHANGED <<info, server, board>>

(* get_file_sha returns NULL when the file cannot be read or memory runs     *)
(* out, or the announcement names no hash: strcmp reads through a null       *)
(* pointer, and the firmware that was not verified stays where it is.        *)
VerifyCrashes ==
  /\ ota = "verify"
  /\ ota' = "crashed"
  /\ UNCHANGED <<info, file, server, board>>

Reboot ==
  /\ ota = "reboot"
  /\ ota' = "off"
  /\ board' = "updated"
  /\ UNCHANGED <<info, file, server>>

(* Without the privilege reboot() returns and ota waits for the next day. *)
RebootFails ==
  /\ ota = "reboot"
  /\ ota' = "sleep"
  /\ UNCHANGED <<info, file, server, board>>

DayPasses ==
  /\ ota = "sleep"
  /\ ota' = "fetch"
  /\ UNCHANGED <<info, file, server, board>>

------------------------------------------------------------------------------
(* Around it *)

(* The process is killed, at any step. *)
Killed ==
  /\ ota \notin {"off", "crashed", "killed"}
  /\ ota' = "killed"
  /\ UNCHANGED <<info, file, server, board>>

(* A release is announced or offered, or withdrawn for another. *)
Publish ==
  /\ board = "up"
  /\ \E r \in DOMAIN Releases, what \in {"announced", "offered"} :
       server' = [server EXCEPT ![what] = r]
  /\ UNCHANGED <<ota, info, file, board>>

CheckUpdate ==
  \/ Fetch \/ FetchFails \/ Compare \/ Download \/ Downloaded \/ DownloadFails
  \/ Verify \/ VerifyCrashes \/ DayPasses

------------------------------------------------------------------------------
(* Properties *)

(* ota reboots the board only into a complete firmware, the very one that    *)
(* the announcement it decided on names, and a newer one than the one that   *)
(* is running, whatever the server announced or offered in the meantime and  *)
(* whatever an earlier run left in the file (ota_version.c:109-156).         *)
RebootsIntoNewer ==
  board = "updated" => file = AllOf(info) /\ info > Current
==============================================================================
