------------------------------ MODULE Snapshot ------------------------------
(***************************************************************************)
(* get_camera_image (isapi.py): a picture is asked for at one of two urls. *)
(* A device that answers at the first with status 6, invalid content, is   *)
(* asked at the second from then on: a flag of the stream, which all calls *)
(* share.  Status 3, device error, is tried again.  Several calls may be   *)
(* under way: the camera entity is asked by every page that shows it.      *)
(***************************************************************************)
EXTENDS Naturals

CONSTANT Viewers   \* calls that may be under way at once

VARIABLES
    useAlternate,   \* stream.use_alternate_picture_url
    shot            \* the calls: attempt, the url asked, what came back last

snapshotVars == <<useAlternate, shot>>

Urls == {"picture", "proxy"}
\* "broken" is a request that fails: request_bytes ends without data
Answers == {"image", "broken", "status3", "status6", "other"}
\* `requests' and `passed' are history: requests of this call, and whether
\* another call has switched the stream since this one was last asked
NoShot == [at |-> "idle", attempt |-> 0, url |-> "picture", requests |-> 0,
           passed |-> FALSE, result |-> "none"]

SnapshotInit ==
    /\ useAlternate = FALSE
    /\ shot = [v \in Viewers |-> NoShot]

SnapshotTypeOK ==
    /\ useAlternate \in BOOLEAN
    /\ shot \in [Viewers -> [at : {"idle", "asked", "done"}, attempt : 0 .. 2, url : Urls,
                             requests : 0 .. 6, passed : BOOLEAN,
                             result : Answers \union {"none"}]]

\* the request goes to the url of the moment
Ask(s, attempt, alternate) ==
    [s EXCEPT !.at = "asked", !.attempt = attempt, !.url = IF alternate THEN "proxy" ELSE "picture",
              !.requests = @ + 1, !.passed = FALSE]

\* async_camera_image; a call that is done is forgotten
GetCameraImage(v) ==
    /\ shot[v].at # "asked"
    /\ shot' = [shot EXCEPT ![v] = Ask(NoShot, 0, useAlternate)]
    /\ UNCHANGED useAlternate

\* slip: a call that switches the url keeps trying whatever it is told
SwitchesAgain(v, answer) == answer = "status6"

\* status 6 while the stream is not switched
Switches6(v, answer) == answer = "status6" /\ ~useAlternate

\* slip: one retry too many
RetriesOnceMore(v, answer) == answer = "status3" /\ shot[v].attempt =< 2

\* status 3, after the first and the second attempt
Retries(v, answer) == answer = "status3" /\ shot[v].attempt < 2

\* the answer: the url is switched and the attempts start anew, or the
\* request is tried again, or what came is handed to the caller as it is
AnswerComes(v) ==
    /\ shot[v].at = "asked"
    /\ \E answer \in Answers :
          \/ /\ Switches6(v, answer)
             /\ useAlternate' = TRUE
             /\ shot' = [w \in Viewers |->
                           IF w = v THEN Ask(shot[v], 0, TRUE)
                           ELSE [shot[w] EXCEPT !.passed = @ \/ (shot[w].at = "asked")]]
          \/ /\ ~Switches6(v, answer) /\ Retries(v, answer)
             /\ shot' = [shot EXCEPT ![v] = Ask(@, shot[v].attempt + 1, useAlternate)]
             /\ UNCHANGED useAlternate
          \/ /\ ~Switches6(v, answer) /\ ~Retries(v, answer)
             /\ shot' = [shot EXCEPT ![v].at = "done", ![v].result = answer]
             /\ UNCHANGED useAlternate

SnapshotNext == \E v \in Viewers : GetCameraImage(v) \/ AnswerComes(v)

-----------------------------------------------------------------------------
\* A call ends after six requests at most, and hands out an error document
\* in place of a picture only for a reason: the device refused the second
\* url too, or the call had asked at the first when another one switched the
\* stream - it gives up although the second url was never tried -, or the
\* device erred three times in a row, or it answered something else.
SnapshotHonest ==
    \A v \in Viewers :
        LET s == shot[v]
        IN  /\ s.requests =< 6
            /\ s.at = "done" /\ s.result = "status6" => s.url = "proxy" \/ s.passed
            /\ s.at = "done" /\ s.result = "status3" => s.attempt = 2
=============================================================================
