-------------------------- MODULE MCMeetupRequests --------------------------
(* Small instances of MeetupRequests: see the .cfg files for the bounds. *)
EXTENDS MeetupRequests, TLC

CONSTANTS host, ann, bob, m1, m2

\* One meetup with one seat.
OneHost == m1 :> host
OneStart == m1 :> 1
OneEnd == m1 :> 2
OneSeat == m1 :> 1

\* Two meetups whose windows overlap, hosted by two people.
TwoHosts == m1 :> host @@ m2 :> ann
TwoStarts == m1 :> 0 @@ m2 :> 1
TwoEnds == m1 :> 2 @@ m2 :> 3
SeatEach == m1 :> 1 @@ m2 :> 1
=============================================================================
