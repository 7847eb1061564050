----------------------------- MODULE MCSeparate -----------------------------
(* Instances of three components that share no state, with each other or with
   another module: WeakRef, OptionGroups and IOChannel.  In a behaviour one
   of them moves, and the others stay as they start.                       *)
EXTENDS WeakRef, OptionGroups, IOChannel

(* To the end, up to a count, and a negative count other than -1.          *)
MCMaxCounts == {-1, -2, 3}

separateVars == <<vars, optionVars, channelVars>>

AllInit == Init /\ OptionsInit /\ ChannelInit

(* Where the others are when WeakRef stays.                                *)
WeakRefStays == Init /\ owners = Threads /\ UNCHANGED vars
OptionsStay  == OptionsInit /\ UNCHANGED optionVars
ChannelStays == ChannelInit /\ UNCHANGED channelVars

OneMoves ==
  \/ Next /\ OptionsStay /\ ChannelStays
  \/ OptionsNext /\ WeakRefStays /\ ChannelStays
  \/ ChannelNext /\ WeakRefStays /\ OptionsStay

SeparateSpec == AllInit /\ [][OneMoves]_separateVars /\ Fairness
=============================================================================
