-------------------------- MODULE VoiceOnboardingMC --------------------------
(***************************************************************************)
(* The side of Discord for TLC, a behaviour being one of a part, chosen at *)
(* the start, and not of their product.                                    *)
(***************************************************************************)
EXTENDS Bot, TLC

VARIABLE part   \* the part that runs: "voice", "setup", "recover", "slash"

setupVars == <<there, panels, people, haveRole, hidden, own, unlocked, welcome, shut, at,
               piece, members, known, visits, channel, guests, gated, saved, setups, moves,
               unread, late>>
commandVars == <<status, role, updates, news, changes, cached, calls, cooldown, pressed,
                 child, unsure, last>>
slashVars == <<interaction, fetch, hops, request, jobOwner, state, made, told>>

MCInit ==
  /\ part \in {"voice", "setup", "recover", "slash"}
  /\ Init /\ Setup!Init /\ Recover!Init /\ Slash!Init
  /\ part # "setup" => there = {} /\ people = {} /\ hidden = {}
  /\ part # "recover" => unsure = {} /\ \A u \in Supporters : ~status[u] /\ ~role[u]

MCNext ==
  /\ UNCHANGED part
  /\ \/ /\ part = "voice" /\ Next
        /\ UNCHANGED <<setupVars, commandVars, slashVars>>
     \/ /\ part = "setup" /\ Setup!Next
        /\ UNCHANGED <<vars, commandVars, slashVars>>
     \/ /\ part = "recover" /\ Recover!Next
        /\ UNCHANGED <<vars, setupVars, slashVars>>
     \/ /\ part = "slash" /\ Slash!Next
        /\ UNCHANGED <<vars, setupVars, commandVars>>

MCSpec == MCInit /\ [][MCNext]_<<part, vars, setupVars, commandVars, slashVars>>

Interchangeable == Permutations(Members)

\* Of the script's things there is nothing, or the channel and the category that
\* it treats differently when they are there.
MCFound == {{}, {"deobfuscate", "startHere"}}
=============================================================================
