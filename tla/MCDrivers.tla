------------------------------ MODULE MCDrivers ------------------------------
(***************************************************************************)
(* The drivers of the timer, the radio, the bus with the program that uses *)
(* it, the converter and the display, and drawing in images.  They share   *)
(* no state but the board: in each behaviour one of them is used and the   *)
(* others are at rest, so that the states of all need not be multiplied.   *)
(***************************************************************************)
EXTENDS TimerDriver, Accel, Radio, Adc, Display

VARIABLE driver         \* The one that is used

driversVars ==
    <<driver, vars, levelVars, radioVars, adcVars, displayVars, imageVars>>

MCTransfers == {Transfer("READ", "ACC2", 0, 2), Transfer("READ", "ACC1", 1, 256)}

MCPictures == {{<<0, 0>>, <<3, 4>>, <<1, 2>>}}
MCUrgentPictures == {{<<3, 3>>, <<2, 2>>, <<4, 1>>}}

\* Two dots are off the display.
MCDots == Pixels \cup {<<5, 0>>, <<0, -1>>}

\* Only what is used has several initial states.
DriversInit ==
    /\ driver \in {"timer", "bus", "radio", "converter", "display", "image"}
    /\ Init /\ LevelInit /\ RadioInit /\ AdcInit /\ DisplayInit /\ ImageInit
    /\ driver # "bus" => present = {}
    /\ driver # "radio" => group = CHOOSE g \in Groups : TRUE
    /\ driver \in {"timer", "bus", "radio"} => board = "V1"

DriversNext ==
    /\ \/ driver = "timer" /\ Next
          /\ UNCHANGED <<levelVars, radioVars, adcVars, displayVars, imageVars>>
       \/ driver = "bus" /\ LevelNext
          /\ UNCHANGED <<vars, radioVars, adcVars, displayVars, imageVars>>
       \/ driver = "radio" /\ RadioNext
          /\ UNCHANGED <<vars, levelVars, adcVars, displayVars, imageVars>>
       \/ driver = "converter" /\ AdcNext
          /\ UNCHANGED <<vars, levelVars, radioVars, displayVars, imageVars>>
       \/ driver = "display" /\ DisplayNext
          /\ UNCHANGED <<vars, levelVars, radioVars, adcVars, imageVars>>
       \/ driver = "image" /\ ImageNext
          /\ UNCHANGED <<vars, levelVars, radioVars, adcVars, displayVars>>
    /\ UNCHANGED driver

\* The tasks have the highest priority, and the hardware finishes what it was
\* told.  The display task clears its image when low priority comes to its turn,
\* since an interrupt puts the process it preempts behind the others, and goes on
\* at its pulses, with a higher priority than the slow client.  What is at rest
\* need not move.
DriversSpec ==
    /\ DriversInit /\ [][DriversNext]_driversVars
    /\ WF_vars(driver = "timer" /\ Pass) /\ WF_vars(driver = "timer" /\ timer_task)
    /\ \A c \in Clients : WF_vars(driver = "timer" /\ Proceed(c))
                          /\ WF_vars(driver = "timer" /\ Wait(c))
    /\ LevelFairness /\ RadioFairness
    /\ WF_adcVars(driver = "converter" /\ AdcStep)
    /\ WF_adcVars(driver = "converter" /\ (Calibrated \/ Sampled))
    /\ WF_adcVars(driver = "converter" /\ AdcInterrupt)
    /\ WF_displayVars(driver = "display" /\ display_task)

\* A client of any driver gets its answer sooner or later, but for the cases
\* that the four properties name.
RequestsEnd == CallsReturn /\ TransfersEnd /\ SendsEnd /\ ReadingsReturn
=============================================================================
