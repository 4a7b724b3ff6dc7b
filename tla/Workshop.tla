------------------------------ MODULE Workshop ------------------------------
(***************************************************************************)
(* Spares, productions, plans, user roles and the batch loader, one in a   *)
(* behaviour: at the detail they are modelled in they share nothing, so    *)
(* their steps commute, and `part` says which of them a behaviour is of.   *)
(***************************************************************************)
EXTENDS SpareStock, Productions, Plans, UserRoles, BatchLoader

VARIABLE part

componentVars == <<stockVars, productionVars, planVars, userVars, loaderVars>>

Components == {"stock", "production", "plan", "user", "loader"}

ComponentsInit == SlotsInit /\ StockInit /\ ProductionsInit /\ PlansInit /\ UsersInit /\ LoaderInit

WorkshopNext ==
    \/ /\ part = "stock" /\ StockNext
       /\ UNCHANGED <<part, productionVars, planVars, userVars, loaderVars>>
    \/ /\ part = "production" /\ ProductionsNext
       /\ UNCHANGED <<part, stockVars, planVars, userVars, loaderVars>>
    \/ /\ part = "plan" /\ PlansNext
       /\ UNCHANGED <<part, stockVars, productionVars, userVars, loaderVars>>
    \/ /\ part = "user" /\ UsersNext
       /\ UNCHANGED <<part, stockVars, productionVars, planVars, loaderVars>>
    \/ /\ part = "loader" /\ LoaderNext
       /\ UNCHANGED <<part, slotVars, stockVars, productionVars, planVars, userVars>>

WorkshopSpec ==
    part \in Components /\ ComponentsInit /\ [][WorkshopNext]_<<part, slotVars, componentVars>>

----------------------------------------------------------------------------
(* What is claimed of them together *)

\* What is in force of a document, a production, a plan or a user is what its last
\* save that ended asked for: the four components save lines in four ways, and each
\* has its own exceptions, stated where it is.
SavedAsAsked ==
    /\ StockAsAsked
    /\ ProductionsAsAsked
    /\ PlansAsAsked
    /\ RolesAsAsked

\* What a save validates of a machine's or an employee's type, and of a shift, is so
\* of what is in force whatever is saved afterwards: no constraint of the database
\* holds either.  Each of the two has its own exceptions, stated where it is.
ValidatedStaysValid ==
    /\ TypesAgree
    /\ PlanPerShift

=============================================================================
