--------------------------- MODULE AuditedMutations ---------------------------
(***************************************************************************)
(* Which mutations of which records leave an activity, what each of them   *)
(* writes, and what the snapshots of a record hold.  The tables are those  *)
(* of the resolvers, of the get...Snapshot functions and of the wrappers   *)
(* of pub-sub.service.ts; a record's own row is "header", and its child    *)
(* rows are named by their table.                                          *)
(***************************************************************************)
EXTENDS Sequences

\* steps: the tables written, those of one transaction together; told: whether the
\* mutation publishes what it did.
Mutation(type, steps, told) == [type |-> type, steps |-> steps, told |-> told]

Header == {"header"}
Save(steps) == {Mutation(type, steps, TRUE) : type \in {"create", "update"}}
Change(tables) == {Mutation("update", <<tables>>, TRUE)}
Delete(steps) == {Mutation("delete", steps, TRUE)}
Untold(tables) == {Mutation("update", <<tables>>, FALSE)}

----------------------------------------------------------------------------
(* The child tables of each snapshot, always in force only *)

OrderQuotationSnapshot == {"order_quotation_products"}
OrderRequestSnapshot == {"order_request_products"}
OrderSaleSnapshot == {"order_sale_products"}
ExpenseSnapshot == {"expense_resources"}
TransferSnapshot == {"transfer_receipts"}
AccountSnapshot == {"account_contacts", "account_products", "account_resources"}
OrderProductionSnapshot ==
    {"order_production_products", "order_production_employees", "order_production_products_consumed"}
OrderAdjustmentSnapshot == {"order_adjustment_products"}
UserSnapshot == {"user_roles"}
ProductSnapshot == {}
ResourceSnapshot == {}
EmployeeSnapshot == {}
MachineSnapshot == {}

----------------------------------------------------------------------------
(* What writes each record *)

\* Saved, moved to another status, a line linked to its product, deleted; and stamped
\* by the first two steps of an acceptance, which publish the account and the request.
OrderQuotationMutations ==
    LET lines == {"order_quotation_products"} IN
    Save(<<Header \cup lines>>) \cup Change(Header) \cup Change(lines)
        \cup Delete(<<lines, Header>>) \cup Untold(Header)

\* The board's priorities are left out of the trail on purpose.
OrderRequestMutations ==
    LET lines == {"order_request_products"} IN
    Save(<<Header \cup lines>>) \cup Change(Header) \cup Delete(<<lines, Header>>) \cup Untold(Header)

\* Its totals also change with a transfer's receipts and with an adjustment.
OrderSaleMutations ==
    LET lines == {"order_sale_products"} IN
    Save(<<Header \cup lines>>) \cup Change(Header) \cup Delete(<<lines, Header>>) \cup Untold(Header)

\* One statement after another.  Those that recur are created in a transaction each.
ExpenseMutations ==
    LET lines == {"expense_resources"} IN
    Save(<<Header, lines>>) \cup Change(Header) \cup Delete(<<Header, lines>>) \cup Untold(Header)

GeneratedExpenses == {Mutation("create", <<Header \cup {"expense_resources"}>>, TRUE)}

TransferMutations ==
    LET lines == {"transfer_receipts"} IN
    Save(<<Header \cup lines>>) \cup Delete(<<Header, lines>>)

\* An acceptance writes the prices of its client.
AccountMutations ==
    Save(<<Header \cup AccountSnapshot>>) \cup Delete(<<{"account_contacts"}, Header>>)
        \cup Change({"account_products"})

OrderProductionMutations ==
    Save(<<Header \cup OrderProductionSnapshot>>)
        \cup Delete(<<Header, {"order_production_products"}, {"order_production_employees"}>>)

OrderAdjustmentMutations ==
    LET lines == {"order_adjustment_products"} IN
    Save(<<Header, lines>>) \cup Delete(<<Header, lines>>)

\* A password reset by an administrator is not told.
UserMutations == Save(<<Header, {"user_roles"}>>) \cup Untold(Header)

ProductMutations == Save(<<Header>>) \cup Delete(<<Header>>)
ResourceMutations == Save(<<Header>>) \cup Delete(<<Header>>)
EmployeeMutations == Save(<<Header>>) \cup Delete(<<Header>>)
MachineMutations == Save(<<Header>>) \cup Delete(<<Header>>)

\* Its snapshots are not supported: a plan has rows, and these have rows.
ProductionPlanMutations ==
    LET lines == {"production_plan_rows"} IN
    Save(<<Header, lines>>) \cup Delete(<<lines, Header>>)

----------------------------------------------------------------------------
(* The wrappers: each publishes its entity under a topic, then an activity *)

WorkshopWrappers == {"product", "order_production", "machine", "order_adjustment", "employee"}
ClientWrappers == {"account", "user", "order_request", "order_quotation"}
MoneyWrappers == {"order_sale", "transfer", "resource", "expense"}
Wrappers == WorkshopWrappers \cup ClientWrappers \cup MoneyWrappers

\* A plan has no topic: nothing listens for one.
Untopical == {"production_plan"}

MutationsOf ==
    [order_quotation |-> OrderQuotationMutations, order_request |-> OrderRequestMutations,
     order_sale |-> OrderSaleMutations, expense |-> ExpenseMutations \cup GeneratedExpenses,
     transfer |-> TransferMutations, account |-> AccountMutations, user |-> UserMutations,
     order_production |-> OrderProductionMutations, order_adjustment |-> OrderAdjustmentMutations,
     product |-> ProductMutations, resource |-> ResourceMutations, employee |-> EmployeeMutations,
     machine |-> MachineMutations, production_plan |-> ProductionPlanMutations]

SnapshotOf ==
    [order_quotation |-> OrderQuotationSnapshot, order_request |-> OrderRequestSnapshot,
     order_sale |-> OrderSaleSnapshot, expense |-> ExpenseSnapshot, transfer |-> TransferSnapshot,
     account |-> AccountSnapshot, user |-> UserSnapshot,
     order_production |-> OrderProductionSnapshot, order_adjustment |-> OrderAdjustmentSnapshot,
     product |-> ProductSnapshot, resource |-> ResourceSnapshot, employee |-> EmployeeSnapshot,
     machine |-> MachineSnapshot]

=============================================================================
