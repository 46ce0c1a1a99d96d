---------------------------- MODULE MCCoreProposals ----------------------------
\* Small instances of CoreProposals for TLC.
EXTENDS CoreProposals, TLC

MCSubject == DecisionId \cup CoreId

MCApprovalRequest ==
    { {<<"ana", Operator>>, <<"ana", SafetyOfficer>>},
      {<<"ana", Operator>>, <<"bo", SafetyOfficer>>} }

=============================================================================
