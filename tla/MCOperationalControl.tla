----------------------- MODULE MCOperationalControl -----------------------
\* Small instances of OperationalControl for TLC.
EXTENDS OperationalControl

MCSubject == DecisionId \cup CoreId

\* One person in both roles, two people in one role, one person of each role.
MCApprovalRequest ==
    { {<<"ana", Operator>>, <<"ana", SafetyOfficer>>},
      {<<"ana", Operator>>, <<"bo", Operator>>},
      {<<"ana", Operator>>, <<"bo", SafetyOfficer>>} }
=============================================================================
